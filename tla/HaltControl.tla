----------------------------- MODULE HaltControl -----------------------------
(***************************************************************************)
(* The kill switch: core/watchdog.py and its daemon, core/emergency_halt.py*)
(* and the halt tests the bots make before each entry.                     *)
(*                                                                         *)
(* The watchdog, the bots, the Telegram listener and the operator are      *)
(* separate processes that meet in the halt_flags table only, where each   *)
(* bot has a row and the emergency halt is the row __ALL__.  A tick of the *)
(* watchdog runs every check, then acts on the failed ones: for each bot   *)
(* in scope it reads the flag, calls cancel_all, and raises the flag in a  *)
(* second session.  A bot reads the two flags in two sessions.             *)
(*                                                                         *)
(* A check stands for one family of kill messages (_same_reason_family).   *)
(* What the cancels do to the orders on the book is left to LiveLedger and *)
(* MakerLive: no halt test and no halt looks at the book.                  *)
(***************************************************************************)
EXTENDS Integers, FiniteSets

CONSTANTS
  Bots,
  Checks,       \* the watchdog's kill checks
  Scope,        \* [Checks -> SUBSET Bots]: the bots a check halts
  MaxManual     \* bound: halts and unhalts by hand

ASSUME HaltAssumption ==
  /\ Scope \in [Checks -> SUBSET Bots]
  /\ IsFiniteSet(Checks)
  /\ MaxManual \in Nat
  /\ {"none", "operator", "unhalt"} \cap Checks = {}

VARIABLES
  halted,     \* [Bots -> BOOLEAN]: halt_flags.halted
  reason,     \* [Bots -> Reasons]: halt_flags.reason, "none" before there is a row
  recent,     \* [Bots -> BOOLEAN]: set_at is less than 60 s old
  emergency,  \* the __ALL__ row, or EMERGENCY_HALT in the environment
  seen,       \* [Bots -> SUBSET Reads]: the halt tests the quote in hand is past
  bad,        \* checks whose condition holds
  raises,     \* checks whose query raises
  wd,         \* the watchdog: "sleep", "check", "act", "cancel", "read", "write"
  toCheck,    \* checks this tick has still to run
  failed,     \* checks this tick found failing
  queue,      \* <<check, bot>> pairs still to be halted
  job,        \* the pair being halted, and what its sessions read
  manual,     \* halts and unhalts by hand so far
  late,       \* [Bots -> [Flags -> 0 .. 2]]: orders placed while the flag is up
              \* which had passed the test of it
  calls       \* [Bots -> Nat]: cancel_all calls since set_at was moved, or the
              \* daemon died between two halts

flagVars  == <<halted, reason, recent, emergency>>
worldVars == <<bad, raises>>
wdVars    == <<wd, toCheck, failed, queue, job>>
history   == <<manual, late, calls>>
vars == <<halted, reason, recent, emergency, seen, bad, raises,
          wd, toCheck, failed, queue, job, manual, late, calls>>

\* The two flags a bot looks at; "unread" is a failed read of the repo-wide one.
Flags == {"own", "all"}
Reads == Flags \cup {"unread"}
Reasons == Checks \cup {"none", "operator", "unhalt"}
NoJob == [check |-> "none", bot |-> "none", skip |-> FALSE,
          halted |-> FALSE, reason |-> "none"]

Init ==
  /\ halted = [b \in Bots |-> FALSE]
  /\ reason = [b \in Bots |-> "none"]
  /\ recent = [b \in Bots |-> FALSE]
  /\ emergency = FALSE
  /\ seen = [b \in Bots |-> {}]
  /\ bad = {} /\ raises = {}
  /\ wd = "sleep"
  /\ toCheck = {} /\ failed = {} /\ queue = {}
  /\ job = NoJob
  /\ manual = 0
  /\ late = [b \in Bots |-> [f \in Flags |-> 0]]
  /\ calls = [b \in Bots |-> 0]

\* The histories saturate: past the bound of its property a count says no more.
Capped(n, max) == IF n > max THEN max ELSE n

Up(b, f) == IF f = "own" THEN halted[b] ELSE emergency

-----------------------------------------------------------------------------
(* The bots.  Each quote passes both halt tests, one after the other: the   *)
(* maker reads the repo-wide flag first (halt_reason), the executor its own *)
(* (try_enter).  Either order is allowed here.                              *)

TestFlag(b, f) ==
  /\ ~Up(b, f) /\ f \notin seen[b]
  /\ f = "all" => "unread" \notin seen[b]
  /\ seen' = [seen EXCEPT ![b] = @ \cup {f}]
  /\ UNCHANGED <<flagVars, worldVars, wdVars, history>>

\* is_emergency_halted fails open: a database error counts as clear.
EmergencyUnread(b) ==
  /\ seen[b] \cap {"all", "unread"} = {}
  /\ seen' = [seen EXCEPT ![b] = @ \cup {"unread"}]
  /\ UNCHANGED <<flagVars, worldVars, wdVars, history>>

Passed(b) == "own" \in seen[b] /\ seen[b] \cap {"all", "unread"} # {}

\* The order reaches the exchange.
CountLate(b) ==
  late' = [late EXCEPT ![b] = [f \in Flags |->
             IF Up(b, f) /\ f \in seen[b] THEN Capped(@[f] + 1, 2) ELSE @[f]]]

\* Mutant: the tests are made once per scan, not for each quote.
PlaceOrderOfScan(b) ==
  /\ Passed(b)
  /\ CountLate(b)
  /\ UNCHANGED <<seen, flagVars, worldVars, wdVars, manual, calls>>

PlaceOrder(b) ==
  /\ Passed(b)
  /\ CountLate(b)
  /\ seen' = [seen EXCEPT ![b] = {}]
  /\ UNCHANGED <<flagVars, worldVars, wdVars, manual, calls>>

\* A flag is up, the read of the bot's own fails, a cap refuses the order, the
\* call fails, or the process is restarted.
NoOrder(b) ==
  /\ seen[b] # {}
  /\ seen' = [seen EXCEPT ![b] = {}]
  /\ UNCHANGED <<flagVars, worldVars, wdVars, history>>

-----------------------------------------------------------------------------
(* People, and the world the checks look at.                               *)

SetAtMoves(b) ==
  /\ recent' = [recent EXCEPT ![b] = TRUE]
  /\ calls' = [calls EXCEPT ![b] = 0]

\* Sixty seconds pass.
SetAtAges(b) ==
  /\ recent[b]
  /\ recent' = [recent EXCEPT ![b] = FALSE]
  /\ UNCHANGED <<halted, reason, emergency, seen, worldVars, wdVars, history>>

\* An operator halts a bot by hand, with a text of their own.
OperatorHalts(b) ==
  /\ manual < MaxManual /\ manual' = manual + 1
  /\ halted' = [halted EXCEPT ![b] = TRUE]
  /\ reason' = [reason EXCEPT ![b] = "operator"]
  /\ SetAtMoves(b)
  /\ UNCHANGED <<emergency, seen, worldVars, wdVars, late>>

\* Watchdog.unhalt from the Telegram listener; it needs a row.
Unhalt(b) ==
  /\ manual < MaxManual /\ manual' = manual + 1
  /\ reason[b] # "none"
  /\ halted' = [halted EXCEPT ![b] = FALSE]
  /\ reason' = [reason EXCEPT ![b] = "unhalt"]
  /\ late' = [late EXCEPT ![b]["own"] = 0]
  /\ SetAtMoves(b)
  /\ UNCHANGED <<emergency, seen, worldVars, wdVars>>

\* set_emergency_halt and clear_emergency_halt: no order is touched.
ToggleEmergency ==
  /\ manual < MaxManual /\ manual' = manual + 1
  /\ emergency' = ~emergency
  /\ late' = [b \in Bots |-> [late[b] EXCEPT !["all"] = 0]]
  /\ UNCHANGED <<halted, reason, recent, seen, worldVars, wdVars, calls>>

ConditionChanges(c) ==
  /\ bad' = IF c \in bad THEN bad \ {c} ELSE bad \cup {c}
  /\ UNCHANGED <<flagVars, seen, raises, wdVars, history>>

\* A database error, or its end, in the query of a check.
QueryChanges(c) ==
  /\ raises' = IF c \in raises THEN raises \ {c} ELSE raises \cup {c}
  /\ UNCHANGED <<flagVars, seen, bad, wdVars, history>>

-----------------------------------------------------------------------------
(* The watchdog's tick: Watchdog.run_once.                                 *)

StartTick ==
  /\ wd = "sleep"
  /\ wd' = "check" /\ toCheck' = Checks /\ failed' = {}
  /\ UNCHANGED <<flagVars, seen, worldVars, queue, job, history>>

RunCheck(c) ==
  /\ wd = "check" /\ c \in toCheck /\ c \notin raises
  /\ toCheck' = toCheck \ {c}
  /\ failed' = IF c \in bad THEN failed \cup {c} ELSE failed
  /\ UNCHANGED <<flagVars, seen, worldVars, wd, queue, job, history>>

\* Mutant: the list of halts to carry out outlives the tick.
StopKeepsQueue ==
  /\ wd' = "sleep"
  /\ toCheck' = {} /\ failed' = {}
  /\ job' = NoJob
  /\ UNCHANGED <<flagVars, seen, worldVars, queue, manual, late>>

\* Nothing catches an exception of a check: the daemon exits, and systemd
\* starts a new one that knows nothing of the checks that had failed.
Stop ==
  /\ wd' = "sleep"
  /\ toCheck' = {} /\ failed' = {} /\ queue' = {}
  /\ job' = NoJob
  /\ UNCHANGED <<flagVars, seen, worldVars, manual, late>>

CheckRaises(c) ==
  /\ wd = "check" /\ c \in toCheck /\ c \in raises
  /\ Stop /\ UNCHANGED calls

\* The side effects come after the last check, for the failed ones only.
StartActing ==
  /\ wd = "check" /\ toCheck = {}
  /\ wd' = "act"
  /\ queue' = {p \in failed \X Bots : p[2] \in Scope[p[1]]}
  /\ UNCHANGED <<flagVars, seen, worldVars, toCheck, failed, job, history>>

\* Mutant: a halted bot is cancelled again.
NeverSkip(c, b) == FALSE

\* _halt skips cancel_all for a bot halted already: for the same family of
\* reasons, or more than a minute ago.
SkipCancel(c, b) == halted[b] /\ (reason[b] = c \/ ~recent[b])

Decide(c, b) ==
  /\ wd = "act" /\ <<c, b>> \in queue
  /\ wd' = "cancel" /\ queue' = queue \ {<<c, b>>}
  /\ job' = [NoJob EXCEPT !.check = c, !.bot = b, !.skip = SkipCancel(c, b)]
  /\ UNCHANGED <<flagVars, seen, worldVars, toCheck, failed, history>>

\* dispatch_cancel, which turns an exception into "none cancelled": the halt
\* goes on in the same way whether the exchange did what it was asked or not.
CancelAll ==
  /\ wd = "cancel" /\ ~job.skip
  /\ wd' = "read"
  /\ calls' = [calls EXCEPT ![job.bot] = Capped(@ + 1, Cardinality(Checks) + 1)]
  /\ UNCHANGED <<flagVars, seen, worldVars, toCheck, failed, queue, job,
                 manual, late>>

CancelSkipped ==
  /\ wd = "cancel" /\ job.skip
  /\ wd' = "read"
  /\ UNCHANGED <<flagVars, seen, worldVars, toCheck, failed, queue, job,
                 history>>

\* The second session loads the flag; its SELECT opens no transaction.
ReadFlag ==
  /\ wd = "read"
  /\ wd' = "write"
  /\ job' = [job EXCEPT !.halted = halted[job.bot], !.reason = reason[job.bot]]
  /\ UNCHANGED <<flagVars, seen, worldVars, toCheck, failed, queue, history>>

\* Mutant: a row with a reason that is not the watchdog's is left alone.
WriteFlagIfOwn ==
  LET b == job.bot
  IN  /\ wd = "write"
      /\ wd' = "act" /\ job' = NoJob
      /\ IF job.reason \in Checks \cup {"none"}
           THEN /\ reason' = [reason EXCEPT ![b] = job.check]
                /\ halted' = [halted EXCEPT ![b] = TRUE]
                /\ IF job.halted THEN UNCHANGED <<recent, calls>>
                                 ELSE SetAtMoves(b)
           ELSE UNCHANGED <<halted, reason, recent, calls>>
      /\ UNCHANGED <<emergency, seen, worldVars, toCheck, failed, queue, manual, late>>

\* The commit writes the columns the session changed, and only these: `halted'
\* and `set_at' if the flag was down when it was read, `reason' if that was
\* empty or the watchdog's own and the new text differs.
WriteFlag ==
  LET b == job.bot
  IN  /\ wd = "write"
      /\ job.reason = "none" => reason[b] = "none"
      /\ wd' = "act" /\ job' = NoJob
      /\ \/ /\ job.reason \in Checks \cup {"none"}
            /\ reason' = [reason EXCEPT ![b] = job.check]
         \/ /\ job.reason \notin (Checks \ {job.check}) \cup {"none"}
            /\ UNCHANGED reason
      /\ IF job.halted
           THEN UNCHANGED <<halted, recent, calls>>
           ELSE /\ halted' = [halted EXCEPT ![b] = TRUE]
                /\ SetAtMoves(b)
      /\ UNCHANGED <<emergency, seen, worldVars, toCheck, failed, queue, manual, late>>

\* Someone else made the row the session is about to insert: the commit raises
\* an integrity error that nothing catches.
InsertFails ==
  /\ wd = "write"
  /\ job.reason = "none" /\ reason[job.bot] # "none"
  /\ Stop /\ calls' = [b \in Bots |-> 0]

\* The daemon sleeps for more than sixty seconds between two ticks.
EndTick ==
  /\ wd = "act" /\ queue = {}
  /\ wd' = "sleep" /\ failed' = {}
  /\ recent' = [b \in Bots |-> FALSE]
  /\ UNCHANGED <<halted, reason, emergency, seen, worldVars, toCheck, queue,
                 job, history>>

\* The daemon is killed and restarted.
WatchdogDies ==
  /\ wd # "sleep"
  /\ Stop /\ calls' = [b \in Bots |-> 0]

-----------------------------------------------------------------------------
BotNext == \E b \in Bots : \/ \E f \in Flags : TestFlag(b, f)
                           \/ EmergencyUnread(b) \/ PlaceOrder(b) \/ NoOrder(b)
People == \/ ToggleEmergency
          \/ \E b \in Bots : OperatorHalts(b) \/ Unhalt(b) \/ SetAtAges(b)
World == \E c \in Checks : ConditionChanges(c) \/ QueryChanges(c)

Tick == \/ StartTick \/ StartActing \/ EndTick
        \/ \E c \in Checks : RunCheck(c) \/ CheckRaises(c)
Halt == \/ \E c \in Checks, b \in Bots : Decide(c, b)
        \/ CancelAll \/ CancelSkipped
        \/ ReadFlag \/ WriteFlag \/ InsertFails

CalmNext == BotNext \/ People \/ World \/ Tick \/ Halt
Next == CalmNext \/ WatchdogDies
Spec == Init /\ [][Next]_vars

\* From some time on nobody kills the daemon, and what it starts goes on.
FairSpec ==
  Spec /\ WF_vars(Tick) /\ WF_vars(Halt) /\ <>[][CalmNext]_vars

-----------------------------------------------------------------------------
(* Properties.                                                             *)

\* Every variable keeps its type.
TypeOK ==
  /\ halted \in [Bots -> BOOLEAN] /\ recent \in [Bots -> BOOLEAN]
  /\ reason \in [Bots -> Reasons]
  /\ emergency \in BOOLEAN
  /\ seen \in [Bots -> SUBSET Reads]
  /\ bad \subseteq Checks /\ raises \subseteq Checks
  /\ wd \in {"sleep", "check", "act", "cancel", "read", "write"}
  /\ toCheck \subseteq Checks /\ failed \subseteq Checks
  /\ queue \subseteq failed \X Bots
  /\ job \in [check: Checks \cup {"none"}, bot: Bots \cup {"none"},
              skip: BOOLEAN, halted: BOOLEAN, reason: Reasons]
  /\ wd \in {"cancel", "read", "write"} => job.bot \in Bots /\ job.check \in Checks
  /\ manual \in 0 .. MaxManual
  /\ late \in [Bots -> [Flags -> 0 .. 2]]
  /\ calls \in [Bots -> 0 .. Cardinality(Checks) + 1]

\* While a flag is up, the bot's own or the repo-wide one, at most one order that
\* passed the test of it reaches the exchange: the one in hand when it rose,
\* however the other flag, the watchdog and the operator move between the two
\* tests and the order.  Not counted is an order whose read of the repo-wide
\* flag failed (is_emergency_halted lets it pass, try_enter and halt_reason).
OneOrderAfterHalt == \A b \in Bots, f \in Flags : late[b][f] =< 1

\* While a bot stays halted the watchdog does not hammer the exchange: at most
\* one cancel_all per check that halts the bot, since set_at last moved and the
\* daemon last died between two halts, however the ticks, the checks' exceptions,
\* the operator and the listener meet ("U-12": thousands of DELETE /cancel-all
\* calls for a bot halted for days).  A daemon that dies halfway through its
\* halts and is back within the minute does repeat those it had done.
FewCancels ==
  \A b \in Bots : calls[b] =< Cardinality({c \in Checks : b \in Scope[c]})

\* A condition that persists halts its bots, and again after every unhalt, as
\* long as the checks' queries recover: neither an exception that ends a tick
\* nor an unhalt between the watchdog's read and its write leaves a bot trading.
EveryKillHalts ==
  \A c \in Checks : \A b \in Scope[c] :
    <>[](c \in bad) /\ <>[](raises = {}) => <>[]halted[b]

\* A check that failed halts its bots ("Fails closed: any uncaught exception
\* halts and alerts rather than silently skipping the check").
FailsClosed ==
  \A c \in Checks : \A b \in Scope[c] : c \in failed ~> halted[b]
=============================================================================
