---------------------------- MODULE TokenBucket ----------------------------
(***************************************************************************)
(* TokenBucket of core/clob.py, which both CLOB wrappers ask before every  *)
(* request: threads share a count of tokens behind a lock, and one that    *)
(* finds too few leaves the lock, sleeps and tries again until it would    *)
(* miss its deadline.                                                      *)
(*                                                                         *)
(* A token is Cost units of the clock, so the refill is one unit per tick  *)
(* and Capacity is the bucket's size in units.  Times are relative to now: *)
(* `since' is monotonic() - last_refill, stopped at Capacity because the   *)
(* refill is, `left' is deadline - monotonic(), stopped at 0 because every *)
(* wait is longer.  acquire is called with its defaults: n = 1, blocking.  *)
(***************************************************************************)
EXTENDS Integers

CONSTANTS
  Threads,
  Capacity,  \* capacity, in units
  Cost,      \* units of one token
  Timeout,   \* timeout, in ticks
  Nap        \* the longest sleep (0.25 s), in ticks

ASSUME BucketAssumption ==
  /\ Cost \in Nat \ {0} /\ Capacity \in Nat /\ Cost =< Capacity
  /\ Timeout \in Nat /\ Nap \in Nat \ {0}

VARIABLES
  tokens,  \* self.tokens, in units
  since,   \* time since self.last_refill
  pc,      \* [Threads -> {"idle", "try", "decide", "sleep"}]
  left,    \* [Threads -> time to the deadline]
  wait,    \* [Threads -> wait_seconds of the last try]
  nap      \* [Threads -> what remains of the sleep]

vars == <<tokens, since, pc, left, wait, nap>>

AtMost(x, bound)  == IF x =< bound THEN x ELSE bound
MinusOne(x) == IF x > 0 THEN x - 1 ELSE 0

Init ==
  /\ tokens = Capacity /\ since = 0
  /\ pc = [t \in Threads |-> "idle"]
  /\ left = [t \in Threads |-> 0]
  /\ wait = [t \in Threads |-> 0]
  /\ nap = [t \in Threads |-> 0]

-----------------------------------------------------------------------------
Tick ==
  /\ since' = AtMost(since + 1, Capacity)
  /\ left' = [t \in Threads |-> MinusOne(left[t])]
  /\ nap' = [t \in Threads |-> MinusOne(nap[t])]
  /\ UNCHANGED <<tokens, pc, wait>>

\* A request of the wrapper: get_book, place_limit, cancel_order...
Call(t) ==
  /\ pc[t] = "idle"
  /\ pc' = [pc EXCEPT ![t] = "try"]
  /\ left' = [left EXCEPT ![t] = Timeout]
  /\ UNCHANGED <<tokens, since, wait, nap>>

\* acquire returns and its locals go.
Return(t) ==
  /\ pc' = [pc EXCEPT ![t] = "idle"]
  /\ left' = [left EXCEPT ![t] = 0]
  /\ wait' = [wait EXCEPT ![t] = 0]
  /\ nap' = [nap EXCEPT ![t] = 0]

Trying(t) == pc[t] = "try" \/ (pc[t] = "sleep" /\ nap[t] = 0)

\* Mutant: the refill is not stopped at the capacity.
RefilledOver == tokens + since
\* What the refill at the top of the locked region makes of the tokens.
Refilled == AtMost(tokens + since, Capacity)

\* Mutant: the refill is added but last_refill keeps its value.
TakeAgain(t) ==
  /\ Trying(t) /\ Refilled >= Cost
  /\ tokens' = Refilled - Cost
  /\ Return(t)
  /\ UNCHANGED since

\* The locked region, with enough tokens: acquire returns True.
Take(t) ==
  /\ Trying(t) /\ Refilled >= Cost
  /\ tokens' = Refilled - Cost /\ since' = 0
  /\ Return(t)

\* The locked region, with too few: the wait is computed inside it and acted
\* upon outside.
ComeShort(t) ==
  /\ Trying(t) /\ Refilled < Cost
  /\ tokens' = Refilled /\ since' = 0
  /\ wait' = [wait EXCEPT ![t] = Cost - Refilled]
  /\ pc' = [pc EXCEPT ![t] = "decide"]
  /\ UNCHANGED <<left, nap>>

\* The deadline cannot be met: acquire returns False, and its callers do not
\* look at the answer.
GiveUp(t) ==
  /\ pc[t] = "decide" /\ wait[t] > left[t]
  /\ Return(t)
  /\ UNCHANGED <<tokens, since>>

\* Mutant: the deadline is taken anew in every round.
SleepRenewed(t) ==
  /\ pc[t] = "decide" /\ wait[t] =< left[t]
  /\ pc' = [pc EXCEPT ![t] = "sleep"]
  /\ nap' = [nap EXCEPT ![t] = AtMost(wait[t], Nap)]
  /\ wait' = [wait EXCEPT ![t] = 0]
  /\ left' = [left EXCEPT ![t] = Timeout]
  /\ UNCHANGED <<tokens, since>>

\* time.sleep, which may take longer than asked for.
Sleep(t) ==
  /\ pc[t] = "decide" /\ wait[t] =< left[t]
  /\ pc' = [pc EXCEPT ![t] = "sleep"]
  /\ nap' = [nap EXCEPT ![t] = AtMost(wait[t], Nap)]
  /\ wait' = [wait EXCEPT ![t] = 0]
  /\ UNCHANGED <<tokens, since, left>>

Acquire(t) == Take(t) \/ ComeShort(t) \/ GiveUp(t) \/ Sleep(t)

Next == Tick \/ \E t \in Threads : Call(t) \/ Acquire(t)
Spec == Init /\ [][Next]_vars

\* Time passes and every running thread gets its turn at the lock.
FairSpec ==
  Spec /\ WF_vars(Tick) /\ \A t \in Threads : WF_vars(Acquire(t))

-----------------------------------------------------------------------------
(* Properties.                                                             *)

\* Every variable keeps its type; the bucket is never over full nor in debt.
TypeOK ==
  /\ tokens \in 0 .. Capacity
  /\ since \in 0 .. Capacity
  /\ pc \in [Threads -> {"idle", "try", "decide", "sleep"}]
  /\ left \in [Threads -> 0 .. Timeout]
  /\ wait \in [Threads -> 0 .. Cost]
  /\ nap \in [Threads -> 0 .. Nap]

\* The grants of acquire, to whichever thread and after whatever sleeps, keep to
\* the meter: the burst plus the refill bounds them in every window, although
\* the wait is worked out under one hold of the lock and used under another.
Meter == INSTANCE RateMeter WITH level <- Capacity - Refilled
GrantsKeepToMeter == Meter!Spec

\* Every acquire returns: a thread that others keep overtaking at the lock runs
\* into its deadline, so a request is never held up for good
\* (acquire's deadline test).
AcquireReturns == \A t \in Threads : (pc[t] # "idle") ~> (pc[t] = "idle")
=============================================================================
