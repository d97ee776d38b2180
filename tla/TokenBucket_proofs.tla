------------------------ MODULE TokenBucket_proofs ------------------------
(* Type correctness of TokenBucket, and that it implements RateMeter.      *)
EXTENDS TokenBucket, TLAPS

\* Refilled is the bucket's fill, between empty and full.
LEMMA RefilledRange ==
  ASSUME TypeOK
  PROVE  Refilled \in 0 .. Capacity
BY BucketAssumption DEF TypeOK, Refilled, AtMost

\* The initial state is well typed.
LEMMA InitTypeOK == Init => TypeOK
BY BucketAssumption DEF Init, TypeOK

\* Every step keeps the types.
LEMMA NextTypeOK == TypeOK /\ [Next]_vars => TypeOK'
<1> SUFFICES ASSUME TypeOK, [Next]_vars PROVE TypeOK'
  OBVIOUS
<1> USE BucketAssumption
<1>1. CASE Tick
  BY <1>1 DEF TypeOK, Tick, AtMost, MinusOne
<1>2. ASSUME NEW t \in Threads, Call(t) PROVE TypeOK'
  BY <1>2 DEF TypeOK, Call
<1>3. ASSUME NEW t \in Threads, Take(t) PROVE TypeOK'
  <2>1. tokens' \in 0 .. Capacity /\ since' \in 0 .. Capacity
    BY <1>3, RefilledRange DEF Take
  <2> QED
    BY <1>3, <2>1 DEF TypeOK, Take, Return
<1>4. ASSUME NEW t \in Threads, ComeShort(t) PROVE TypeOK'
  <2>1. Cost - Refilled \in 0 .. Cost
    BY <1>4, RefilledRange DEF ComeShort
  <2>2. tokens' \in 0 .. Capacity /\ since' \in 0 .. Capacity
    BY <1>4, RefilledRange DEF ComeShort
  <2> QED
    BY <1>4, <2>1, <2>2 DEF TypeOK, ComeShort
<1>5. ASSUME NEW t \in Threads, GiveUp(t) PROVE TypeOK'
  BY <1>5 DEF TypeOK, GiveUp, Return
<1>6. ASSUME NEW t \in Threads, Sleep(t) PROVE TypeOK'
  <2>1. AtMost(wait[t], Nap) \in 0 .. Nap
    BY DEF TypeOK, AtMost
  <2> QED
    BY <1>6, <2>1 DEF TypeOK, Sleep
<1>7. CASE UNCHANGED vars
  BY <1>7 DEF TypeOK, vars
<1> QED
  BY <1>1, <1>2, <1>3, <1>4, <1>5, <1>6, <1>7 DEF Next, Acquire

\* In every reachable state the bucket is neither over full nor in debt and
\* every thread's times are in range, however many threads share it.
THEOREM BucketTypes == Spec => []TypeOK
BY InitTypeOK, NextTypeOK, PTL DEF Spec

\* A grant raises the meter by the cost of one token and nothing else raises it;
\* a tick lowers it by one until it is at zero.
LEMMA StepKeepsToMeter ==
  ASSUME TypeOK, [Next]_vars
  PROVE  [Meter!Drain \/ Meter!Grant]_(Capacity - Refilled)
<1> USE BucketAssumption
<1>1. CASE Tick
  <2>1. Refilled' \in {Refilled, Refilled + 1}
    BY <1>1 DEF TypeOK, Tick, Refilled, AtMost
  <2>2. CASE Refilled' = Refilled
    BY <2>2
  <2>3. CASE Refilled' = Refilled + 1
    <3>1. Refilled' \in 0 .. Capacity
      BY <1>1, <2>3, RefilledRange DEF Tick, TypeOK, Refilled, AtMost
    <3> QED
      BY <2>3, <3>1, RefilledRange DEF Meter!Drain
  <2> QED
    BY <2>1, <2>2, <2>3
<1>2. ASSUME NEW t \in Threads, Take(t)
      PROVE  Meter!Grant
  <2>1. Refilled' = Refilled - Cost
    BY <1>2, RefilledRange DEF Take, Refilled, AtMost
  <2> QED
    BY <1>2, <2>1, RefilledRange DEF Take, Meter!Grant
<1>3. ASSUME NEW t \in Threads, ComeShort(t)
      PROVE  Refilled' = Refilled
  BY <1>3, RefilledRange DEF ComeShort, Refilled, AtMost
<1>4. ASSUME UNCHANGED <<tokens, since>>
      PROVE  Refilled' = Refilled
  BY <1>4 DEF Refilled
<1>5. ASSUME NEW t \in Threads, Call(t) \/ GiveUp(t) \/ Sleep(t)
      PROVE  UNCHANGED <<tokens, since>>
  BY <1>5 DEF Call, GiveUp, Sleep
<1>6. CASE UNCHANGED vars
  BY <1>4, <1>6 DEF vars
<1> QED
  BY <1>1, <1>2, <1>3, <1>4, <1>5, <1>6 DEF Next, Acquire

\* TokenBucket implements RateMeter under the mapping that reads the meter off
\* the missing tokens: for any number of threads, any capacity and any timeout,
\* the grants of every window are bounded by the burst and the refill.
THEOREM BucketImplementsMeter == Spec => GrantsKeepToMeter
<1>1. Init => Meter!Init
  BY BucketAssumption DEF Init, Meter!Init, Refilled, AtMost
<1>2. TypeOK /\ [Next]_vars => [Meter!Drain \/ Meter!Grant]_(Capacity - Refilled)
  BY StepKeepsToMeter
<1> QED
  BY <1>1, <1>2, BucketTypes, PTL DEF Spec, GrantsKeepToMeter, Meter!Spec
=============================================================================
