---------------------------- MODULE FillJournal ----------------------------
(***************************************************************************)
(* What the live ledger promises about fills, without sessions, statuses   *)
(* or faults: trades appear on a tape, and now and then a batch of those   *)
(* ahead of a cursor is booked.  The batch, the position rows and the      *)
(* cursor change in one step; each BUY of the batch gets one row and keeps *)
(* it; nothing is ever booked twice or taken back.                         *)
(***************************************************************************)
EXTENDS Integers, Sequences

CONSTANT SideOf   \* [orders -> {"BUY", "SELL"}]

VARIABLES
  tape,     \* the wallet's trades: <<[order, size, ts], ...>>
  journal,  \* the trades booked
  home,     \* the pairs <<position row, BUY trade on it>>
  cursor    \* the time up to which trades have been looked at

vars == <<tape, journal, home, cursor>>

Ids == 1 .. Len(tape)

Init == tape = <<>> /\ journal = {} /\ home = {} /\ cursor = 0

Trade ==
  /\ Len(tape') = Len(tape) + 1
  /\ \A i \in Ids : tape'[i] = tape[i]
  /\ UNCHANGED <<journal, home, cursor>>

\* The rows of the batch: every old pair stays, a new one is a BUY of the batch.
Housed(batch) ==
  /\ home \subseteq home'
  /\ \A h \in home' \ home : h[2] \in batch /\ SideOf[tape[h[2]].order] = "BUY"
  /\ \A i \in batch : SideOf[tape[i].order] = "BUY" =>
       /\ \E h \in home' : h[2] = i
       /\ \A h, g \in home' : h[2] = i /\ g[2] = i => h = g

Book ==
  \E batch \in SUBSET {i \in Ids : tape[i].ts > cursor} :
    /\ journal' = journal \cup batch
    /\ Housed(batch)
    /\ cursor =< cursor' /\ \A i \in batch : tape[i].ts =< cursor'
    /\ UNCHANGED tape

Spec == Init /\ [][Trade \/ Book]_vars
=============================================================================
