------------------------------- MODULE Ledger -------------------------------
(***************************************************************************)
(* The ledger (src/bot/ledger.rs): every attempt, what it was worth, and   *)
(* totals that keep expected money apart from realised money.  The fields  *)
(* of a trade that are only shown (time, slot, pair, route) are left out.  *)
(***************************************************************************)
EXTENDS Integers, Sequences

CONSTANT KEPT       \* length of the tape of trades (200 in the code)

ASSUME KeptAssumption == KEPT \in Nat \ {0}

VARIABLES
  trades,           \* the tape, newest first
  totals            \* running sums over every trade ever recorded

ledger == <<trades, totals>>

Booking == {"Expected", "Simulated", "Realised", "None"}

LedgerInit ==
  /\ trades = <<>>
  /\ totals = [attempts |-> 0, expected_lamports |-> 0, sent |-> 0,
               realised_lamports |-> 0, refused |-> 0, best_lamports |-> 0]

Larger(a, b) == IF a >= b THEN a ELSE b

\* Mutant: a sent trade is realised without having been expected.
totals_RealisedOnly(trade) ==
  LET net == trade.net_lamports
      b   == trade.booking
  IN [attempts          |-> totals.attempts + 1,
      expected_lamports |-> totals.expected_lamports
                              + (IF b \in {"Expected", "Simulated"} THEN net ELSE 0),
      sent              |-> totals.sent + (IF b = "Realised" THEN 1 ELSE 0),
      realised_lamports |-> totals.realised_lamports
                              + (IF b = "Realised" THEN net ELSE 0),
      refused           |-> totals.refused + (IF b = "None" THEN 1 ELSE 0),
      best_lamports     |-> Larger(totals.best_lamports, net)]

\* The totals after one more trade.  Only a sent trade is realised, and it
\* counts as expected too; a refused one is worth nothing.
totals_with(trade) ==
  LET net == trade.net_lamports
      b   == trade.booking
  IN [attempts          |-> totals.attempts + 1,
      expected_lamports |-> totals.expected_lamports + (IF b # "None" THEN net ELSE 0),
      sent              |-> totals.sent + (IF b = "Realised" THEN 1 ELSE 0),
      realised_lamports |-> totals.realised_lamports
                              + (IF b = "Realised" THEN net ELSE 0),
      refused           |-> totals.refused + (IF b = "None" THEN 1 ELSE 0),
      best_lamports     |-> Larger(totals.best_lamports, net)]

\* push_front, then truncate to KEPT.
tape_with(trade) ==
  LET longer == <<trade>> \o trades
  IN IF Len(longer) > KEPT THEN SubSeq(longer, 1, KEPT) ELSE longer

record(trade) ==
  /\ totals' = totals_with(trade)
  /\ trades' = tape_with(trade)
=============================================================================
