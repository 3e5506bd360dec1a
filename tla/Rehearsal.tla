----------------------------- MODULE Rehearsal -----------------------------
(***************************************************************************)
(* The rehearsal (src/rehearse.rs): a session of invented prices, one step *)
(* a second, that shows what a live run would: the rows of the market, the *)
(* duels, the trades and a wallet that moves.  It owns its price book, so  *)
(* the book stands still while the rows are read.                          *)
(*                                                                         *)
(* The random walk of the prices is any choice of quotes, and a roll is a  *)
(* choice.  Counters that are only shown and only grow (packets,           *)
(* transactions, slots) are left out.  A step is one action per row, since *)
(* each row books a trade.                                                 *)
(***************************************************************************)
EXTENDS Market, Ledger

CONSTANTS
  RehearsalSize,    \* lamports of a trade (250,000,000 in the code)
  DuelsKept,        \* length of the tape of duels (250 in the code)
  MaxSteps          \* bound: steps of a rehearsal

ASSUME RehearsalAssumption ==
  RehearsalSize \in Nat /\ DuelsKept \in Nat /\ MaxSteps \in Nat

\* What the code's constants satisfy (a margin of 5, a fee of 5,000 lamports on
\* trades of 250,000,000, seven pairs): a gap that is taken leaves the slower
\* lane something to lose, one basis point carries the fee, and there is a row
\* for no more pairs than a step claims to have seen triggers.
CanRehearse ==
  /\ margin_bps > 1
  /\ RehearsalSize \div 10000 > network_fee_lamports
  /\ Cardinality(Pairs) <= 9

VARIABLES
  tick,             \* steps taken
  to_roll,          \* rows of the step in progress that are not rolled yet
  taken, spent,     \* trades taken, and what their fees came to
  wallet,           \* what was added to the balance it started with
  duels             \* the tape of duels, newest first

session_vars == <<tick, to_roll, taken, spent, wallet, duels>>

RehearsalInit ==
  /\ LedgerInit
  /\ tick = 0 /\ to_roll = <<>>
  /\ taken = 0 /\ spent = 0 /\ wallet = 0
  /\ duels = <<>>

\* Rehearsal::step, up to the rows: every pool gets a price, which the code
\* dates back by less than a second and so never far enough to be stale.
StepBegins(price) ==
  /\ tick < MaxSteps /\ to_roll = <<>>
  /\ tick' = tick + 1
  /\ prices' = [p \in Pools |-> [price |-> price[p], fee_rate |-> fee_rate[p], at |-> now]]
  /\ BeginReading
  /\ UNCHANGED <<ledger, to_roll, taken, spent, wallet, duels>>

took(r) == r.short_by_bps = 0

\* Mutant: what is short is taken for what is left over.
net_Shortfall(r) ==
  IF took(r) THEN saturating_sub((RehearsalSize \div 10000) * r.short_by_bps,
                                 network_fee_lamports)
             ELSE 0

\* What the step books for a row: the surplus over the fee floor on the size
\* of a trade, less the network fee.
net(r) ==
  IF took(r) THEN saturating_sub((RehearsalSize \div 10000)
                                   * saturating_sub(r.gap_bps, r.needs_bps),
                                 network_fee_lamports)
             ELSE 0

\* Mutant: the fee is taken out of the balance again.
Earned_FeeTwice(r) == IF took(r) THEN net(r) - network_fee_lamports ELSE 0

\* What a row adds to the wallet.
Earned(r) == net(r)

\* Mutant: the slower lane may lose more than there was.
lost_by_Plus(r) == IF took(r) THEN {2, 1 + Larger(r.gap_bps, 2)} ELSE {0}

\* What the slower lane is said to have lost: the ends of 1 .. max(gap, 2).
lost_by(r) == IF took(r) THEN {1, Larger(r.gap_bps, 2)} ELSE {0}

booking(r) == IF took(r) THEN "Realised" ELSE "None"

\* The step cuts the tape once, after its last row; nothing reads it before.
cut(tape) == IF Len(tape) > DuelsKept THEN SubSeq(tape, 1, DuelsKept) ELSE tape

\* A row that is a gap becomes an event.
RowRolled(lost) ==
  /\ to_roll # <<>> /\ Head(to_roll).priced /\ ~Head(to_roll).stale
  /\ LET r == Head(to_roll)
     IN /\ lost \in lost_by(r)
        /\ taken' = IF took(r) THEN taken + 1 ELSE taken
        /\ spent' = IF took(r) THEN spent + network_fee_lamports ELSE spent
        /\ wallet' = wallet + Earned(r)
        /\ record([net_lamports |-> net(r), booking |-> booking(r)])
        /\ duels' = cut(<<[gap_lost_bps |-> lost,
                           fast |-> [gap_bps |-> r.gap_bps, tradeable |-> took(r)],
                           slow |-> [gap_bps |-> saturating_sub(r.gap_bps, lost),
                                     tradeable |-> FALSE]]>> \o duels)
  /\ to_roll' = Tail(to_roll)
  /\ UNCHANGED <<prices, reading, rows, pool_rows, tick>>

\* Most rows become nothing.
RowSkipped ==
  /\ to_roll # <<>>
  /\ to_roll' = Tail(to_roll)
  /\ UNCHANGED <<prices, reading, rows, pool_rows, ledger, tick, taken, spent, wallet, duels>>

\* The triggers a step claims the faster lane has seen.
seen_fast == tick * 9

\* What the page is told of the faster lane's bot.
fast_bot == [seen |-> seen_fast, actionable |-> taken, below_cost |-> seen_fast - taken]

-----------------------------------------------------------------------------
(* Properties *)

\* The numbers on the rehearsal's screen agree with each other, trade after
\* trade: the balance has moved by what the ledger calls realised, what was
\* sent is what was taken, a fee was spent on each, and what one lane saw less
\* what it took, or less what the other lost, is never below zero, where the
\* code's unsigned numbers would wrap.
RehearsalAddsUp ==
  /\ wallet = totals.realised_lamports
  /\ totals.sent = taken
  /\ spent = taken * network_fee_lamports
  /\ fast_bot.below_cost >= 0
  /\ \A i \in DOMAIN duels : duels[i].fast.gap_bps = duels[i].slow.gap_bps + duels[i].gap_lost_bps

\* A trade the rehearsal takes is booked below what the same two prices would
\* earn the bot: as long as the gap is one the bot believes, nothing is booked
\* for a row that evaluate declines, and no more than evaluate says for one it
\* accepts.  The step has no such limit: a gap above IMPLAUSIBLE_BPS is taken
\* and booked although evaluate declines it both ways round.  A gap that is
\* taken and exceeds what it needs always earns something.
EarningsWithinTheTrade ==
  to_roll # <<>> =>
    LET r        == Head(to_roll)
        one      == r.best.a
        other    == r.best.b
        accepted == {v \in {evaluate(RehearsalSize, one, other, FALSE, now),
                             evaluate(RehearsalSize, other, one, FALSE, now)} : v.ok}
    IN r.priced /\ ~r.stale =>
         /\ net(r) > 0 => IF r.gap_bps <= IMPLAUSIBLE_BPS
                            THEN \E v \in accepted : net(r) <= v.net_lamports
                            ELSE accepted = {}
         /\ took(r) /\ r.gap_bps > r.needs_bps => net(r) > 0
=============================================================================
