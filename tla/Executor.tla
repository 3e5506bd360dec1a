------------------------------ MODULE Executor ------------------------------
(***************************************************************************)
(* The gate every attempt passes before money moves: BotLimits::check      *)
(* (src/bot/config.rs), Executor::attempt (src/bot/execute.rs), and the    *)
(* booking of the outcome in the ledger (src/main.rs, offer_trigger).      *)
(*                                                                         *)
(* There is one executor per lane, with its own counters, and one ledger.  *)
(* The main loop calls them from one task, so at most one attempt is in    *)
(* progress.  The kill file is another process's doing: it may appear or   *)
(* vanish at any moment, also while the broker is working on an attempt    *)
(* that was allowed.                                                       *)
(*                                                                         *)
(* The broker is a trait the terminal does not implement yet (it passes    *)
(* None); it is external here and may return any outcome that fits the     *)
(* mode it was called with, also that it skipped the attempt itself.       *)
(***************************************************************************)
EXTENDS Ledger, FiniteSets, Functions

CONSTANTS
  Lanes,              \* one executor each
  Modes,              \* the modes a session may be started in
  HasBroker,          \* whether attempt is given a broker
  per_attempt,        \* BotLimits.per_attempt_lamports
  session_cap,        \* BotLimits.session_cap_lamports
  max_wallet,         \* BotLimits.max_wallet_lamports
  U64Max,             \* the largest u64
  Nets,               \* values of an opportunity's net_lamports
  Balances,           \* values of the wallet's balance
  MaxOffers           \* bound: opportunities offered to one lane

ASSUME ExecutorAssumption ==
  /\ IsFiniteSet(Lanes) /\ "none" \notin Lanes
  /\ Modes \subseteq {"DryRun", "Simulate", "Live"}
  /\ HasBroker \in BOOLEAN
  /\ per_attempt \in Nat /\ session_cap \in Nat /\ max_wallet \in Nat
  /\ U64Max \in Nat /\ session_cap < U64Max
  /\ Nets \subseteq Nat /\ Balances \subseteq Nat
  /\ MaxOffers \in Nat

VARIABLES
  mode,         \* Mode, the same for every executor of a session
  kill_file,    \* whether the kill file exists
  stats,        \* ExecutionStats per lane
  in_broker,    \* the attempt the broker is working on, or NoAttempt
  afterKill,    \* history: sends since the kill file last appeared
  skipped       \* history: attempts the broker skipped, per lane and reason

vars == <<mode, kill_file, stats, in_broker, afterKill, skipped, ledger>>

NoAttempt == [lane |-> "none", net |-> 0]

Counters == {"offered", "refused", "refused_killed", "refused_cap",
             "refused_wallet", "attempted", "simulated_ok",
             "simulated_failed", "build_failed", "sent", "spent"}

\* The reasons a broker may skip an attempt for, apart from a failed build.
SkipReasons == {"dry_run", "limit"}

Init ==
  /\ mode \in Modes
  /\ kill_file \in BOOLEAN
  /\ stats = [l \in Lanes |-> [k \in Counters |-> 0]]
  /\ in_broker = NoAttempt
  /\ afterKill = 0
  /\ skipped = [l \in Lanes |-> [r \in SkipReasons |-> 0]]
  /\ LedgerInit

saturating_add(a, b) == IF a + b > U64Max THEN U64Max ELSE a + b

\* Mutant: the cap is compared with what was spent, not with what will be.
OverCapLate(spent) == spent > session_cap

OverCap(spent) == saturating_add(spent, per_attempt) > session_cap

\* Mutant: the kill file is not looked at.
check_IgnoresKill(spent, balance) ==
  IF balance > max_wallet THEN "WalletTooLarge"
  ELSE IF OverCap(spent) THEN "SessionCap"
  ELSE "Yes"

\* BotLimits::check: the first limit that refuses, in the order of the code.
check(spent, balance) ==
  IF kill_file THEN "Killed"
  ELSE IF balance > max_wallet THEN "WalletTooLarge"
  ELSE IF OverCap(spent) THEN "SessionCap"
  ELSE "Yes"

\* Mutant: a refusal by the wallet ceiling is put down to the cap as well.
RefusalCounters_Both(refusal) ==
  {"offered", "refused"} \cup
    (IF refusal = "Killed" THEN {"refused_killed"}
     ELSE IF refusal = "SessionCap" THEN {"refused_cap"}
     ELSE {"refused_cap", "refused_wallet"})

\* The counters a refusal adds one to.
RefusalCounters(refusal) ==
  {"offered", "refused",
   IF refusal = "Killed" THEN "refused_killed"
   ELSE IF refusal = "SessionCap" THEN "refused_cap"
   ELSE "refused_wallet"}

\* Mutant: a failed simulation is booked like one that worked.
booking_of_AnySimulation(outcome) ==
  IF outcome = "Sent" THEN "Realised"
  ELSE IF outcome \in {"SimulatedOk", "SimulatedFailed"} THEN "Simulated"
  ELSE IF outcome = "DryRun" THEN "Expected"
  ELSE "None"

booking_of(outcome) ==
  IF outcome = "Sent" THEN "Realised"
  ELSE IF outcome = "SimulatedOk" THEN "Simulated"
  ELSE IF outcome = "DryRun" THEN "Expected"
  ELSE "None"

\* What the loop writes in the ledger once an attempt has an outcome.
Book(lane, net, outcome) ==
  record([lane |-> lane, net_lamports |-> net, booking |-> booking_of(outcome)])

\* Add one to each of a set of a lane's counters.
Count(lane, counters) ==
  stats' = [stats EXCEPT ![lane] =
              [k \in Counters |-> IF k \in counters THEN @[k] + 1 ELSE @[k]]]

\* The conditions an offer meets before attempt looks at it.
Offered(lane) == in_broker = NoAttempt /\ stats[lane]["offered"] < MaxOffers

\* attempt, refused by a limit.
Refuse(lane, net, balance) ==
  LET verdict == check(stats[lane]["spent"], balance)
  IN /\ Offered(lane)
     /\ verdict # "Yes"
     /\ Count(lane, RefusalCounters(verdict))
     /\ Book(lane, net, verdict)
     /\ UNCHANGED <<mode, kill_file, in_broker, afterKill, skipped>>

\* Mutant: only the broker stands between an opportunity and the cluster.
ReachesBroker_AnyMode == HasBroker

ReachesBroker == HasBroker /\ mode # "DryRun"

\* attempt, allowed, with no broker or in a dry run.
SkipDryRun(lane, net, balance) ==
  /\ Offered(lane)
  /\ check(stats[lane]["spent"], balance) = "Yes"
  /\ ~ReachesBroker
  /\ Count(lane, {"offered"})
  /\ Book(lane, net, "DryRun")
  /\ UNCHANGED <<mode, kill_file, in_broker, afterKill, skipped>>

\* attempt, allowed: the broker is called ...
CallBroker(lane, net, balance) ==
  /\ Offered(lane)
  /\ check(stats[lane]["spent"], balance) = "Yes"
  /\ ReachesBroker
  /\ Count(lane, {"offered", "attempted"})
  /\ in_broker' = [lane |-> lane, net |-> net]
  /\ UNCHANGED <<mode, kill_file, afterKill, skipped, ledger>>

\* Outcome::Skipped, for any reason but a failed build.
Skips == {"DryRun", "Killed", "SessionCap", "WalletTooLarge"}

\* What a broker may answer.  Nothing keeps it from skipping an attempt that
\* the executor let through; only a live one sends.
BrokerOutcomes ==
  {"SimulatedOk", "SimulatedFailed", "BuildFailed"} \cup Skips
    \cup (IF mode = "Live" THEN {"Sent"} ELSE {})

\* The counter of an outcome, if it has one: a skip has none.
OutcomeCounters(outcome) ==
  IF outcome = "SimulatedOk" THEN {"simulated_ok"}
  ELSE IF outcome = "SimulatedFailed" THEN {"simulated_failed"}
  ELSE IF outcome = "BuildFailed" THEN {"build_failed"}
  ELSE IF outcome = "Sent" THEN {"sent"}
  ELSE {}

\* What an outcome adds to a counter: only a real send commits money.
Settle(outcome, k) ==
  IF k \in OutcomeCounters(outcome) THEN 1
  ELSE IF k = "spent" /\ outcome = "Sent" THEN per_attempt
  ELSE 0

\* ... and returns.
BrokerReturns(outcome) ==
  LET lane   == in_broker.lane
      reason == IF outcome = "DryRun" THEN "dry_run" ELSE "limit"
  IN /\ in_broker # NoAttempt
     /\ stats' = [stats EXCEPT ![lane] = [k \in Counters |-> @[k] + Settle(outcome, k)]]
     /\ Book(lane, in_broker.net, outcome)
     /\ in_broker' = NoAttempt
     /\ afterKill' = IF outcome = "Sent" /\ kill_file THEN afterKill + 1 ELSE afterKill
     /\ skipped' = IF outcome \in Skips THEN [skipped EXCEPT ![lane][reason] = @ + 1]
                                       ELSE skipped
     /\ UNCHANGED <<mode, kill_file>>

\* The operator creates or removes the kill file.
TouchKillFile ==
  /\ ~kill_file
  /\ kill_file' = TRUE
  /\ afterKill' = 0
  /\ UNCHANGED <<mode, stats, in_broker, skipped, ledger>>

RemoveKillFile ==
  /\ kill_file
  /\ kill_file' = FALSE
  /\ UNCHANGED <<mode, stats, in_broker, afterKill, skipped, ledger>>

Next ==
  \/ \E l \in Lanes, net \in Nets, balance \in Balances :
       \/ Refuse(l, net, balance)
       \/ SkipDryRun(l, net, balance)
       \/ CallBroker(l, net, balance)
  \/ \E outcome \in BrokerOutcomes : BrokerReturns(outcome)
  \/ TouchKillFile
  \/ RemoveKillFile

Spec == Init /\ [][Next]_vars

-----------------------------------------------------------------------------
(* Properties *)

\* Every variable holds a value of its type.
TypeOK ==
  /\ mode \in Modes
  /\ kill_file \in BOOLEAN
  /\ stats \in [Lanes -> [Counters -> Nat]]
  /\ in_broker \in [lane : Lanes, net : Nets] \cup {NoAttempt}
  /\ afterKill \in Nat
  /\ skipped \in [Lanes -> [SkipReasons -> Nat]]
  /\ totals \in [attempts : Nat, expected_lamports : Nat, sent : Nat,
                 realised_lamports : Nat, refused : Nat, best_lamports : Nat]
  /\ trades \in Seq([lane : Lanes, net_lamports : Nets, booking : Booking])
  /\ Len(trades) <= KEPT

\* Each lane's committed money is what it sent, and never exceeds its session
\* cap, not even by the attempt the broker is working on.
SpentWithinCap ==
  \A l \in Lanes :
    /\ stats[l]["spent"] = stats[l]["sent"] * per_attempt
    /\ stats[l]["spent"] <= session_cap
    /\ in_broker # NoAttempt /\ in_broker.lane = l =>
         stats[l]["spent"] + per_attempt <= session_cap

\* No attempt is lost or counted twice: a refusal has exactly one reason, and
\* an attempt that reached the broker is under one outcome, or still there, or
\* was skipped by the broker, which attempt counts nowhere: the outcomes then
\* fall short of the attempts by exactly the broker's own skips.
CountersAddUp ==
  \A l \in Lanes :
    LET s == stats[l]
        open == IF in_broker # NoAttempt /\ in_broker.lane = l THEN 1 ELSE 0
    IN /\ s["refused"] = s["refused_killed"] + s["refused_cap"] + s["refused_wallet"]
       /\ s["attempted"] = s["simulated_ok"] + s["simulated_failed"]
                             + s["build_failed"] + s["sent"] + open
                             + skipped[l]["dry_run"] + skipped[l]["limit"]
       /\ s["offered"] >= s["refused"] + s["attempted"]

\* The money on the screen agrees with the counters beside it: the ledger has
\* one trade for every attempt the executors finished, and its sends are their
\* sends.  Its refusals are their refusals and failures, and beyond those only
\* the attempts a broker skipped for a limit, which no executor counts.
LedgerAgrees ==
  LET Sum(f, k) == SumFunction([l \in Lanes |-> f[l][k]])
      open      == IF in_broker = NoAttempt THEN 0 ELSE 1
  IN /\ totals.attempts + open = Sum(stats, "offered")
     /\ totals.sent = Sum(stats, "sent")
     /\ totals.refused = Sum(stats, "refused") + Sum(stats, "build_failed")
                           + Sum(stats, "simulated_failed") + Sum(skipped, "limit")

\* Money is realised only by trades that were sent, and was expected first.
\* As long as the tape holds every trade, the totals are its sums.
TotalsMatchTape ==
  LET Of(i, bookings) == IF trades[i].booking \in bookings
                           THEN trades[i].net_lamports ELSE 0
      SumOf(bookings) == SumFunction([i \in DOMAIN trades |-> Of(i, bookings)])
  IN /\ totals.realised_lamports <= totals.expected_lamports
     /\ totals.attempts <= KEPT => Len(trades) = totals.attempts
     /\ totals.attempts > KEPT => Len(trades) = KEPT
     /\ Len(trades) = totals.attempts =>
          /\ totals.realised_lamports = SumOf({"Realised"})
          /\ totals.expected_lamports = SumOf(Booking \ {"None"})
     /\ \A i \in DOMAIN trades : trades[i].net_lamports <= totals.best_lamports

\* A dry run sends nothing, commits nothing and earns nothing, whatever broker
\* it has been given.
DryRunSendsNothing ==
  mode = "DryRun" =>
    /\ totals.realised_lamports = 0 /\ totals.sent = 0
    /\ \A l \in Lanes : stats[l]["attempted"] = 0 /\ stats[l]["spent"] = 0

\* Once the kill file appears, at most the one attempt that was already past
\* the check is sent, over all lanes together, until the file is removed.
AtMostOneSendAfterKill == kill_file => afterKill <= 1
=============================================================================
