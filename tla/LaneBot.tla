------------------------------ MODULE LaneBot ------------------------------
(***************************************************************************)
(* One lane's bot (src/bot/lane.rs): a trigger arrives, the bot reads the  *)
(* shared price book and judges every sibling of the pool that moved.      *)
(*                                                                         *)
(* The bots run in the main loop, one trigger at a time.  The price book   *)
(* belongs to another task: each get takes the lock on its own, so a price *)
(* may be set, or the book cleared, between two reads of one judgement.    *)
(* on_trigger is therefore three actions: up to the read of the pool that  *)
(* moved, one step per sibling, and the verdict.  Its `now` is taken once, *)
(* before the first read.                                                  *)
(***************************************************************************)
EXTENDS Arb, PriceBook, FiniteSets

CONSTANTS
  Lanes,           \* one bot each
  size_lamports    \* the size of a trade

ASSUME LaneBotAssumption == size_lamports \in Nat \ {0} /\ "none" \notin Lanes

VARIABLES
  acted,        \* triggers a lane has judged
  lane_stats,   \* LaneStats per lane
  judging       \* the judgement in progress, or Idle

Idle  == [lane |-> "none"]

NoStats ==
  [seen |-> 0, actionable |-> 0, duplicates |-> 0, no_price |-> 0, implausible |-> 0,
   below_cost |-> 0, best_gap_bps |-> 0, best_net_bps |-> 0,
   declined |-> [why \in Declines |-> 0]]

LaneBotInit ==
  /\ now = 0
  /\ prices = EmptyBook
  /\ acted = [l \in Lanes |-> {}]
  /\ lane_stats = [l \in Lanes |-> NoStats]
  /\ judging = Idle

Bump(lane, counter) == [lane_stats EXCEPT ![lane][counter] = @ + 1]

\* on_trigger drops a trigger this lane has judged before.
Duplicate(e) ==
  /\ <<e.sig, e.pool>> \in acted[e.lane]
  /\ lane_stats' = Bump(e.lane, "duplicates")
  /\ UNCHANGED <<acted, judging>>

\* on_trigger, with no price for the pool that moved.
NoPrice(e) ==
  /\ <<e.sig, e.pool>> \notin acted[e.lane]
  /\ e.pool \notin DOMAIN prices
  /\ acted' = [acted EXCEPT ![e.lane] = @ \cup {<<e.sig, e.pool>>}]
  /\ lane_stats' = [lane_stats EXCEPT ![e.lane].seen = @ + 1,
                                      ![e.lane].no_price = @ + 1]
  /\ UNCHANGED judging

\* on_trigger, up to the read of the pool that moved.  `read` remembers the
\* siblings compared, for the properties.
Begin(e) ==
  /\ <<e.sig, e.pool>> \notin acted[e.lane]
  /\ e.pool \in DOMAIN prices
  /\ acted' = [acted EXCEPT ![e.lane] = @ \cup {<<e.sig, e.pool>>}]
  /\ lane_stats' = Bump(e.lane, "seen")
  /\ judging' = [lane |-> e.lane, sig |-> e.sig, pool |-> e.pool, at |-> e.at,
                 now |-> now, moved |-> prices[e.pool],
                 left |-> siblings(e.pool), compared |-> 0,
                 best |-> [ok |-> FALSE], widest |-> 0, route |-> 0,
                 read |-> [p \in {} |-> 0]]

\* The next sibling, in the order of the pool book.
NextSibling == CHOOSE p \in judging.left : \A q \in judging.left : p <= q

\* A sibling with no price, or one too old, is passed over.
PassOver ==
  /\ judging # Idle /\ judging.left # {}
  /\ LET p == NextSibling
     IN /\ p \in DOMAIN prices => ~fresh_enough(judging.moved, prices[p], judging.now)
        /\ judging' = [judging EXCEPT !.left = @ \ {p}]
  /\ UNCHANGED <<acted, lane_stats>>

AtLeast(a, b) == IF a >= b THEN a ELSE b

\* What comparing two pools adds to a lane's statistics.
ComparedStats(s, other, gap, verdicts) ==
  LET plausible == gap <= IMPLAUSIBLE_BPS
      net       == saturating_sub(gap, fee_bps(judging.moved) + fee_bps(other))
      refusals(why) == Cardinality({i \in DOMAIN verdicts :
                                      ~verdicts[i].ok /\ verdicts[i].why = why})
  IN [s EXCEPT
        !.best_gap_bps = IF plausible THEN AtLeast(@, gap) ELSE @,
        !.best_net_bps = IF plausible THEN AtLeast(@, net) ELSE @,
        !.implausible  = IF plausible THEN @ ELSE @ + 1,
        !.declined     = [why \in Declines |->
                            IF why = "WrongWayRound" THEN @[why]
                                                     ELSE @[why] + refusals(why)]]

\* Mutant: the gap kept beside the best trade is the widest seen so far.
Better_WidestGap(best, verdict, sibling, gap) ==
  IF verdict.ok /\ (best.ok => verdict.net_lamports > best.net_lamports)
    THEN [ok |-> TRUE, net_lamports |-> verdict.net_lamports,
          gap |-> AtLeast(gap, judging.widest), with |-> sibling]
    ELSE best

\* The better of the best trade so far and a verdict.
Better(best, verdict, sibling, gap) ==
  IF verdict.ok /\ (best.ok => verdict.net_lamports > best.net_lamports)
    THEN [ok |-> TRUE, net_lamports |-> verdict.net_lamports, gap |-> gap,
          with |-> sibling]
    ELSE best

\* Compare the pool that moved with a sibling, both ways round.
Compare ==
  /\ judging # Idle /\ judging.left # {}
  /\ NextSibling \in DOMAIN prices
  /\ LET p        == NextSibling
         other    == prices[p]
         moved    == judging.moved
         gap      == gap_bps(moved, other)
         verdicts == <<evaluate(size_lamports, moved, other, FALSE, judging.now),
                       evaluate(size_lamports, other, moved, FALSE, judging.now)>>
         wider    == gap > judging.widest /\ gap <= IMPLAUSIBLE_BPS
     IN /\ fresh_enough(moved, other, judging.now)
        /\ lane_stats' = [lane_stats EXCEPT
                            ![judging.lane] = ComparedStats(@, other, gap, verdicts)]
        /\ judging' = [judging EXCEPT
                         !.left     = @ \ {p},
                         !.compared = @ + 1,
                         !.widest   = IF wider THEN gap ELSE @,
                         !.route    = IF wider THEN p ELSE @,
                         !.best     = Better(Better(@, verdicts[1], p, gap),
                                             verdicts[2], p, gap),
                         !.read     = [q \in DOMAIN @ \cup {p} |->
                                         IF q = p THEN other ELSE @[q]]]
  /\ UNCHANGED acted

\* Mutant: where there is no trade, the widest gap of the session is reported.
Found_SessionBest ==
  [pool |-> judging.pool, sig |-> judging.sig, decided_at |-> judging.at,
   looked_at |-> judging.now, tradeable |-> judging.best.ok,
   net_lamports |-> IF judging.best.ok THEN judging.best.net_lamports ELSE 0,
   gap_bps |-> IF judging.best.ok THEN judging.best.gap
                                  ELSE lane_stats[judging.lane].best_gap_bps]

\* What on_trigger returns: the trade with its own gap, or the widest gap.
Found ==
  [pool |-> judging.pool, sig |-> judging.sig, decided_at |-> judging.at,
   looked_at |-> judging.now, tradeable |-> judging.best.ok,
   net_lamports |-> IF judging.best.ok THEN judging.best.net_lamports ELSE 0,
   gap_bps |-> IF judging.best.ok THEN judging.best.gap ELSE judging.widest]

Judged == judging # Idle /\ judging.left = {}

\* Mutant: a trigger with nothing to compare is not counted.
ReturnNone_Silent ==
  /\ Judged /\ judging.compared = 0
  /\ judging' = Idle
  /\ UNCHANGED <<acted, lane_stats>>

\* on_trigger returns None: nothing could be compared.
ReturnNone ==
  /\ Judged /\ judging.compared = 0
  /\ lane_stats' = Bump(judging.lane, "no_price")
  /\ judging' = Idle
  /\ UNCHANGED acted

\* on_trigger returns Some(Found).
ReturnFound ==
  /\ Judged /\ judging.compared > 0
  /\ lane_stats' = Bump(judging.lane, IF judging.best.ok THEN "actionable" ELSE "below_cost")
  /\ judging' = Idle
  /\ UNCHANGED acted

-----------------------------------------------------------------------------
(* Properties *)

\* Every trigger a lane has seen has exactly one verdict, or is being judged,
\* and a trigger is judged once: on_trigger's early returns lose none.
VerdictsAddUp ==
  \A l \in Lanes :
    LET s == lane_stats[l]
    IN /\ s.seen = Cardinality(acted[l])
       /\ s.seen = s.no_price + s.below_cost + s.actionable
                     + (IF judging.lane = l THEN 1 ELSE 0)

\* What is about to be reported is what a reader of the same prices would
\* work out: the most profitable of the trades open among the pools compared,
\* with the gap of those two pools, or else the widest plausible gap.
FoundIsBest ==
  Judged /\ judging.compared > 0 =>
    LET compared == DOMAIN judging.read
        gap(p)   == gap_bps(judging.moved, judging.read[p])
        trades_with(p) ==
          {v \in {evaluate(size_lamports, judging.moved, judging.read[p], FALSE, judging.now),
                  evaluate(size_lamports, judging.read[p], judging.moved, FALSE, judging.now)} :
             v.ok}
        plausible == {gap(p) : p \in {q \in compared : gap(q) <= IMPLAUSIBLE_BPS}}
    IN IF \A p \in compared : trades_with(p) = {}
         THEN /\ ~Found.tradeable
              /\ \A g \in plausible : g <= Found.gap_bps
              /\ Found.gap_bps \in plausible \cup {0}
         ELSE /\ Found.tradeable
              /\ \A p \in compared : \A v \in trades_with(p) :
                   v.net_lamports <= Found.net_lamports
              /\ \E p \in compared : \E v \in trades_with(p) :
                   /\ v.net_lamports = Found.net_lamports
                   /\ gap(p) = Found.gap_bps
=============================================================================
