---------------------------- MODULE RaceSnapshot ----------------------------
(***************************************************************************)
(* What the terminal publishes about the race: Race::snapshot with the     *)
(* percentile ladder (src/race.rs).  Leads are whole ticks and a quantile  *)
(* is given in percent, so rounding to the nearest index is exact.         *)
(***************************************************************************)
EXTENDS Race, Sorting

LADDER == <<1, 5, 10, 25, 50, 75, 80, 90, 95, 99>>

\* Halves round away from zero, like f64::round.  Empty lists have none.
percentile(sorted, p) ==
  LET index == ((Len(sorted) - 1) * p * 2 + 100) \div 200
  IN sorted[IF index < Len(sorted) THEN index + 1 ELSE Len(sorted)]

ladder(sorted) ==
  IF sorted = <<>> THEN <<>>
  ELSE [i \in DOMAIN LADDER |-> percentile(sorted, LADDER[i])]

\* Mutant: the leads are listed in the order they were measured.
Shorter_Measured(own) == {p \in own \X own : p[1] < p[2]}

\* Which of two deltas comes first.  The sort is stable.
Shorter(own) ==
  {p \in own \X own :
     \/ deltas[p[1]].lead < deltas[p[2]].lead
     \/ deltas[p[1]].lead = deltas[p[2]].lead /\ p[1] < p[2]}

\* The leads of some deltas of the window, in order.
leads(own) ==
  LET order == InOrder(own, Shorter(own))
  IN [k \in 1 .. Cardinality(own) |-> deltas[order[k]].lead]

\* What is filtered out of a sorted list is what is sorted after filtering.
LaneStats(lane) ==
  LET own == {i \in DOMAIN deltas : deltas[i].lane = lane}
      led == {i \in own : deltas[i].lead > 0}
  IN [lane |-> lane, seen |-> seen[lane], matched |-> matched[lane],
      n_window |-> Cardinality(own), ahead |-> Cardinality(led),
      quantiles |-> ladder(leads(own)), led_quantiles |-> ladder(leads(led))]

snapshot ==
  [reference_seen |-> seen[Reference],
   awaiting_pair  |-> Cardinality(DOMAIN pending),
   lanes          |-> {LaneStats(l) : l \in {k \in Lanes \ {Reference} : seen[k] > 0}},
   recent         |-> [i \in DOMAIN recent |-> recent[Len(recent) + 1 - i]]]

-----------------------------------------------------------------------------

\* A published row never contradicts itself: the window holds no more than
\* was matched, the ladder climbs and stays within the leads measured, and
\* the ladder over the cases the reference won holds only wins, each of them
\* at least as good as the same rung over all cases.
SnapshotCoherent ==
  \A row \in snapshot.lanes :
    /\ row.n_window <= row.matched
    /\ (row.n_window = 0) = (row.quantiles = <<>>)
    /\ (row.ahead = 0) = (row.led_quantiles = <<>>)
    /\ \A q \in {row.quantiles, row.led_quantiles} :
         /\ \A i, j \in DOMAIN q : i <= j => q[i] <= q[j]
         /\ \A i \in DOMAIN q : \E k \in DOMAIN deltas :
              deltas[k].lane = row.lane /\ deltas[k].lead = q[i]
    /\ \A i \in DOMAIN row.led_quantiles :
         row.led_quantiles[i] > 0 /\ row.led_quantiles[i] >= row.quantiles[i]
=============================================================================
