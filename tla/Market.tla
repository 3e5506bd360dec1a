------------------------------- MODULE Market -------------------------------
(***************************************************************************)
(* The rows of the screen (src/bot/market.rs): the ticker's branch of the  *)
(* main loop works out, for every pair, the widest gap between two of its  *)
(* pools and what that gap has to beat, and then lists every pool.         *)
(*                                                                         *)
(* Nothing holds the book still meanwhile: each pool is looked up several  *)
(* times, once to count it, once for every other pool of its pair and once *)
(* for its own row, and the feed may set a price, or lose them all, before *)
(* any of these.  A get is therefore a step.                               *)
(*                                                                         *)
(* Time is counted in parts of a millisecond, since the rows show whole    *)
(* milliseconds and the bot compares exact durations.  The order of the    *)
(* pool rows is layout and left out.                                       *)
(***************************************************************************)
EXTENDS Arb, PriceBook, Sorting

CONSTANTS
  Milli,        \* instants per millisecond
  U64Max        \* u64::MAX

ASSUME MarketAssumption ==
  /\ Milli \in Nat \ {0}
  /\ max_price_age % Milli = 0
  /\ U64Max \in Nat \ {0}

VARIABLES
  reading,      \* the reading in progress, or NotReading
  rows,         \* what market::snapshot returned last
  pool_rows     \* what market::pool_rows returned last: pool -> entry

Missing    == [price |-> 0]
NotReading == [stage |-> "none"]
as_millis(t) == t \div Milli

\* PoolBook::pairs
Pairs == {PoolBook[p] : p \in Pools}

\* The pairs of pools of one pair, each once.
Routes == {r \in Pools \X Pools : r[1] < r[2] /\ PoolBook[r[1]] = PoolBook[r[2]]}

\* The lookups, and what each is for: to count a pool (0), for the first pool
\* of a route (1), for the second (2), for the row of a pool (3).
Count(p) == [pair |-> PoolBook[p], one |-> 0, other |-> p, side |-> 0]
One(r)   == [pair |-> PoolBook[r[1]], one |-> r[1], other |-> r[2], side |-> 1]
Other(r) == [pair |-> PoolBook[r[1]], one |-> r[1], other |-> r[2], side |-> 2]
Row(p)   == [pair |-> 0, one |-> 0, other |-> p, side |-> 3]

snapshot_gets == {Count(p) : p \in Pools} \cup {One(r) : r \in Routes}
                   \cup {Other(r) : r \in Routes}
pool_gets     == {Row(p) : p \in Pools}

\* The order they are made in: pair by pair, every pool of a pair before its
\* routes, and both pools of a route one after the other.
Sooner(g, h) ==
  \/ g.pair < h.pair
  \/ g.pair = h.pair /\ g.one < h.one
  \/ g.pair = h.pair /\ g.one = h.one /\ g.other < h.other
  \/ g.pair = h.pair /\ g.one = h.one /\ g.other = h.other /\ g.side < h.side

first(todo) == CHOOSE g \in todo : \A h \in todo : h = g \/ Sooner(g, h)

\* The pool that is looked up.
pool(g) == IF g.side = 1 THEN g.one ELSE g.other

\* A reading that starts at t.
Reading(t) ==
  [stage |-> "snapshot", now |-> t, todo |-> snapshot_gets, one |-> Missing,
   reporting |-> [pair \in Pairs |-> 0],
   best |-> [pair \in Pairs |-> Missing],
   listed |-> EmptyBook]

older(a, b) == IF a.at <= b.at THEN a.at ELSE b.at

\* Mutant: the younger of the two prices counts.
Route_Freshest(route, a, b, t) ==
  [price |-> 1, gap_bps |-> gap_bps(a, b), route |-> route, a |-> a, b |-> b,
   needs_bps |-> fee_bps(a) + fee_bps(b) + margin_bps,
   age_ms |-> as_millis(saturating_sub(t, IF a.at <= b.at THEN b.at ELSE a.at))]

\* What a route has to show.  The two prices are kept for the properties.
Route(route, a, b, t) ==
  [price |-> 1, gap_bps |-> gap_bps(a, b), route |-> route, a |-> a, b |-> b,
   needs_bps |-> fee_bps(a) + fee_bps(b) + margin_bps,
   age_ms |-> as_millis(saturating_sub(t, older(a, b)))]

\* The route kept is the first with the widest gap.
Wider(best, route) ==
  IF best = Missing \/ route.gap_bps > best.gap_bps THEN route ELSE best

\* The reading after the lookup g, which returned `entry`.
After(r, g, entry) ==
  LET found == entry # Missing
  IN [r EXCEPT
        !.todo = r.todo \ {g},
        !.reporting = IF g.side = 0 /\ found
                        THEN [r.reporting EXCEPT ![g.pair] = r.reporting[g.pair] + 1]
                        ELSE r.reporting,
        !.one = IF g.side = 1 THEN entry ELSE r.one,
        !.best = IF g.side = 2 /\ found /\ r.one # Missing
                   THEN [r.best EXCEPT ![g.pair] =
                           Wider(r.best[g.pair], Route(<<g.one, g.other>>, r.one, entry, r.now))]
                   ELSE r.best,
        !.listed = IF g.side = 3 /\ found
                     THEN [p \in DOMAIN r.listed \cup {g.other} |->
                             IF p = g.other THEN entry ELSE r.listed[p]]
                     ELSE r.listed]

\* Mutant: a row is stale when its price is as old as the bot accepts.
stale_Early(age_ms) == age_ms >= as_millis(max_price_age)

stale(age_ms) == age_ms > as_millis(max_price_age)

\* The row of a pair without a route is short of more than any gap.
row(r, pair) ==
  LET best   == r.best[pair]
      priced == best # Missing
  IN [pair |-> pair, pools_priced |-> r.reporting[pair], best |-> best, priced |-> priced,
      gap_bps |-> IF priced THEN best.gap_bps ELSE 0,
      needs_bps |-> IF priced THEN best.needs_bps ELSE 0,
      short_by_bps |-> IF priced THEN saturating_sub(best.needs_bps, best.gap_bps) ELSE U64Max,
      stale |-> priced /\ stale(best.age_ms)]

\* Mutant: whether a row is a gap at all does not count.
Before_AnyAge(r, s) ==
  \/ r.short_by_bps < s.short_by_bps
  \/ r.short_by_bps = s.short_by_bps /\ r.pair < s.pair

Before(r, s) ==
  \/ ~r.stale /\ s.stale
  \/ (r.stale <=> s.stale) /\ r.short_by_bps < s.short_by_bps
  \/ (r.stale <=> s.stale) /\ r.short_by_bps = s.short_by_bps /\ r.pair < s.pair

\* What market::snapshot returns once every lookup is made.
sorted_rows(r) ==
  LET before == {pq \in Pairs \X Pairs : Before(row(r, pq[1]), row(r, pq[2]))}
      order  == InOrder(Pairs, before)
  IN [k \in 1 .. Cardinality(Pairs) |-> row(r, order[k])]

\* What market::pool_rows returns of the pools that were priced.
listing(book, t) ==
  [p \in DOMAIN book |-> [price |-> book[p].price,
                         age_ms |-> as_millis(saturating_sub(t, book[p].at))]]

MarketInit ==
  /\ reading = NotReading
  /\ rows = <<>>
  /\ pool_rows = EmptyBook

\* market::snapshot is called with the time.
BeginReading ==
  /\ reading = NotReading
  /\ reading' = Reading(now)
  /\ rows' = <<>> /\ pool_rows' = EmptyBook

lookup(p) == IF p \in DOMAIN prices THEN prices[p] ELSE Missing

\* PriceBook::get
Get ==
  /\ reading # NotReading /\ reading.todo # {}
  /\ LET g == first(reading.todo)
     IN reading' = After(reading, g, lookup(pool(g)))
  /\ UNCHANGED <<rows, pool_rows>>

\* market::snapshot returns, and market::pool_rows is called with a new time.
SnapshotReturns ==
  /\ reading.stage = "snapshot" /\ reading.todo = {}
  /\ rows' = sorted_rows(reading)
  /\ reading' = [reading EXCEPT !.stage = "pool_rows", !.now = now, !.todo = pool_gets]
  /\ UNCHANGED pool_rows

PoolRowsReturns ==
  /\ reading.stage = "pool_rows" /\ reading.todo = {}
  /\ pool_rows' = listing(reading.listed, reading.now)
  /\ reading' = NotReading
  /\ UNCHANGED rows
=============================================================================
