------------------------------ MODULE Session ------------------------------
(***************************************************************************)
(* The rows of the screen in the two kinds of session (src/main.rs): in a  *)
(* race the ticker reads the book of the price feed while the feed goes on *)
(* quoting; a rehearsal makes its own prices and reads its own book.       *)
(***************************************************************************)
EXTENDS Rehearsal

CONSTANTS
  Sizes,          \* trade sizes put to evaluate
  Enough,         \* a size at which one basis point exceeds the network fee
  StartTime,      \* when the session is first looked at
  StartBooks,     \* books the feed may have built by then
  MaxTime,        \* bound: last instant of the clock
  MaxChanges,     \* bound: changes of the price book
  MaxReadings     \* bound: readings of the ticker, which share no state

ASSUME SessionAssumption ==
  /\ Sizes \subseteq Nat
  /\ Enough \in Nat /\ Enough \div 10000 > network_fee_lamports
  /\ StartTime \in Nat
  /\ \A book \in StartBooks : \A p \in DOMAIN book :
       /\ p \in Pools /\ book[p].price \in Quotes[p]
       /\ book[p].fee_rate = fee_rate[p] /\ book[p].at \in 0 .. StartTime
  /\ MaxTime \in Nat /\ MaxChanges \in Nat /\ MaxReadings \in Nat

VARIABLES
  command,        \* the subcommand the program was started with
  \* History, read by no action except to bound the model:
  version,        \* changes of the price book
  begun           \* readings so far; the book, version and time the last began with

vars == <<now, prices, reading, rows, pool_rows, ledger, session_vars,
          command, version, begun>>

\* A race is met while it is running; a rehearsal starts with nothing.
Init ==
  /\ command \in {"race", "rehearse"} /\ (command = "rehearse" => CanRehearse)
  /\ now = StartTime
  /\ IF command = "race" THEN prices \in StartBooks ELSE prices = EmptyBook
  /\ MarketInit /\ RehearsalInit
  /\ version = 0 /\ begun = [n |-> 0, book |-> prices, version |-> 0, now |-> StartTime]

Feed ==
  /\ command = "race" /\ version < MaxChanges
  /\ BookNext
  /\ version' = version + 1
  /\ UNCHANGED <<now, reading, rows, pool_rows, ledger, session_vars, command, begun>>

\* A reading begins: what it could see at its start, for the properties.
Begins == begun' = [n |-> begun.n + 1, book |-> prices', version |-> version, now |-> now]

\* The ticker fires.
Ticker ==
  /\ command = "race" /\ begun.n < MaxReadings
  /\ BeginReading
  /\ UNCHANGED <<now, prices, ledger, session_vars, command, version>>
  /\ Begins

\* A reading goes on.  In a rehearsal its rows are the ones to roll.
Read ==
  /\ \/ (Get \/ SnapshotReturns) /\ UNCHANGED to_roll
     \/ PoolRowsReturns /\ to_roll' = IF command = "rehearse" THEN rows ELSE to_roll
  /\ UNCHANGED <<now, prices, ledger, tick, taken, spent, wallet, duels,
                 command, version, begun>>

Rehearse ==
  /\ command = "rehearse"
  /\ \/ /\ \E price \in [Pools -> UNION {Quotes[p] : p \in Pools}] :
             (\A p \in Pools : price[p] \in Quotes[p]) /\ StepBegins(price)
        /\ Begins
     \/ /\ \/ to_roll # <<>> /\ \E lost \in lost_by(Head(to_roll)) : RowRolled(lost)
           \/ RowSkipped
        /\ UNCHANGED begun
  /\ UNCHANGED <<now, command, version>>

Tick ==
  /\ command = "race" /\ now < MaxTime
  /\ now' = now + 1
  /\ UNCHANGED <<prices, reading, rows, pool_rows, ledger, session_vars,
                 command, version, begun>>

Next == Feed \/ Ticker \/ Read \/ Rehearse \/ Tick

Spec == Init /\ [][Next]_vars

-----------------------------------------------------------------------------
(* Properties *)

\* The routes of a pair that are priced in a book.
OpenRoutes(book, pair) ==
  {r \in (DOMAIN book) \X (DOMAIN book) :
     r[1] < r[2] /\ PoolBook[r[1]] = pair /\ PoolBook[r[2]] = pair}

\* While the book stands still, the row of a pair is its market: priced when
\* two of its pools are, the widest gap there is with exactly the cost of those
\* two pools and the age of the older of their prices; it counts the pools of
\* the pair that have a price, and the pools listed below the rows are those
\* with a price, each with that price.
RowIsTheMarket ==
  rows # <<>> /\ reading = NotReading /\ version = begun.version =>
    \A i \in DOMAIN rows :
      LET r      == rows[i]
          book   == begun.book
          open   == OpenRoutes(book, r.pair)
          gap(o) == gap_bps(book[o[1]], book[o[2]])
      IN /\ r.priced <=> open # {}
         /\ r.pools_priced = Cardinality({p \in DOMAIN book : PoolBook[p] = r.pair})
         /\ DOMAIN pool_rows = DOMAIN book
         /\ \A p \in DOMAIN book : pool_rows[p].price = book[p].price
         /\ r.priced =>
              LET one   == book[r.best.route[1]]
                  other == book[r.best.route[2]]
              IN /\ r.best.route \in open
                 /\ r.gap_bps = gap(r.best.route)
                 /\ \A o \in open : gap(o) <= r.gap_bps
                 /\ r.needs_bps = fee_bps(one) + fee_bps(other) + margin_bps
                 /\ r.best.age_ms = as_millis(saturating_sub(begun.now, older(one, other)))

\* What the bot would say of a row's two prices, either way round.
BotSays(r, t) ==
  {evaluate(Enough, r.best.a, r.best.b, FALSE, t),
   evaluate(Enough, r.best.b, r.best.a, FALSE, t)}

\* Less than a millisecond too old.
JustTooOld(r) ==
  as_millis(saturating_sub(begun.now, older(r.best.a, r.best.b))) = as_millis(max_price_age)

\* The screen and the bot it is meant to explain agree on the prices of a row,
\* whatever the feed does between two lookups: a fresh row that is short of
\* nothing and wider than its fees (which a margin implies) is a trade the bot
\* takes, unless the gap is too wide to be believed, a row that is short of
\* something is one it declines, and a stale row is one it calls stale.  The
\* row counts whole milliseconds, so a price that is less than one millisecond
\* too old for the bot is not stale on the screen yet.
ScreenAgreesWithBot ==
  \A i \in {j \in DOMAIN rows : rows[j].priced} :
    LET r    == rows[i]
        says == BotSays(r, begun.now)
        open == \E v \in says : v.ok
        old  == \A v \in says : ~v.ok /\ v.why = "Stale"
    IN /\ r.stale => old
       /\ old => r.stale \/ JustTooOld(r)
       /\ ~old /\ r.gap_bps <= IMPLAUSIBLE_BPS =>
            (open <=> r.short_by_bps = 0 /\ r.gap_bps > r.needs_bps - margin_bps)
       /\ r.gap_bps > IMPLAUSIBLE_BPS => ~open

\* The rows worth glancing at are on top.  A row is about the widest route of
\* its pair: when the bot would take the route of a row, then with a margin it
\* would take the route of every row above it too, except one whose gap is too
\* wide to be believed and one whose price is less than a millisecond too old
\* for the bot, which are short of nothing and fresh on the screen.  (Without a
\* margin a row that only just pays its fees is short of nothing as well.)
\* Nothing is said of a pair's narrower routes: one that is open because its
\* pools are cheaper is not on the screen.
OpenRowsOnTop ==
  LET Open(r) == r.priced /\ \E v \in BotSays(r, begun.now) : v.ok
  IN margin_bps > 0 =>
       \A i, j \in DOMAIN rows : i < j /\ Open(rows[j]) =>
         \/ Open(rows[i])
         \/ rows[i].gap_bps > IMPLAUSIBLE_BPS
         \/ rows[i].priced /\ JustTooOld(rows[i])

\* Two priced pools of the book, sold on the first and bought on the second.
BookRoutes == {r \in (DOMAIN prices) \X (DOMAIN prices) : r[1] # r[2]}

Verdict(n, r) == evaluate(n, prices[r[1]], prices[r[2]], FALSE, now)

\* At most one way round is worth taking: on_trigger tries both and keeps the
\* better, so accepting both would be accepting a loss.
OneWayOnly ==
  \A r \in BookRoutes, n \in Sizes : ~(Verdict(n, r).ok /\ Verdict(n, <<r[2], r[1]>>).ok)

\* What is accepted is coherent with what is shown: the gross gap is the gap
\* gap_bps reports for the two pools, it is plausible, and it pays both pools,
\* the margin and the network fee.
AcceptedAddsUp ==
  \A r \in BookRoutes, n \in Sizes :
    LET v    == Verdict(n, r)
        fees == fee_bps(prices[r[1]]) + fee_bps(prices[r[2]])
    IN v.ok =>
         /\ v.gross_bps = gap_bps(prices[r[1]], prices[r[2]])
         /\ v.gross_bps \in 1 .. IMPLAUSIBLE_BPS
         /\ v.gross_bps >= fees + margin_bps
         /\ v.net_lamports > 0
         /\ (v.net_lamports + network_fee_lamports) * 10000 <= n * (v.gross_bps - fees)
         /\ v.staleness <= max_price_age

\* The reason given sends the operator to the right number: a trade declined as
\* too small is accepted when only its size grows, and a trade declined for its
\* gap, its direction or its age is not.
ReasonIsTheReason ==
  \A r \in BookRoutes, n \in Sizes :
    LET v == Verdict(n, r)
    IN ~v.ok =>
         IF v.why = "TooSmallForTheFee"
           THEN net_bps(prices[r[1]], prices[r[2]]) > 0 => Verdict(Enough, r).ok
           ELSE v.why # "NotATrade" => \A k \in Sizes \cup {Enough} : ~Verdict(k, r).ok

\* What a round trip through the two pools returns (external: what a swap on a
\* pool does, with no price impact and the pool's fee taken from the input).
RoundTrip(n, sell, buy) ==
  LET quote == ((n * (10000 - fee_bps(sell))) \div 10000) * sell.price
  IN ((quote \div buy.price) * (10000 - fee_bps(buy))) \div 10000

\* What evaluate says of its fees: "Rounded up on each side, so the answer can
\* only understate the profit."  Three lamports are allowed for the rounding
\* of the round trip itself.
ProfitUnderstated ==
  \A r \in BookRoutes, n \in Sizes :
    Verdict(n, r).ok =>
      Verdict(n, r).net_lamports
        <= RoundTrip(n, prices[r[1]], prices[r[2]]) - n - network_fee_lamports + 3
=============================================================================
