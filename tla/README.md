# Formal model of the Solana edge terminal

The terminal measures how much earlier one feed of Solana transactions (raw
shreds, the lane `doublezero`) delivers than others (RPC WebSockets), and what
that head start would be worth to a bot that trades the gap between two pools
of the same pair. This directory holds TLA+ modules for the parts of the
program that keep state or decide something, the TLC runs that check them on
small instances, and proofs, checked by TLAPS, for every instance. Source paths
below are relative to the repository; `PROJECT.json` maps each definition to
the lines it models.

## 1. Inventory

| Component | State it keeps | Operations | Correct if |
|---|---|---|---|
| Race, `src/race.rs` | `pending` (signature → arrivals per lane, lanes paired), the window `deltas`, `recent`, `seen`, `matched` | `observe`, `evict`, `snapshot` | a pair is credited when both sides are there, once; its lead is the distance of the first arrivals; nothing older than the window counts |
| Limits and executor, `src/bot/config.rs`, `src/bot/execute.rs` | `ExecutionStats` per lane, the kill file (on disk) | `check`, `attempt` | no lane exceeds its cap; the kill file stops it; a dry run sends nothing; every attempt is counted once |
| Ledger, `src/bot/ledger.rs` | a tape of 200 trades, running totals | `record` | totals and tape agree with each other and with the executors |
| Decision, `src/bot/arb.rs`, `src/bot/whirlpool.rs` | none | `evaluate`, `gap_bps`, `fresh_enough`, `fee_bps` | what is accepted pays for itself, one way round; the reason given is the reason |
| Lane bot, `src/bot/lane.rs`, `src/bot/pools.rs` | triggers acted on, `LaneStats` | `on_trigger` | each trigger is judged once and counted once; the find is the best among the prices read |
| Duel book, `src/bot/duel.rs` | per event the time and the view of each lane, the order of events | `record`, `settle`, `evict` | the lane told first is named, by the right head start; a miss is never scored |
| Main loop, `src/main.rs` | the two channels, the trigger counts | `run_race`, `offer_trigger`, `write_snapshot` | every find is offered, booked and reported once |
| Price feed, `src/bot/prices.rs` | the shared price book, subscription ids of a connection, backoff | `subscribe_pools`, `stream_once`, `absorb` | a price is filed under its pool; none outlives its connection; a dead socket is noticed |
| RPC lane, `src/rpc_lane.rs` | `Watched` (subscription ids), backoff | `run`, `connect_and_stream` | a trigger names the right account or none; the lane comes back |
| Market rows, `src/bot/market.rs` | none | `snapshot`, `pool_rows` | a row says what the bot would do with the same prices, although the book moves while it is computed; the row worth a glance is on top |
| Capture, `src/capture.rs` | a raw socket | `spawn`, `parse_udp` | what leaves is the datagram, whole, stamped on receipt; nothing meant for the feed is lost |
| Shred pipeline, `src/pipeline.rs` | decoder state, `PipelineCounts` | `on_packet` | a packet that panics stops nothing behind it; the counters add up |
| Snapshot and page, `src/main.rs`, `src/serve.rs` | the snapshot file and its temporary, the shared JSON, and in the browser the market shown, the open fetches and the screen | `write_snapshot`, `serve_with`, the page's `tick` and switch | a reader sees whole snapshots in order, the screen nothing the file does not have, and it catches up |
| Rehearsal, `src/rehearse.rs` | its own price book, ledger, wallet and counters | `step` | the money it shows agrees with itself and with the rows, and the page says that it is invented |
| Sources, `src/sources.rs` | none | describe feeds | — |

**How they interact.** Every lane is a task that stamps a transaction on receipt
and puts it on an unbounded channel: one for captured packets, one shared by all
RPC lanes. The main loop takes from either channel in an order `select!`
chooses, one message at a time, or serves its ticker. For a message it calls
`offer_trigger`, then `Race::observe`. In `offer_trigger` each watched pool the
message names goes to the lane's bot, which reads the price book; a find goes to the lane's
executor, its outcome to the ledger, and the view to the duel book. The price
feed is another task that writes the same price book; each read and each write
takes the lock on its own. On a tick the loop evicts, builds a snapshot and
publishes it: to a file, then to the string the dashboard answers with. The page
in the browser fetches that string every second. A rehearsal replaces all of it
by a loop that invents prices and publishes to the same dashboard. The kill file
is created and removed by another process.

**What is hard.** Messages are processed late and in another order than they were
stamped; lanes repeat and miss transactions; entries are evicted while copies
are still to come; the price book changes between the reads of one judgement and
between two lanes' looks at one event; the kill file appears while an attempt is
under way; subscription ids are reused across connections; sockets die
silently; datagrams carry three lengths that need not agree; the decoder may panic
half way; the program may stop in the middle of writing a snapshot; the page's
answers overlap and arrive in any order. `PROJECT.json` lists each of these,
under `hazards`, at its line.

## 2. Modules

| Module | Models | State and actions |
|---|---|---|
| `Race` | `race.rs` `observe`, `evict`, and the channels of `run_race` | `pending`, `deltas`, `recent`, `seen`, `matched` as in the code; `Deliver` (a lane stamps and sends), `Observe` (the loop takes a message), `Evict`, `Tick` |
| `RaceSnapshot` | `snapshot`, `ladder`, `percentile` | operators over the state of `Race` |
| `Ledger` | `ledger.rs` | `trades`, `totals`; `record` as an action fragment |
| `Executor` | `config.rs` `check`, `execute.rs` `attempt`, the booking in `offer_trigger` | `stats` per lane, `kill_file`; `Refuse`, `SkipDryRun`, `CallBroker` and `BrokerReturns` (the two halves of an attempt), `TouchKillFile`, `RemoveKillFile` |
| `Arb` | `arb.rs`, `fee_bps` | pure operators |
| `PriceBook` | the price book of `prices.rs` over the pools of `pools.rs` | `prices`; `Quote`, `Clear`; `BookSpec` is what readers may rely on |
| `LaneBot` | `lane.rs` `on_trigger` | extends `PriceBook` with `acted`, `lane_stats` and the judgement in progress; `Duplicate`, `NoPrice`, `Begin`, `PassOver`, `Compare`, `ReturnNone`, `ReturnFound` — one step per read of the book |
| `DuelBook` | `duel.rs` | `entries`, `order`; `record_duel`, `evict_duels` |
| `Terminal` | `run_race` and `offer_trigger` | composes `LaneBot`, `DuelBook` and an instance of `Executor` in a dry run without a broker, which is how `run_race` starts it; adds the channels, the feed, the operator and the clock |
| `RpcSocket` | external: an RPC server and the network | registers, refuses, acknowledges, notifies, closes, dies |
| `RpcClient` | what the feed and the lanes have in common | the phases connecting, streaming and sleeping, the map of subscriptions, the backoff |
| `PriceFeed` | `prices.rs` `subscribe_pools`, `stream_once`, `absorb` | extends `RpcClient`; one action per kind of frame, a timeout, an error |
| `RpcLane` | `rpc_lane.rs` `run`, `connect_and_stream`, `Watched` | the same without the timeout, each step named as in `PriceFeed` with `Lane` in front |
| `Sorting` | `sort_by`, `sort_by_key` | `InOrder`: a finite set in a strict total order, by rank |
| `Market` | `market.rs` | extends `PriceBook` with the reading in progress: the set of lookups still to make, of which the first in the order of the loops comes next; `BeginReading`, `Get` (one lookup), `SnapshotReturns`, `PoolRowsReturns` |
| `Rehearsal` | `rehearse.rs` `step` | extends `Market` and `Ledger` with the rehearsal's counters, wallet and tape; `StepBegins`, `RowRolled`, `RowSkipped` |
| `Session` | the ticker's branch of `run_race`, and `run_rehearsal` | composes the two: a race reads a book the feed changes, a rehearsal its own; `Feed`, `Ticker`, `Read`, `Rehearse`, `Tick` |
| `Shreds` | `capture.rs`, `pipeline.rs`, `probe` | the capture thread, the channel, the counters, the probe; `Recv`, `RecvFails`, `OnPacket`, `ProbePacket`, `ProbeEnds` |
| `Publish` | `write_snapshot` and what is done with its result | the two files and the shared JSON; one action per system call, `Ends` (anywhere) and `Restart` |
| `Dashboard` | `serve.rs`: the responder and the stream page | extends `Publish` with the page's open fetches, market and screen; `Tick`, `Click`, `Serve`, `Arrive`, `Lose` |
| `MCRace`, `MCExecutor`, `MCTerminal`, `MCSession`, `MCShreds` | — | values of constants and symmetry sets for TLC |
| `RaceProofs`, `ExecutorProofs`, `TerminalProofs`, `SessionProofs`, `ShredsProofs`, `DashboardProofs` | — | theorems about the module named; `RaceProofs` covers `RaceSnapshot` too, `TerminalProofs` covers `LaneBot` and `DuelBook`, `SessionProofs` covers `Arb`, `Market` and `Rehearsal` |
| `SocketProofs` | — | the socket, the price feed and the RPC lane |
| `DataProofs` | — | lemmas about sequences and `InOrder` |

Definitions keep the code's names where they can. A definition whose name has a
suffix and whose comment begins with "Mutant" is a plausible bug in the
definition after it; no specification uses it. It is there to show that the
property that names it in `PROJECT.json` would notice.

`PriceBook!BookSpec` is the abstract specification the price feed implements:
prices appear one pool at a time, each from that pool's account, and go all at
once. `LaneBot`, `Terminal`, `Market` and `Session` are checked against any book
that behaves so (their `Feed` takes `BookNext`), and `PriceFeed` is shown to
provide one (`FeedProvidesBook`), with the mapping from a price's origin to the
pool it was quoted for. Together they cover the path from the socket to a
decision without one model of both.

### What is abstracted

- Instants are ticks of one clock (the code uses `Instant::now()` of one
  process throughout). Signatures, lanes and ids are model values or strings.
- Prices are integers, so the ratio of two is exact where the code computes in
  `f64` and floors. A pool's price and fee are what `decode` returns; a
  notification that does not decode is one with `good = FALSE`.
- A price in `PriceFeed` is where it came from: a pool and a connection.
- `HashMap` iteration order is a nondeterministic choice (`Orders`, `FirstTwo`).
- The `retain` with which the duel book forgets an event is written as a
  recursive function over the tape, element by element, so that it can be
  reasoned about.
- The fields that are only shown (slots, labels, wall-clock times) are left out.
- `Broker` is a trait that no type of the repository implements. It is an
  external action between `CallBroker` and `BrokerReturns` and may answer
  any outcome, a skip of its own for any reason included, except that it sends
  only in live mode. `main` insists on a dry run for that reason;
  `Executor` covers all three modes because `attempt` is written for them.
- In `Terminal` a message of the shred lane names the watched pools among the
  transaction's static keys (`StaticKeys`), all that `pipeline.rs` hands on; a pool
  reached through an address lookup table is named by RPC lanes only.
- In `Market` time is counted in parts of a millisecond (`Milli`), because the
  rows show whole milliseconds and the bot compares exact durations. A route
  carries its two prices, so that the properties can ask the bot about them.
- Sorting is said by rank (`InOrder`): the k-th element is the one that k - 1
  others are before. The keys the code sorts by are made strict the way its
  stable sort does, by position or by the pair's name.
- A rehearsal runs only under `CanRehearse`, which the constants written into
  `rehearse.rs` and `pools.rs` satisfy: a margin above one basis point, a size
  at which one basis point is more than the network fee, at most nine pairs.
- In `Rehearsal` the random walk is any choice of quotes and a roll any choice;
  the loss of the slower lane is taken at both ends of its range. Prices are not
  dated back, which in the code is by less than a second against a limit of five.
- In `Shreds` a datagram is its header fields and lengths, a payload a range of
  bytes. The SDK's decoder may stop, fail or panic at each of its three stages.
- In `Dashboard` a snapshot is its number in the order made, and the screen is
  which snapshot each of its two parts was drawn from: the part `renderKalshi`
  reaches, and the rest.
- `RpcSocket` lets a notification overtake the acknowledgement of its
  subscription and lets ids be reused on the next connection. Both are allowed
  by the protocol and both are what `by_subscription` is there for.

## 3. Runs

Twelve runs: nine must pass, three show that the code does something else than
a line of the repository says.

| Run | Checks | Shows |
|---|---|---|
| `race` | `TypeOK`, `CreditWithinDelivered`, `NoPairForgotten`, `LeadIsTrueLead`, `SnapshotCoherent`, `EvictClearsWindow` | with late processing, repeats, misses and eviction at any moment, pairs are completed when both sides are there, leads are those of the first deliveries, and the window is in order |
| `executor` | `SpentWithinCap`, `CountersAddUp`, `LedgerAgrees`, `TotalsMatchTape`, `DryRunSendsNothing`, `AtMostOneSendAfterKill` | in each mode and with the kill file coming and going, limits hold and three records of the same attempts agree, whatever the broker answers |
| `judge` | `VerdictsAddUp`, `FoundIsBest` | one trigger against two siblings while the book changes between the reads |
| `terminal` | `DuelsCoherent`, `FindsAreBooked`, `HeadStartIsTrue`, `GapLostMeansMarketMoved` | two lanes, a backlog, a transaction that touches two pools, a moving book, eviction of events |
| `market` | `RowIsTheMarket`, `ScreenAgreesWithBot`, `OpenRowsOnTop` | the rows of a race: right when the book stands still, to the cost and the millisecond, and in agreement with `evaluate` on the prices they were read from when it does not |
| | `OneWayOnly`, `AcceptedAddsUp`, `ReasonIsTheReason` | `evaluate` over every book the run reaches, at and around each of its thresholds |
| | `RehearsalAddsUp`, `EarningsWithinTheTrade` | a rehearsal's wallet, ledger, rows and duels agree; its unsigned subtractions do not wrap; it books no more than the bot would for a gap the bot believes |
| `price_feed` | `PricesAreAttributed`, `NoPriceSurvivesAnOutage`, `DeadSocketIsNoticed`, `FeedProvidesBook` | reconnections with reused ids, refusals, bad data, closes, errors and silent deaths; the feed implements `PriceBook` |
| `rpc_lane` | `TriggersAreAttributed`, `ClosedLaneReconnects` | the same for a lane |
| `shreds` | `DatagramsArriveWhole`, `FunnelAddsUp`, `EveryPacketIsHandled`, `ProbeFinishes` | datagrams at every boundary of `parse_udp`, a decoder that fails or panics anywhere, a thread that stops |
| `dashboard` | `FileIsWhole`, `FileBacksTheScreen`, `InventedNumbersSaySo`, `ScreenSettles` | stops and restarts anywhere in publishing; fetches that overlap, are lost or answer late; clicks |

### Disagreements

| Run | Property | What the code does |
|---|---|---|
| `arb_profit` | `ProfitUnderstated` | fees compound, and are subtracted as if they did not, so the profit is overstated by up to the product of the gap and the fees, at whole-basis-point fees too. |
| `dead_lane` | `DeadLaneReconnects` | the lane's read has no time limit, unlike the price feed's. |
| `kalshi` | `SwitchTakesEffect` | `renderKalshi` reads `mine` and `theirs` four lines above their declaration, which throws on every tick; `tick` swallows it, so only the top of the screen changes. |

More were met while modelling and are not runs:

- `evict` forgets a signature together with what was paired on it, so copies that
  arrive after `PENDING_TTL` are paired again, with a lead of their own; the
  README says that "a repeated copy cannot improve a lane's number".
  `LeadIsTrueLead` is what does hold (until the first eviction), and
  `CreditWithinDelivered` bounds the damage: never more pairs than messages.
- The kill file is looked at before the broker is called, and an attempt under
  way is sent, where `main.rs:120` says that "nothing is sent, whatever else is
  set". `AtMostOneSendAfterKill` is what does hold.
- A lane's place in a duel is decided by delivery and its view by processing, so
  with a backlog the slower lane may have looked first, and `gap_lost_bps`
  (`duel.rs:42`, "by the time the slower lane looked") is a gap that opened
  later.
- `docs/runbook.md:305-312` gives the order of the limits as kill file, session
  cap, wallet ceiling, and `check` looks at the wallet before the cap, so an
  attempt that both would refuse is counted under `refused_wallet`.
- `awaiting_pair`, printed as "awaiting a pair", counts every entry held, the
  fully paired ones included.
- `market.rs:24` says of `short_by_bps` that "Zero means it is" worth taking. It
  is also zero for gaps the bot calls implausible, and such a row can sit on top
  (`ScreenAgreesWithBot` and `OpenRowsOnTop` except it). With `--margin-bps 0` it
  is zero for a gap that only just pays its fees, which `evaluate` declines; the
  proof of `ScreenAgreesWithBot` found this, and the two properties say so. A pair's row is that of
  its widest gap, so a wide gap between stale prices hides a fresh one of the
  same pair, and a narrower route between cheaper pools, which the bot would
  take, does not show at all: its pair is short on the screen and sorted low,
  where `market.rs:91` promises the order of "how close it is to being worth
  taking" and `market.rs:155` "closest to actionable first". `OpenRowsOnTop` is
  what does hold, of the widest routes. The page's "over the fees" counts stale rows; and since each
  lookup is its own, a row can be `priced` with fewer than two `pools_priced`.
- A price less than a millisecond too old for the bot is not stale on the screen:
  `as_millis` truncates. `ScreenAgreesWithBot` and `OpenRowsOnTop` allow exactly that.
- `parse_udp` drops later fragments but passes a first fragment (offset zero, more
  to follow), although its comment at `capture.rs:65-67` says that fragments "would
  hand a partial shred downstream" and that "dropping is right"; and it passes a
  read that is shorter than the datagram says it is. The datagrams of `shreds`
  include both. `DatagramsArriveWhole` requires whole datagrams to arrive, exactly
  as long as they say; it allows these two beginnings and requires neither, so it
  would also hold of a `parse_udp` that dropped them.
- A broker that skips an attempt itself falls through the empty arm at
  `execute.rs:125`: the attempt is under `attempted` and under no outcome, and
  if the reason is a limit the ledger counts a refusal that no executor has. The
  repository has no broker yet; the `Broker` trait allows it, the model's broker
  does it, and `CountersAddUp` and `LedgerAgrees` say by how much the records then
  differ (`skipped`, a history variable, counts such attempts).
- A rehearsal takes and books rows whose gap is above `IMPLAUSIBLE_BPS`, which
  `evaluate` calls implausible and declines. Such rows occur, since each pool's
  mid drifts on its own. `EarningsWithinTheTrade` bounds what is booked by what
  the bot would earn for the other gaps only, and says of these that the bot
  takes neither direction.
- A capture thread whose `recv` fails ends with a log line. The race goes on and
  the page keeps reading FEED UP, because `packets > 0` stays true
  (`serve.rs:598`).
- An upstream that is down "must read as down" (`serve.rs:96`); the responder says
  so and the page ignores the answer, keeping the last screen. And the switch is
  offered by one request at load: if the other lab is down then, it stays hidden.
- Answers of overlapping fetches may leave an older snapshot, or the market that
  was shown before, on the screen until the next one arrives. `ScreenSettles`
  is what does hold.
- `rehearse.rs:61` and `:119` speak of one mid per pair; there is one per pool.

### Bounds, and why they are enough

- `race`: three lanes (two RPC lanes share a channel, and several pairs can be
  completed by one message), two signatures, four deliveries, instants 0 to 3,
  `PENDING_TTL` 2, window 1, one recent pair kept. So a signature can be paired,
  evicted and come back, the window can hold an expired and a live delta, and
  the list of recent pairs overflows. Signatures are symmetric; lanes are not.
- `executor`: two lanes, two offers each, a cap of exactly one attempt
  (`session_cap = per_attempt = 2`, so the second send is one too many, and
  equality at the boundary is reached), balances at and above the ceiling, a
  tape of two. The cap plus one attempt stays below `U64Max` in the code's
  configuration; `ExecutorAssumption` asks only that the cap itself does.
- `judge`: three pools of one pair with three fees, four prices, four changes of
  the book, one delivery.
- `terminal`: two pools, both or one of them a static key of the transaction, two
  prices (a gap worth trading or none), three changes
  of the book, two deliveries: two lanes report one event, or one lane twice.
- `market`: a pair of three pools and a pair of two, so there is a choice of
  routes and an order of rows; prices one apart, at a plausible gap and just
  above the implausible one; fees that round and fees that do not; sizes from
  zero to one where the network fee is small. A race starts from any book the
  feed can have built with every pool priced, or all but one, at two ages, and
  sees one change at any of the lookups and time pass by half a millisecond.
  One reading is enough, since readings share no state. A rehearsal takes two
  steps; ledger and duel tape hold two, so both overflow. The code watches seven
  pairs and claims nine triggers a step, which is why the subtraction in
  `RehearsalAddsUp` stays above zero; a tenth pair would break it.
- `arb_profit`: two pools with whole-basis-point fees.
- `price_feed`, `rpc_lane`: two accounts, two subscription ids, so the second
  connection may swap them; two connections; two frames in flight; a backoff
  capped at 3 so that both doubling and the cap occur.
- `shreds`: every combination of bytes read, header length and total length at
  and next to the limits of `parse_udp`, and a datagram with each other field
  wrong; two datagrams, so one can panic in front of another; three instants.
- `dashboard`: three snapshots over at most three runs of the program (two stops,
  at any step), two fetches at a time, of which one may hang for ever.

`MaxTime`, `MaxDeliveries`, `MaxQuotes`, `MaxOffers`, `MaxConns`, `MaxWire`,
`MaxChanges`, `MaxReadings`, `MaxSteps`, `MaxPackets`, `MaxMade`, `MaxCrashes`,
`MaxOpen` and `MaxLost` are bounds of the model only. Each is in the guard of an
action that starts something (a delivery, a quote, a connection, a reading, a
fetch), never in the middle of an operation. Deadlock is checked wherever the
system can always go on. In `market` and `shreds` the bounded inputs run out
(a probe really ends), and a lane may really wait for ever (that is
`dead_lane`), so those say `CHECK_DEADLOCK FALSE`.

### Fairness

`PriceFeed` and `RpcLane` assume weak fairness of handling a frame that is there,
of waking from a sleep, and (price feed) of time passing during a read: a tokio
task whose frame or timer is ready is polled. Nothing is assumed of the
server, of a connection attempt succeeding, or of an error being reported. The
two leads-to properties say what the program does about a connection that
ended, not that it gets another one.

`Shreds` assumes the same of the task that takes packets and of the probe's timer,
and that time passes. Nothing is assumed of the interface, so `ProbeFinishes`
covers an interface that is silent.

`Dashboard` assumes that the ticker fires and publishing goes on (one weak
fairness condition for the program's own steps, since only one is possible at a
time), that systemd restarts the unit (`Restart=on-failure`), that the page's
interval timer fires, and that a fetch is answered unless it is lost. Nothing
is assumed of clicks, stops or the other lab. `ScreenSettles` is about
behaviours in which the program stays up and the viewer on one market; its
premise is reached after every stop the bounds allow. The other modules state
safety only.

## 4. Proofs

TLAPS proves the theorems below for every value of the constants that satisfies
the modules' assumptions. What is assumed:

- `RaceAssumption`: finite sets of lanes and signatures, the reference and the
  shred lane are lanes, a positive `RECENT_KEPT`.
- `KeptAssumption`, `ExecutorAssumption`: a positive tape, natural limits, a cap
  below `U64Max`, modes among the three, finitely many lanes.
- `PriceBookAssumption`, `ArbAssumption`, `LaneBotAssumption`, `MarketAssumption`,
  `TerminalAssumption`, `SessionAssumption`: prices are positive, fees, thresholds
  and sizes natural, a transaction touches pools that are watched, its static keys
  among them, a positive
  `KEPT`. A lane is not called `"none"` or `Unset`: those stand for `None` in the
  model (`Option` in the code), and a lane by that name would be mistaken for it.
- `MarketAssumption` also has `max_price_age` in whole milliseconds, which is how
  `main.rs` reads it; `SessionAssumption` that the books a race may be met with
  hold quotes of watched pools from the past; `RehearsalAssumption` a natural
  size and tape.
- `ShredsAssumption`: lengths and offsets of datagrams are natural numbers.
- `RpcSocketAssumption`, `RpcClientAssumption`, `PriceFeedAssumption`, `PublishAssumption`,
  `DashboardAssumption`: natural bounds, and a positive backoff.

The bounds of the model (`MaxTime` and the rest) are any natural numbers in the
proofs, so what is proved holds of behaviours of every length.

| Theorem | States |
|---|---|
| `RaceTypeCorrect` | `TypeOK` of `Race`, including that nothing is stamped in the future and `recent` is bounded |
| `RaceNoPairForgotten` | an entry with the reference has paired every lane that arrived; one without has paired none |
| `RaceCreditInv`, `RaceCreditWithinDelivered` | pairs never outnumber the messages of either side |
| `RaceWindowOrdered`, `RaceEvictClearsWindow` | the window is ordered, and therefore `evict`, which stops at the first live delta, leaves no expired one |
| `RaceLeadIsTrueLead` | a lead is the distance of the two first deliveries |
| `RaceWindowCounted`, `RaceSnapshotCoherent` | the window holds no more of a lane than was matched; a published row never contradicts itself, with any window |
| `ExecutorTypeCorrect`, `ExecutorSpentWithinCap`, `ExecutorCountersAddUp`, `ExecutorAtMostOneSendAfterKill`, `ExecutorDryRunSendsNothing` | the type invariant, and the run's properties of the same names |
| `ExecutorLedgerAgrees` | the ledger's totals are the sums of the executors' counters and of the broker's own skips, over any finite set of lanes |
| `ExecutorTotalsMatchTape` | the totals are the sums over the tape while it holds every trade, at any length of the tape |
| `TerminalRunsExecutors` | the main loop implements `Executor`: `Spec => Ledg!Spec` |
| `TerminalVerdictsAddUp`, `TerminalFoundIsBest` | a trigger has one verdict; the find is the best of what was read, for any number of pools |
| `TerminalHeadStartIsTrue`, `TerminalGapLostMeansMarketMoved` | events are credited with the stamps of first deliveries; equal looks see equal gaps |
| `TerminalFindsAreBooked` | a find is offered and booked once |
| `TerminalDuelsCoherent` | tape and map agree, entries are scored as reported, wins add up to the pairs |
| `SessionOneWayOnly`, `SessionAcceptedAddsUp`, `SessionReasonIsTheReason` | `evaluate`, for all prices, fees, sizes and thresholds |
| `SessionScreenInvariant`, `SessionScreenAgreesWithBot`, `SessionOpenRowsOnTop` | rows are made of entries of the book and in order, whatever the feed does between the lookups; the bot agrees with them; rows whose widest route is open are on top, with a positive margin and two exceptions |
| `SessionRowIsTheMarket` | between two changes of the book the rows are the market of their pairs (gap, cost, age, pools), for any pools |
| `SessionRehearsalAddsUp`, `SessionEarningsWithinTheTrade` | the rehearsal's money after any number of steps, and against `evaluate` for gaps it believes |
| `ShredsArrival`, `ShredsDatagramsArriveWhole`, `ShredsFunnelAddsUp` | from the interface to the decoder no whole datagram is lost, repeated, reordered or cut; the funnel adds up through any panic |
| `FeedTypeCorrect`, `FeedPricesAreAttributed`, `FeedNoPriceSurvivesAnOutage` | the price feed, over any number of connections, pools and subscription ids |
| `FeedImplementsBook` | the price feed implements `PriceBook!BookSpec` |
| `LaneTypeCorrect`, `LaneTriggersAreAttributed` | the RPC lane |
| `DashboardTypeCorrect`, `DashboardFileIsWhole`, `DashboardFileBacksTheScreen`, `DashboardInventedNumbersSaySo` | publishing and the page, over any number of stops, restarts and fetches |

**The race.** `CreditWithinDelivered` is not inductive: nothing in it says that a
message which completes a pair was not spent before. `CreditInv` says it: pairs
plus the signatures a lane has delivered and not been paired on are at most the
messages seen, for the lane and for the reference. Each `Observe` adds one to
`seen` and either adds one unspent signature or turns unspent ones into pairs;
eviction only loses unspent ones. The step from "unspent" to "paired" is a fact
about cardinalities (`Spend`). It also needs `NoPairForgotten`, which tells that
on an entry that already has the reference a new arrival is the only one ready.
`WindowOrdered` needs deltas to be stamped when the pair is completed and not
when the message arrived; `RaceEvictClearsWindow` then follows from
`DropExpiredIsSuffix`, that what is left begins with a live delta.
`LeadIsTrueLead` rests on `LeadInv`, which follows a transaction's first copy:
until a lane has arrived on a signature, the first message about the two in its
channel carries the first stamp (`FirstCopyWaits`, `FirstCopyLeads`), and from
then on the entry has it (`ArrivalsTrue`). A channel keeps the order of its
sends; that is all that is needed of it, and the order between channels is not.
`SnapshotCoherent` has two parts. That the window holds no more than was matched
is inductive (`WindowCounted`). The rest is about the ladder: what `InOrder`
returns is sorted (`LeadsSorted`), a rung of a longer list or a higher percentage
is not earlier (`RungRises`), and the list of wins is the end of the sorted list
of all leads, so that each of its rungs reads the longer list further up
(`RungShift`, `LedLeads`).

**The executor.** `IInv` is the type invariant with `SpentWithinCap`,
`CountersAddUp`, `KillInv` and `DryRunInv`. `SpentWithinCap` is inductive
because it counts the attempt the broker holds. `AtMostOneSendAfterKill` is not
inductive by itself: `KillInv` adds the attempt in the broker to what was sent
since the file appeared, and their sum is at most one because nothing enters the
broker while the file exists. `DryRunInv` adds that the broker is never
entered. The broker may answer anything but a send outside live mode, its own
skips included. `LedgerAgrees` and `TotalsMatchTape` are inductive on top of `IInv`; what
they need is that a sum over a finite set changes by what one summand changes.

**Sums.** `SumFunction` of the library is a fold with a recursive definition over
subsets. That it has a value, and what happens to it when one summand changes,
joins or leaves, is an induction over finite sets. The library's induction
theorems take the statement as an operator, which the provers cannot
instantiate; its well-foundedness theorems take a set. So each such lemma looks
at the set of subsets for which it fails and picks a smallest one
(`SmallestSubset`): it is not empty, and without its picked element it is
smaller, which contradicts. `SumUnique`, `SumExists`, `SumRemove`, `SumChange` and
`SumShift` are proved so, and so is the `retain` of the duel book
(`RetainExists`, `OrderKeptKeeps`, on natural numbers).

**The terminal.** `LoopTypes` gives the types of the loop, the book and the
judgement in progress. On top of it:

- `FoundIsBest` needs to be true of a judgement half way: `SoundInv` says that
  `best` and `widest` are the best and the widest of the siblings read so far,
  and that those left come later in the pool book, which decides ties.
- `HeadStartIsTrue` needs the copy that will be judged to carry the first stamp,
  in the channel (`FirstInv`), in the message under way and in the judgement
  (`CreditInv`). An event dropped from the book is not judged again by a lane
  that acted on it, which is why eviction does not disturb it.
- `GapLostMeansMarketMoved` compares two judgements made at different moments.
  `LookInv` says that a judgement begun under the present version of the book has
  read that book; `ViewsInv` that a view taken under the present version is what a
  reader of the present book finds; and `OneGap` that such a reader finds only
  one gap, in whatever order it reads.
- `FindsAreBooked` is compositional. `TerminalRunsExecutors` shows that each step
  of the loop is a step of `Executor` (a dry run without a broker) or leaves it
  alone, so `ExecutorLedgerAgrees` holds of the terminal, and with `OfferInv` (a
  find is offered in the step that reports it) the sums agree.
- `DuelsCoherent` needs `ScoreInv` (an entry is scored as its views say),
  `TapeInv` (order and map, through `retain`) and the sum of the wins.

**Evaluate.** `OneWayOnly`, `AcceptedAddsUp` and `ReasonIsTheReason` hold of every
book with positive prices (`BookInv`), by arithmetic: a trade that is accepted
sells on the dearer pool, and only the last of the conditions depends on the size.

**The rows.** `ScreenInv` says what survives a feed that moves between the lookups:
the lookups left are lookups of the stage, whatever was found so far is an entry
the book had, every route kept is of two such entries, and the rows on the
screen are made of them and sorted. `ScreenAgreesWithBot` is then arithmetic on
one row (`RowAndBot`): the row's `needs_bps` and `short_by_bps` against the
conditions of `evaluate` both ways round, with the whole milliseconds of the row
against the exact ages of the bot. `OpenRowsOnTop` adds the order: a fresh row
that is short of nothing is before every other kind. In `RowIsTheMarket` the book
stands still, and what has to be shown is that the many lookups amount to one
look. `StillInv` says so of a reading half way: the count of a pair is the number
of its pools looked up and found, its best route is the widest of those measured
(`Widest`), and between the two lookups of a route no other is made, so that
`one` is still the price of its first pool (`HalfWay`; this is where the order of
the loops is needed). When no lookup is left these are all pools and all routes.

**The rehearsal.** `TallyInv` adds to `RehearsalAddsUp` that the trades taken and the
rows still to roll are at most nine a step, which is what keeps `below_cost` from
wrapping. A row that is taken leaves the slower lane something to lose because
its gap is above the margin (`RolledRow`, under `CanRehearse`).
`EarningsWithinTheTrade` compares two roundings, of the surplus in whole basis
points and of the bot's net, and needs a basis point to carry the network fee;
above `IMPLAUSIBLE_BPS` both directions are declined, the wide one by that limit.

**The shreds.** `ArrivalInv` numbers the datagrams as they are read: those accepted
are, in that order, the ones handled and then the ones that wait, each with the
payload `parse_udp` cut and the stamp of the read. What is accepted and where it is
cut is arithmetic on the three lengths (`AcceptsMeans`: every whole datagram for
the feed, and otherwise only the beginning of one). `FunnelInv` counts the
handled packets by outcome; every stage at which the decoder can stop or panic is
one case of one packet more (`OneMoreHandled`).

**The sockets.** An id says nothing by itself, since ids are reused. `WireAgrees`
says that an acknowledgement or notification in flight agrees with the server's
table of the present connection; `MapAgrees` that the client's map does. Both hold
because a lost connection takes its frames and its map with it. With them
`PricesAreAttributed` and `TriggersAreAttributed` are inductive. For
`FeedImplementsBook` every action is shown to be a `Quote` of one pool, a `Clear`
or a stutter of the book.

**The dashboard.** `PublishInv` ties what the temporary file holds to the stage:
when it is renamed it holds the newest snapshot made, whole, and newer than the
file; the shared JSON of a race is never ahead of the file. `FileBacksTheScreen`
covers replies under way, which is what makes it inductive across a restart.
`InventedNumbersSaySo` needs `RehearsalAlone`: a rehearsal never offers the switch,
so nothing draws the other market, which hides the banner.

**Only model-checked.**

- Liveness, which the prover cannot do: `DeadSocketIsNoticed`,
  `ClosedLaneReconnects`, `EveryPacketIsHandled`, `ProbeFinishes`, `ScreenSettles`.

Every invariant and every action property of the runs is proved. The three
violations are TLC's counterexamples on small instances.

No module uses a `RECURSIVE` operator.

## 5. Not modelled

- What a panel of the page looks like, the sparkline's memory, and the diagnostics
  page: layout over a snapshot that is modelled.
- The decoding of shreds, which the SDK does; its outcomes are modelled.
- `sources.rs`, the scrubbing of endpoints from log lines, the wording of an
  outcome, the command line: text.
- The reading of account bytes in `whirlpool.rs`: represented by whether it
  succeeds and by the price and fee it yields.
- Counters that are only shown and only grow (slots, a rehearsal's packets and
  transactions), and the order of the pool rows.
- Whether the dashboard could bind its address.

## 6. Plan

Done: 1. `Race` and its proofs; 2. `Ledger`, `Executor` and their proofs;
3. `Arb`; 4. `LaneBot`, `DuelBook`, `Terminal`; 5. `RpcSocket`, `PriceFeed`,
`RpcLane`; 6. `PriceBook` as the feed's abstract specification; 7. `Market`,
`Rehearsal`, `Session`; 8. `Shreds`; 9. `Publish`, `Dashboard`;
10. proofs of the remaining invariants of the race and the executor, of the main
loop with its bots and duels, of `evaluate`, the price feed and its refinement,
the RPC lane, and the dashboard; 11. proofs of what the race publishes, of the
shreds, of the rows and of the rehearsal.

Left, in the order of what they would add:

1. The hazards in `PROJECT.json` without a property: a subscription that is
   refused, a notification of an older slot, a capture thread that stops. Each is
   something the code does not handle, so a property would have to say what it
   should do.
2. The list of duels the page shows, capped at 250, and its order.
3. A liveness argument by hand for `DeadSocketIsNoticed` and `ScreenSettles`, which
   now rest on TLC's small instances.
