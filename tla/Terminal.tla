------------------------------ MODULE Terminal ------------------------------
(***************************************************************************)
(* The main loop with the bots in it (src/main.rs, run_race and            *)
(* offer_trigger): messages from the lanes are taken off two channels, one *)
(* at a time, and every pool a message names is judged by that lane's bot. *)
(* What the bot found goes to the lane's executor, the ledger and the duel *)
(* book before the next pool is looked at.                                 *)
(*                                                                         *)
(* The price feed runs beside the loop, and so does whoever creates the    *)
(* kill file.  The executors are given no broker and a wallet of 0, as in  *)
(* run_race.  Race::observe, which the loop calls on the same messages and *)
(* which shares no state with this, is module Race.                        *)
(***************************************************************************)
EXTENDS LaneBot, DuelBook

CONSTANTS
  ShredLane,       \* the lane that decodes shreds
  Sigs,            \* transaction signatures
  Touches,         \* the watched pools each transaction touches, in order
  StaticKeys,      \* those its own message lists; a lookup table may hold the others
  KEPT,            \* length of the ledger's tape
  MaxTime,         \* bound: last instant of the clock
  MaxDeliveries,   \* bound: messages delivered by all lanes together
  MaxQuotes        \* bound: changes of the price book

ASSUME TerminalAssumption ==
  /\ IsFiniteSet(Lanes) /\ ShredLane \in Lanes /\ Unset \notin Lanes
  /\ KEPT \in Nat \ {0}
  /\ Touches \in [Sigs -> Seq(DOMAIN PoolBook)]
  /\ StaticKeys \in [Sigs -> SUBSET Seq(DOMAIN PoolBook)]
  /\ \A s \in Sigs : \A keys \in StaticKeys[s] : Range(keys) \subseteq Range(Touches[s])
  /\ MaxTime \in Nat /\ MaxDeliveries \in Nat /\ MaxQuotes \in Nat

VARIABLES
  kill_file, stats, in_broker, afterKill,   \* the executors
  trades, totals,                           \* the ledger
  channel,      \* messages not yet taken, per channel
  current,      \* the message the loop is working on, with the pools left
  triggers,     \* messages that touched a watched pool, per lane
  \* History, read by no action except to bound the model:
  version,      \* changes of the price book so far
  looked,       \* the version and the time when the judgement in progress began
  firstAt,      \* [lane -> event -> stamp of its first delivery]
  delivered     \* messages delivered so far

bot      == <<acted, lane_stats, judging>>
executor == <<kill_file, stats, in_broker, afterKill, trades, totals>>
loop     == <<channel, current, triggers>>
history  == <<version, looked, firstAt, delivered>>
vars     == <<now, prices, bot, duels, executor, loop, history>>

Exec == INSTANCE Executor WITH
          Modes <- {"DryRun"}, mode <- "DryRun", HasBroker <- FALSE,
          skipped <- [l \in Lanes |-> [r \in {"dry_run", "limit"} |-> 0]],
          Nets <- Nat, Balances <- {0},
          per_attempt <- 1, session_cap <- 1, max_wallet <- 0, U64Max <- 2,
          MaxOffers <- MaxDeliveries * Len(PoolBook)

Channels == {"packets", "seen"}
ChannelOf(lane) == IF lane = ShredLane THEN "packets" ELSE "seen"
NoTime == -1
Events == Sigs \X Pools

Init ==
  /\ LaneBotInit
  /\ DuelInit
  /\ Exec!Init
  /\ channel = [c \in Channels |-> <<>>]
  /\ current = [lane |-> "none", left |-> <<>>]
  /\ triggers = [l \in Lanes |-> 0]
  /\ version = 0 /\ looked = <<0, 0>> /\ delivered = 0
  /\ firstAt = [l \in Lanes |-> [k \in Events |-> NoTime]]

\* The pools a message names: on the shred lane those among the static keys of
\* the transaction, on an RPC lane the one its subscription watches, and none
\* before the subscription is acknowledged.
Named(lane, sig) ==
  IF lane = ShredLane THEN StaticKeys[sig]
  ELSE {<<>>} \cup {<<Touches[sig][i]>> : i \in DOMAIN Touches[sig]}

\* A lane receives a transaction, stamps it and sends it to the loop.
Deliver(lane, sig, touched) ==
  /\ delivered < MaxDeliveries
  /\ delivered' = delivered + 1
  /\ channel' = [channel EXCEPT ![ChannelOf(lane)] =
                   Append(@, [lane |-> lane, sig |-> sig, at |-> now, left |-> touched])]
  /\ firstAt' = [firstAt EXCEPT ![lane] = [k \in Events |->
                   IF @[k] = NoTime /\ k[1] = sig /\ k[2] \in Range(touched)
                     THEN now ELSE @[k]]]
  /\ UNCHANGED <<now, prices, bot, duels, executor, current, triggers, version, looked>>

LoopIsFree == judging = Idle /\ current.left = <<>>

\* The loop takes a message; offer_trigger counts it if it names a pool.
Take(c) ==
  /\ LoopIsFree
  /\ channel[c] # <<>>
  /\ LET m == Head(channel[c])
     IN /\ triggers' = IF m.left = <<>> THEN triggers
                       ELSE [triggers EXCEPT ![m.lane] = @ + 1]
        /\ current' = m
  /\ channel' = [channel EXCEPT ![c] = Tail(@)]
  /\ UNCHANGED <<now, prices, bot, duels, executor, history>>

\* The next pool of the message goes to the lane's bot.
JudgeNext ==
  /\ judging = Idle /\ current.left # <<>>
  /\ LET e == [lane |-> current.lane, sig |-> current.sig, at |-> current.at,
               pool |-> Head(current.left)]
     IN Duplicate(e) \/ NoPrice(e) \/ Begin(e)
  /\ current' = [current EXCEPT !.left = Tail(@)]
  /\ looked' = <<version, now>>
  /\ UNCHANGED <<now, prices, duels, executor, channel, triggers, version,
                 firstAt, delivered>>

\* on_trigger looks at the next sibling, or returns None.
JudgeOn ==
  /\ PassOver \/ Compare \/ ReturnNone
  /\ UNCHANGED <<now, prices, duels, executor, loop, history>>

\* Mutant: a find is not put to an executor while the kill file exists.
Attempt_UnlessKilled(lane, net) ==
  IF kill_file THEN UNCHANGED executor ELSE Exec!SkipDryRun(lane, net, 0)

\* The lane's executor makes an attempt and the ledger records what came of it.
Attempt(lane, net) == Exec!Refuse(lane, net, 0) \/ Exec!SkipDryRun(lane, net, 0)

\* on_trigger returns what it found: a trade is attempted and booked, and the
\* view goes to the duel book in any case.
Report ==
  /\ ReturnFound
  /\ IF Found.tradeable THEN Attempt(judging.lane, Found.net_lamports)
                        ELSE UNCHANGED executor
  /\ record_duel(judging.lane,
                 [k \in DOMAIN Found \cup {"seen_at"} |->
                    IF k = "seen_at" THEN Append(looked, version) ELSE Found[k]])
  /\ UNCHANGED <<now, prices, loop, history>>

\* The ticker's branch of the loop.
Flush ==
  /\ LoopIsFree
  /\ evict_duels(now)
  /\ UNCHANGED <<now, prices, bot, executor, loop, history>>

\* The price feed sets a price, or loses its connection.
Feed ==
  /\ version < MaxQuotes
  /\ BookNext
  /\ version' = version + 1
  /\ UNCHANGED <<now, bot, duels, executor, loop, looked, firstAt, delivered>>

Operator ==
  /\ Exec!TouchKillFile \/ Exec!RemoveKillFile
  /\ UNCHANGED <<now, prices, bot, duels, loop, history>>

Tick ==
  /\ now < MaxTime
  /\ now' = now + 1
  /\ UNCHANGED <<prices, bot, duels, executor, loop, history>>

Next ==
  \/ \E l \in Lanes, s \in Sigs : \E touched \in Named(l, s) : Deliver(l, s, touched)
  \/ \E c \in Channels : Take(c)
  \/ JudgeNext
  \/ JudgeOn
  \/ Report
  \/ Flush
  \/ Feed
  \/ Operator
  \/ Tick

Spec == Init /\ [][Next]_vars

-----------------------------------------------------------------------------
(* Properties *)

\* Every variable the loop owns holds a value of its type.
TypeOK ==
  /\ Exec!TypeOK
  /\ triggers \in [Lanes -> Nat]
  /\ DOMAIN prices \subseteq Pools
  /\ \A p \in DOMAIN prices : prices[p].price \in Quotes[p] /\ prices[p].at \in 0 .. now
  /\ \A l \in Lanes : acted[l] \subseteq Events
  /\ DOMAIN entries \subseteq Events

\* What a lane's bot calls actionable is what its executor was offered.
FindsAreOffered == \A l \in Lanes : stats[l]["offered"] = lane_stats[l].actionable

\* A find is offered to the executor and entered in the ledger exactly once:
\* what a lane's bot calls actionable, what its executor was offered and what
\* the ledger holds are the same trades, whatever the kill file does meanwhile.
FindsAreBooked ==
  /\ FindsAreOffered
  /\ totals.attempts = SumFunction([l \in Lanes |-> lane_stats[l].actionable])

\* The time an event is credited to a lane with is the stamp of that lane's
\* first delivery of it, however late the loop got round to it, however often
\* it was repeated, and even when the event was dropped from the book between.
HeadStartIsTrue ==
  \A k \in DOMAIN entries : \A l \in DOMAIN entries[k].times :
    entries[k].times[l] = firstAt[l][k]

\* Two lanes that look at the same book at the same instant see the same gap:
\* gap_lost measures the market, never a difference between the bots.
GapLostMeansMarketMoved ==
  \A k \in DOMAIN entries :
    LET views == entries[k].views
    IN \A i, j \in DOMAIN views :
         /\ views[i].seen_at = views[j].seen_at
         /\ views[i].seen_at[1] = views[i].seen_at[3]
         => views[i].gap_bps = views[j].gap_bps
=============================================================================
