--------------------------- MODULE TerminalProofs ---------------------------
(***************************************************************************)
(* Proofs about Terminal: the lanes' bots, the duel book and the loop that *)
(* feeds them, for any lanes, transactions, pools, prices, fees and costs. *)
(***************************************************************************)
EXTENDS Terminal, FiniteSetTheorems, SequenceTheorems, NaturalsInduction,
        WellFoundedInduction, TLAPS

\* A priced pool: a positive price, a fee, and an instant.
IsPriced(e) == e.price \in Nat \ {0} /\ e.fee_rate \in Nat /\ e.at \in Nat

\* The clock and the price book.
BookOK ==
  /\ now \in Nat /\ version \in Nat
  /\ DOMAIN prices \subseteq Pools
  /\ \A p \in DOMAIN prices : IsPriced(prices[p])

\* The counters of LaneStats.
Stats ==
  [seen : Nat, actionable : Nat, duplicates : Nat, no_price : Nat, implausible : Nat,
   below_cost : Nat, best_gap_bps : Nat, best_net_bps : Nat, declined : [Declines -> Nat]]

\* A message on its way to the loop, or in the loop's hands.
Message == [lane : Lanes, sig : Sigs, at : Nat, left : Seq(Pools)]

\* Every message is in the channel of its lane; the loop works on one, or on
\* none.
LoopOK ==
  /\ channel \in [Channels -> Seq(Message)]
  /\ \A c \in Channels : \A i \in DOMAIN channel[c] : ChannelOf(channel[c][i].lane) = c
  /\ current \in Message \/ current = [lane |-> "none", left |-> <<>>]

\* A judgement in progress, field by field.
JudgementFields == {"lane", "sig", "pool", "at", "now", "moved", "left", "compared",
                    "best", "widest", "route", "read"}

IsJudgement(j) ==
  /\ DOMAIN j = JudgementFields
  /\ j.lane \in Lanes /\ j.sig \in Sigs /\ j.pool \in Pools
  /\ j.at \in Nat /\ j.now \in Nat /\ IsPriced(j.moved)
  /\ j.left \subseteq Pools /\ j.compared \in Nat

\* The bots: what they have judged, their counters, and the judgement in
\* progress, whose trigger is already marked as acted on.
BotOK ==
  /\ acted \in [Lanes -> SUBSET Events]
  /\ \A l \in Lanes : IsFiniteSet(acted[l])
  /\ lane_stats \in [Lanes -> Stats]
  /\ judging # Idle => IsJudgement(judging)

\* The types the other invariants rest on.
LoopTypes == BookOK /\ LoopOK /\ BotOK

-----------------------------------------------------------------------------

\* A non-empty set of naturals has a least element.
LEMMA LeastOf ==
  ASSUME NEW S \in SUBSET Nat, S # {}
  PROVE  \E p \in S : \A q \in S : p <= q
<1>1. \A z \in Nat \X Nat : z \in OpToRel(<, Nat) <=> z[1] < z[2]
  BY Zenon DEF OpToRel
<1>2. PICK R : /\ IsWellFoundedOn(R, Nat)
               /\ \A z \in Nat \X Nat : z \in R <=> z[1] < z[2]
  BY <1>1, NatLessThanWellFounded, Zenon
<1>3. PICK p \in S : \A q \in S : <<q, p>> \notin R
  BY <1>2, WFMin
<1>4. ASSUME NEW q \in S PROVE p <= q
  <2>1. <<q, p>> \in Nat \X Nat
    OBVIOUS
  <2> QED BY <1>2, <1>3, <2>1
<1> QED BY <1>4

\* NextSibling is the first of the siblings left.
LEMMA NextSiblingIsLeft ==
  ASSUME judging.left \subseteq Pools, judging.left # {}
  PROVE  /\ NextSibling \in judging.left /\ NextSibling \in Pools
         /\ \A q \in judging.left : NextSibling <= q
<1>1. Pools \subseteq Nat
  BY PriceBookAssumption DEF Pools
<1>2. \E p \in judging.left : \A q \in judging.left : p <= q
  BY <1>1, LeastOf
<1> QED BY <1>2, Zenon DEF NextSibling

\* A priced book stays one, whatever the feed does.
LEMMA BookStep == BookOK /\ [Next]_vars => BookOK'
<1> SUFFICES ASSUME BookOK, [Next]_vars PROVE BookOK'
  OBVIOUS
<1>1. CASE Feed
  <2>1. now' = now /\ version' = version + 1 /\ BookNext
    BY <1>1 DEF Feed
  <2>2. CASE Clear
    BY <2>1, <2>2 DEF Clear, BookOK, EmptyBook
  <2>3. ASSUME NEW p \in Pools, NEW price \in Quotes[p], Quote(p, price)
        PROVE  BookOK'
    <3>1. price \in Nat \ {0} /\ fee_rate[p] \in Nat
      BY PriceBookAssumption DEF Pools
    <3>2. /\ DOMAIN prices' = DOMAIN prices \cup {p}
          /\ prices'[p] = [price |-> price, fee_rate |-> fee_rate[p], at |-> now]
          /\ \A q \in DOMAIN prices \ {p} : prices'[q] = prices[q]
      BY <2>3 DEF Quote
    <3> QED BY <2>1, <3>1, <3>2 DEF BookOK, IsPriced
  <2> QED BY <2>1, <2>2, <2>3 DEF BookNext
<1>2. CASE Tick
  BY <1>2 DEF Tick, history, BookOK, IsPriced
<1>3. CASE UNCHANGED <<now, prices, version>>
  BY <1>3 DEF BookOK, IsPriced
<1> QED
  BY <1>1, <1>2, <1>3
  DEF Next, vars, history, Deliver, Take, JudgeNext, JudgeOn, Report, Flush, Operator

\* Messages are put in the channel of their lane and taken from its head.
LEMMA LoopStep == BookOK /\ LoopOK /\ [Next]_vars => LoopOK'
<1> SUFFICES ASSUME BookOK, LoopOK, [Next]_vars PROVE LoopOK'
  OBVIOUS
<1> USE DEF LoopOK
<1>1. ASSUME NEW l \in Lanes, NEW s \in Sigs, NEW touched \in Named(l, s),
             Deliver(l, s, touched)
      PROVE  LoopOK'
  <2> DEFINE m == [lane |-> l, sig |-> s, at |-> now, left |-> touched]
             c == ChannelOf(l)
  <2>1. touched \in Seq(Pools)
    <3>1. Touches[s] \in Seq(Pools)
      BY TerminalAssumption DEF Pools
    <3>2. ASSUME NEW i \in DOMAIN Touches[s] PROVE <<Touches[s][i]>> \in Seq(Pools)
      <4>1. Touches[s][i] \in Pools
        BY <3>1
      <4> QED BY <4>1
    <3>3. \/ touched \in StaticKeys[s] \/ touched = <<>>
          \/ \E i \in DOMAIN Touches[s] : touched = <<Touches[s][i]>>
      BY Zenon DEF Named
    <3>4. <<>> \in Seq(Pools)
      OBVIOUS
    <3>5. StaticKeys[s] \subseteq Seq(Pools)
      BY TerminalAssumption DEF Pools
    <3> QED BY <3>2, <3>3, <3>4, <3>5, Zenon
  <2>2. m \in Message /\ c \in Channels /\ m.lane = l
    BY <2>1 DEF Message, BookOK, ChannelOf, Channels
  <2>3. channel' = [channel EXCEPT ![c] = Append(@, m)] /\ current' = current
    BY <1>1 DEF Deliver
  <2> HIDE DEF m
  <2>4. channel' \in [Channels -> Seq(Message)]
    BY <2>2, <2>3
  <2>5. ASSUME NEW d \in Channels, NEW i \in DOMAIN channel'[d]
        PROVE  ChannelOf(channel'[d][i].lane) = d
    <3>1. CASE d = c /\ i = Len(channel[c]) + 1
      BY <2>2, <2>3, <3>1
    <3>2. CASE ~(d = c /\ i = Len(channel[c]) + 1)
      BY <2>2, <2>3, <3>2
    <3> QED BY <3>1, <3>2
  <2> QED BY <2>3, <2>4, <2>5
<1>2. ASSUME NEW c \in Channels, Take(c) PROVE LoopOK'
  <2>1. /\ channel[c] # <<>> /\ current' = Head(channel[c])
        /\ channel' = [channel EXCEPT ![c] = Tail(@)]
    BY <1>2 DEF Take
  <2>2. current' \in Message /\ channel' \in [Channels -> Seq(Message)]
    BY <2>1
  <2>3. ASSUME NEW d \in Channels, NEW i \in DOMAIN channel'[d]
        PROVE  ChannelOf(channel'[d][i].lane) = d
    <3>1. CASE d = c
      <4>1. channel'[d] = Tail(channel[c])
        BY <2>1, <3>1
      <4>2. i + 1 \in DOMAIN channel[c] /\ channel'[d][i] = channel[c][i + 1]
        BY <2>1, <4>1
      <4> QED BY <3>1, <4>2
    <3>2. CASE d # c
      BY <2>1, <3>2
    <3> QED BY <3>1, <3>2
  <2> QED BY <2>2, <2>3
<1>3. CASE JudgeNext
  <2>1. /\ current.left # <<>> /\ channel' = channel
        /\ current' = [current EXCEPT !.left = Tail(@)]
    BY <1>3 DEF JudgeNext
  <2>2. current \in Message
    BY <2>1
  <2>3. current' \in Message
    <3>1. Tail(current.left) \in Seq(Pools)
      BY <2>1, <2>2 DEF Message
    <3>2. ASSUME NEW t \in Seq(Pools) PROVE [current EXCEPT !.left = t] \in Message
      BY <2>2 DEF Message
    <3> QED BY <2>1, <3>1, <3>2
  <2> QED BY <2>1, <2>3
<1>4. CASE UNCHANGED <<channel, current>>
  BY <1>4
<1> QED
  BY <1>1, <1>2, <1>3, <1>4
  DEF Next, vars, loop, JudgeOn, Report, Flush, Feed, Operator, Tick
\* Adding one to a counter of a lane.
LEMMA BumpEffect ==
  ASSUME lane_stats \in [Lanes -> Stats], NEW l \in Lanes,
         NEW c \in {"seen", "duplicates", "no_price", "actionable", "below_cost"}
  PROVE  /\ Bump(l, c) \in [Lanes -> Stats]
         /\ \A k \in Lanes \ {l} : Bump(l, c)[k] = lane_stats[k]
         /\ \A d \in {"seen", "no_price", "actionable", "below_cost"} :
              Bump(l, c)[l][d] = IF c = d THEN lane_stats[l][d] + 1 ELSE lane_stats[l][d]
<1> DEFINE s   == lane_stats[l]
           new == [s EXCEPT ![c] = @ + 1]
<1>1. s \in Stats
  OBVIOUS
<1>2. Bump(l, c) = [lane_stats EXCEPT ![l] = new]
  BY DEF Bump
<1>3. new \in Stats
  BY <1>1 DEF Stats
<1>4. \A d \in {"seen", "no_price", "actionable", "below_cost"} :
        new[d] = IF c = d THEN s[d] + 1 ELSE s[d]
  BY <1>1 DEF Stats
<1> HIDE DEF new
<1> QED BY <1>2, <1>3, <1>4

\* The gap between two prices is a number.
LEMMA GapIsNat ==
  ASSUME NEW one, NEW other, IsPriced(one), IsPriced(other)
  PROVE  gap_bps(one, other) \in Nat /\ fee_bps(one) \in Nat
<1>1. fee_bps(one) \in Nat
  BY DEF fee_bps, IsPriced
<1>2. ASSUME NEW a \in Nat, NEW b \in Nat \ {0}, a >= b PROVE ratio_bps(a, b) \in Nat
  BY <1>2 DEF ratio_bps
<1> QED BY <1>1, <1>2 DEF gap_bps, IsPriced

\* t is a lane's statistics with the verdicts of s.
SameVerdicts(s, t) ==
  /\ t \in Stats
  /\ t.seen = s.seen /\ t.no_price = s.no_price
  /\ t.actionable = s.actionable /\ t.below_cost = s.below_cost

\* What a comparison adds to a lane's statistics leaves the verdicts alone.
LEMMA ComparedEffect ==
  ASSUME NEW s \in Stats, NEW other, NEW gap \in Nat, NEW v1, NEW v2,
         IsPriced(judging.moved), IsPriced(other)
  PROVE  SameVerdicts(s, ComparedStats(s, other, gap, <<v1, v2>>))
<1> DEFINE verdicts == <<v1, v2>>
           net == saturating_sub(gap, fee_bps(judging.moved) + fee_bps(other))
           plausible == gap <= IMPLAUSIBLE_BPS
           refusals(why) == Cardinality({i \in DOMAIN verdicts :
                                           ~verdicts[i].ok /\ verdicts[i].why = why})
           D == [why \in Declines |-> IF why = "WrongWayRound" THEN s.declined[why]
                                       ELSE s.declined[why] + refusals(why)]
           A == IF plausible THEN AtLeast(s.best_gap_bps, gap) ELSE s.best_gap_bps
           B == IF plausible THEN AtLeast(s.best_net_bps, net) ELSE s.best_net_bps
           C == IF plausible THEN s.implausible ELSE s.implausible + 1
<1>1. ComparedStats(s, other, gap, verdicts)
        = [s EXCEPT !.best_gap_bps = A, !.best_net_bps = B, !.implausible = C, !.declined = D]
  BY DEF ComparedStats
<1>2. net \in Nat
  BY GapIsNat DEF saturating_sub
<1>3. ASSUME NEW why PROVE refusals(why) \in Nat
  <2>1. DOMAIN verdicts = 1 .. 2
    OBVIOUS
  <2>2. IsFiniteSet(1 .. 2)
    <3>1. 1 \in Int /\ 2 \in Int
      OBVIOUS
    <3> QED BY <3>1, FS_Interval, Zenon
  <2>3. IsFiniteSet({i \in DOMAIN verdicts : ~verdicts[i].ok /\ verdicts[i].why = why})
    BY <2>1, <2>2, FS_Subset
  <2> QED BY <2>3, FS_CardinalityType
<1>4. s.declined \in [Declines -> Nat] /\ s.best_gap_bps \in Nat /\ s.best_net_bps \in Nat
      /\ s.implausible \in Nat
  BY DEF Stats
<1> HIDE DEF refusals, net, verdicts
<1>5. D \in [Declines -> Nat]
  BY <1>3, <1>4
<1>6. A \in Nat /\ B \in Nat /\ C \in Nat
  BY <1>2, <1>4 DEF AtLeast
<1> HIDE DEF A, B, C, D
<1>7. SameVerdicts(s, [s EXCEPT !.best_gap_bps = A, !.best_net_bps = B,
                                !.implausible = C, !.declined = D])
  BY <1>5, <1>6 DEF Stats, SameVerdicts
<1> QED BY <1>1, <1>7 DEF verdicts
\* The trigger the loop hands to a bot.
LEMMA TriggerTyped ==
  ASSUME LoopOK, JudgeNext
  PROVE  /\ current \in Message /\ current.lane \in Lanes /\ current.at \in Nat
         /\ current.sig \in Sigs /\ Head(current.left) \in Pools
         /\ <<current.sig, Head(current.left)>> \in Events
         /\ current.left \in Seq(Pools) /\ current.left # <<>>
<1>1. current.left # <<>>
  BY DEF JudgeNext
<1>2. current \in Message
  BY <1>1 DEF LoopOK
<1> QED BY <1>1, <1>2 DEF Message, Events

\* A lane marks a trigger as acted on.
LEMMA Mark ==
  ASSUME BotOK, NEW l \in Lanes, NEW k \in Events, k \notin acted[l],
         acted' = [acted EXCEPT ![l] = @ \cup {k}]
  PROVE  /\ acted' \in [Lanes -> SUBSET Events]
         /\ \A m \in Lanes : IsFiniteSet(acted'[m])
         /\ \A m \in Lanes \ {l} : acted'[m] = acted[m]
         /\ acted'[l] = acted[l] \cup {k}
         /\ Cardinality(acted'[l]) = Cardinality(acted[l]) + 1
<1>1. /\ acted' \in [Lanes -> SUBSET Events] /\ acted'[l] = acted[l] \cup {k}
      /\ \A m \in Lanes \ {l} : acted'[m] = acted[m]
  BY DEF BotOK
<1>2. IsFiniteSet(acted[l])
  BY DEF BotOK
<1>3. /\ IsFiniteSet(acted[l] \cup {k})
      /\ Cardinality(acted[l] \cup {k}) = Cardinality(acted[l]) + 1
  BY <1>2, FS_AddElement
<1> QED BY <1>1, <1>3 DEF BotOK

\* A judgement in progress is not Idle.
LEMMA NotIdle == ASSUME NEW j, j.lane \in Lanes PROVE j # Idle
  BY LaneBotAssumption DEF Idle

\* on_trigger, up to the read of the pool that moved.
LEMMA BeginEffect ==
  ASSUME BookOK, NEW e, Begin(e), e.lane \in Lanes, e.sig \in Sigs, e.pool \in Pools,
         e.at \in Nat
  PROVE  /\ IsJudgement(judging') /\ judging' # Idle
         /\ judging'.lane = e.lane /\ judging'.sig = e.sig /\ judging'.pool = e.pool
         /\ judging'.at = e.at /\ judging'.now = now /\ judging'.moved = prices[e.pool]
         /\ judging'.left = siblings(e.pool) /\ judging'.compared = 0
         /\ judging'.best = [ok |-> FALSE] /\ judging'.widest = 0
         /\ judging'.read = [p \in {} |-> 0]
<1>1. judging' = [lane |-> e.lane, sig |-> e.sig, pool |-> e.pool, at |-> e.at,
                  now |-> now, moved |-> prices[e.pool],
                  left |-> siblings(e.pool), compared |-> 0,
                  best |-> [ok |-> FALSE], widest |-> 0, route |-> 0,
                  read |-> [p \in {} |-> 0]]
  BY DEF Begin
<1>2. IsPriced(prices[e.pool]) /\ now \in Nat /\ siblings(e.pool) \subseteq Pools
  BY DEF Begin, BookOK, siblings
<1>3. DOMAIN judging' = JudgementFields
  BY <1>1 DEF JudgementFields
<1>4. /\ judging'.lane = e.lane /\ judging'.sig = e.sig /\ judging'.pool = e.pool
      /\ judging'.at = e.at /\ judging'.now = now /\ judging'.moved = prices[e.pool]
      /\ judging'.left = siblings(e.pool) /\ judging'.compared = 0
      /\ judging'.best = [ok |-> FALSE] /\ judging'.widest = 0
      /\ judging'.read = [p \in {} |-> 0]
  BY <1>1
<1>5. judging' # Idle
  BY <1>4, NotIdle
<1> QED BY <1>2, <1>3, <1>4, <1>5 DEF IsJudgement

\* A sibling that cannot be compared is struck off, and nothing else happens.
LEMMA PassOverEffect ==
  ASSUME BotOK, PassOver
  PROVE  /\ judging # Idle /\ judging' # Idle /\ IsJudgement(judging')
         /\ NextSibling \in judging.left
         /\ judging'.left = judging.left \ {NextSibling}
         /\ \A f \in JudgementFields \ {"left"} : judging'[f] = judging[f]
<1> DEFINE rest == judging.left \ {NextSibling}
<1>1. IsJudgement(judging) /\ judging.left # {}
  BY DEF BotOK, PassOver
<1>2. NextSibling \in judging.left
  BY <1>1, NextSiblingIsLeft DEF IsJudgement
<1>3. judging' = [judging EXCEPT !.left = rest] /\ judging # Idle
  BY DEF PassOver
<1> HIDE DEF rest
<1>4. /\ DOMAIN judging' = JudgementFields
      /\ judging'.left = rest
      /\ \A f \in JudgementFields \ {"left"} : judging'[f] = judging[f]
  BY <1>1, <1>3 DEF IsJudgement, JudgementFields
<1>5. /\ judging'.lane = judging.lane /\ judging'.sig = judging.sig
      /\ judging'.pool = judging.pool /\ judging'.at = judging.at
      /\ judging'.now = judging.now /\ judging'.moved = judging.moved
      /\ judging'.compared = judging.compared
  BY <1>4 DEF JudgementFields
<1>6. IsJudgement(judging')
  BY <1>1, <1>4, <1>5 DEF IsJudgement, rest
<1>7. judging' # Idle
  BY <1>6, NotIdle DEF IsJudgement
<1> QED BY <1>2, <1>3, <1>4, <1>6, <1>7 DEF rest

\* The gap between the pool that moved and another, and the two trades open
\* between them.
Gap(j, other)  == gap_bps(j.moved, other)
Sell(j, other) == evaluate(size_lamports, j.moved, other, FALSE, j.now)
Buy(j, other)  == evaluate(size_lamports, other, j.moved, FALSE, j.now)

\* The comparison with one sibling: what is remembered of it.
LEMMA CompareEffect ==
  ASSUME BookOK, BotOK, Compare
  PROVE  LET p     == NextSibling
             other == prices[p]
             gap   == Gap(judging, other)
         IN /\ judging # Idle /\ judging' # Idle /\ IsJudgement(judging')
            /\ p \in judging.left /\ p \in DOMAIN prices /\ IsPriced(other)
            /\ fresh_enough(judging.moved, other, judging.now)
            /\ judging'.left = judging.left \ {p}
            /\ judging'.compared = judging.compared + 1
            /\ judging'.widest = IF gap > judging.widest /\ gap <= IMPLAUSIBLE_BPS
                                   THEN gap ELSE judging.widest
            /\ judging'.best = Better(Better(judging.best, Sell(judging, other), p, gap),
                                      Buy(judging, other), p, gap)
            /\ judging'.read = [q \in DOMAIN judging.read \cup {p} |->
                                  IF q = p THEN other ELSE judging.read[q]]
            /\ judging'.lane = judging.lane /\ judging'.sig = judging.sig
            /\ judging'.pool = judging.pool /\ judging'.at = judging.at
            /\ judging'.now = judging.now /\ judging'.moved = judging.moved
            /\ lane_stats' \in [Lanes -> Stats]
            /\ \A l \in Lanes \ {judging.lane} : lane_stats'[l] = lane_stats[l]
            /\ lane_stats'[judging.lane].seen = lane_stats[judging.lane].seen
            /\ lane_stats'[judging.lane].no_price = lane_stats[judging.lane].no_price
            /\ lane_stats'[judging.lane].actionable = lane_stats[judging.lane].actionable
            /\ lane_stats'[judging.lane].below_cost = lane_stats[judging.lane].below_cost
<1> DEFINE p     == NextSibling
           other == prices[p]
           gap   == Gap(judging, other)
           v1    == Sell(judging, other)
           v2    == Buy(judging, other)
           s     == ComparedStats(lane_stats[judging.lane], other, gap, <<v1, v2>>)
           wider == gap > judging.widest /\ gap <= IMPLAUSIBLE_BPS
           W     == IF wider THEN gap ELSE judging.widest
           R     == IF wider THEN p ELSE judging.route
           B     == Better(Better(judging.best, v1, p, gap), v2, p, gap)
           read  == [q \in DOMAIN judging.read \cup {p} |->
                                  IF q = p THEN other ELSE judging.read[q]]
           left  == judging.left \ {p}
<1>1. IsJudgement(judging) /\ judging.left # {} /\ judging # Idle /\ p \in DOMAIN prices
  BY DEF BotOK, Compare
<1>2. p \in judging.left
  BY <1>1, NextSiblingIsLeft DEF IsJudgement
<1>3. IsPriced(other) /\ IsPriced(judging.moved) /\ judging.lane \in Lanes
  BY <1>1 DEF BookOK, IsJudgement
<1>4. gap \in Nat
  BY <1>3, GapIsNat DEF Gap
<1>5. /\ fresh_enough(judging.moved, other, judging.now)
      /\ lane_stats' = [lane_stats EXCEPT ![judging.lane] = s]
      /\ judging' = [judging EXCEPT !.left = left, !.compared = judging.compared + 1,
                                    !.widest = W, !.route = R, !.best = B, !.read = read]
  BY DEF Compare, Gap, Sell, Buy
<1>6. lane_stats[judging.lane] \in Stats /\ lane_stats \in [Lanes -> Stats]
  BY <1>3 DEF BotOK
<1>12. s = ComparedStats(lane_stats[judging.lane], other, gap, <<v1, v2>>)
  OBVIOUS
<1> HIDE DEF v1, v2, p, other, gap, s
<1>7. /\ s \in Stats /\ s.seen = lane_stats[judging.lane].seen
      /\ s.no_price = lane_stats[judging.lane].no_price
      /\ s.actionable = lane_stats[judging.lane].actionable
      /\ s.below_cost = lane_stats[judging.lane].below_cost
  <2> DEFINE old == lane_stats[judging.lane]
  <2>1. old \in Stats /\ s = ComparedStats(old, other, gap, <<v1, v2>>)
    BY <1>6, <1>12
  <2> HIDE DEF old
  <2>2. /\ s \in Stats /\ s.seen = old.seen /\ s.no_price = old.no_price
        /\ s.actionable = old.actionable /\ s.below_cost = old.below_cost
    <3>1. SameVerdicts(old, ComparedStats(old, other, gap, <<v1, v2>>))
      BY <1>3, <1>4, <2>1, ComparedEffect, Zenon
    <3> QED BY <2>1, <3>1 DEF SameVerdicts
  <2> QED BY <2>2 DEF old
<1> HIDE DEF W, R, B, read, left
<1>8. /\ lane_stats' \in [Lanes -> Stats] /\ lane_stats'[judging.lane] = s
      /\ \A l \in Lanes \ {judging.lane} : lane_stats'[l] = lane_stats[l]
  BY <1>3, <1>5, <1>6, <1>7
<1>9. /\ DOMAIN judging' = JudgementFields
      /\ judging'.left = left /\ judging'.compared = judging.compared + 1
      /\ judging'.widest = W /\ judging'.best = B /\ judging'.read = read
      /\ judging'.lane = judging.lane /\ judging'.sig = judging.sig
      /\ judging'.pool = judging.pool /\ judging'.at = judging.at
      /\ judging'.now = judging.now /\ judging'.moved = judging.moved
  BY <1>1, <1>5 DEF IsJudgement, JudgementFields
<1>10. IsJudgement(judging')
  BY <1>1, <1>9 DEF IsJudgement, left
<1>11. judging' # Idle
  BY <1>3, <1>9, NotIdle
<1> QED BY <1>1, <1>2, <1>3, <1>5, <1>7, <1>8, <1>9, <1>10, <1>11
        DEF W, B, read, left, wider, v1, v2, p, other, gap
\* on_trigger, with no price for the pool that moved: two counters.
LEMMA NoPriceEffect ==
  ASSUME lane_stats \in [Lanes -> Stats], NEW l \in Lanes,
         lane_stats' = [lane_stats EXCEPT ![l].seen = @ + 1, ![l].no_price = @ + 1]
  PROVE  /\ lane_stats' \in [Lanes -> Stats]
         /\ \A k \in Lanes \ {l} : lane_stats'[k] = lane_stats[k]
         /\ lane_stats'[l].seen = lane_stats[l].seen + 1
         /\ lane_stats'[l].no_price = lane_stats[l].no_price + 1
         /\ lane_stats'[l].actionable = lane_stats[l].actionable
         /\ lane_stats'[l].below_cost = lane_stats[l].below_cost
<1> DEFINE s   == lane_stats[l]
           new == [s EXCEPT !.seen = @ + 1, !.no_price = @ + 1]
<1>1. s \in Stats
  OBVIOUS
<1>2. lane_stats' = [lane_stats EXCEPT ![l] = new]
  OBVIOUS
<1>3. new \in Stats
  BY <1>1 DEF Stats
<1>4. /\ new.seen = s.seen + 1 /\ new.no_price = s.no_price + 1
      /\ new.actionable = s.actionable /\ new.below_cost = s.below_cost
  BY <1>1 DEF Stats
<1> HIDE DEF new
<1> QED BY <1>2, <1>3, <1>4

\* The verdicts of one lane add up.
AddsUp(s, done, open) ==
  s.seen = Cardinality(done) /\ s.seen = s.no_price + s.below_cost + s.actionable + open

\* The counters and the triggers a lane has acted on, after every step.
LEMMA BotStep ==
  LoopTypes /\ VerdictsAddUp /\ [Next]_vars => BotOK' /\ VerdictsAddUp'
<1> SUFFICES ASSUME LoopTypes, VerdictsAddUp, [Next]_vars PROVE BotOK' /\ VerdictsAddUp'
  OBVIOUS
<1> DEFINE Open(l) == IF judging.lane = l THEN 1 ELSE 0
<1>1. BookOK /\ LoopOK /\ BotOK
  BY DEF LoopTypes
<1>2. \A l \in Lanes : AddsUp(lane_stats[l], acted[l], Open(l))
  BY DEF VerdictsAddUp, AddsUp
<1>3. SUFFICES BotOK' /\ \A l \in Lanes :
                 AddsUp(lane_stats'[l], acted'[l], IF judging'.lane = l THEN 1 ELSE 0)
  BY DEF VerdictsAddUp, AddsUp
<1>4. \A l \in Lanes : /\ lane_stats[l].seen \in Nat /\ lane_stats[l].no_price \in Nat
                       /\ lane_stats[l].below_cost \in Nat
                       /\ lane_stats[l].actionable \in Nat
  BY <1>1 DEF BotOK, Stats
<1>5. \A l \in Lanes : Idle.lane # l
  BY LaneBotAssumption DEF Idle
<1>6. CASE JudgeNext
  <2> DEFINE e == [lane |-> current.lane, sig |-> current.sig, at |-> current.at,
                   pool |-> Head(current.left)]
             k == <<current.sig, Head(current.left)>>
  <2>1. /\ e.lane \in Lanes /\ e.sig \in Sigs /\ e.pool \in Pools /\ e.at \in Nat
        /\ k \in Events /\ k = <<e.sig, e.pool>>
    BY <1>1, <1>6, TriggerTyped
  <2>2. judging = Idle /\ (Duplicate(e) \/ NoPrice(e) \/ Begin(e))
    BY <1>6 DEF JudgeNext
  <2> HIDE DEF e, k
  <2>3. CASE Duplicate(e)
    <3>1. lane_stats' = Bump(e.lane, "duplicates") /\ acted' = acted /\ judging' = judging
      BY <2>3 DEF Duplicate
    <3>2. /\ lane_stats' \in [Lanes -> Stats]
          /\ \A l \in Lanes \ {e.lane} : lane_stats'[l] = lane_stats[l]
          /\ \A d \in {"seen", "no_price", "actionable", "below_cost"} :
               lane_stats'[e.lane][d] = lane_stats[e.lane][d]
      BY <1>1, <2>1, <3>1, BumpEffect DEF BotOK
    <3>3. BotOK'
      BY <1>1, <3>1, <3>2 DEF BotOK, IsJudgement, IsPriced
    <3> QED BY <1>2, <2>1, <3>1, <3>2, <3>3 DEF AddsUp
  <2>4. CASE NoPrice(e)
    <3>1. /\ k \notin acted[e.lane] /\ acted' = [acted EXCEPT ![e.lane] = @ \cup {k}]
          /\ lane_stats' = [lane_stats EXCEPT ![e.lane].seen = @ + 1,
                                              ![e.lane].no_price = @ + 1]
          /\ judging' = judging
      BY <2>1, <2>4 DEF NoPrice
    <3>2. /\ acted' \in [Lanes -> SUBSET Events]
          /\ \A m \in Lanes : IsFiniteSet(acted'[m])
          /\ \A m \in Lanes \ {e.lane} : acted'[m] = acted[m]
          /\ Cardinality(acted'[e.lane]) = Cardinality(acted[e.lane]) + 1
      BY <1>1, <2>1, <3>1, Mark
    <3>3. /\ lane_stats' \in [Lanes -> Stats]
          /\ \A l \in Lanes \ {e.lane} : lane_stats'[l] = lane_stats[l]
          /\ lane_stats'[e.lane].seen = lane_stats[e.lane].seen + 1
          /\ lane_stats'[e.lane].no_price = lane_stats[e.lane].no_price + 1
          /\ lane_stats'[e.lane].actionable = lane_stats[e.lane].actionable
          /\ lane_stats'[e.lane].below_cost = lane_stats[e.lane].below_cost
      BY <1>1, <2>1, <3>1, NoPriceEffect DEF BotOK
    <3>4. BotOK'
      BY <1>1, <2>2, <3>1, <3>2, <3>3 DEF BotOK
    <3>5. AddsUp(lane_stats[e.lane], acted[e.lane], 0)
      BY <1>2, <1>5, <2>1, <2>2
    <3>6. AddsUp(lane_stats'[e.lane], acted'[e.lane], 0)
      BY <1>4, <2>1, <3>2, <3>3, <3>5 DEF AddsUp
    <3> QED BY <1>2, <1>5, <2>1, <2>2, <3>1, <3>2, <3>3, <3>4, <3>6
  <2>5. CASE Begin(e)
    <3>1. /\ k \notin acted[e.lane] /\ acted' = [acted EXCEPT ![e.lane] = @ \cup {k}]
          /\ lane_stats' = Bump(e.lane, "seen")
      BY <2>1, <2>5 DEF Begin
    <3>2. /\ acted' \in [Lanes -> SUBSET Events]
          /\ \A m \in Lanes : IsFiniteSet(acted'[m])
          /\ \A m \in Lanes \ {e.lane} : acted'[m] = acted[m]
          /\ Cardinality(acted'[e.lane]) = Cardinality(acted[e.lane]) + 1
      BY <1>1, <2>1, <3>1, Mark
    <3>3. /\ lane_stats' \in [Lanes -> Stats]
          /\ \A l \in Lanes \ {e.lane} : lane_stats'[l] = lane_stats[l]
          /\ lane_stats'[e.lane].seen = lane_stats[e.lane].seen + 1
          /\ lane_stats'[e.lane].no_price = lane_stats[e.lane].no_price
          /\ lane_stats'[e.lane].actionable = lane_stats[e.lane].actionable
          /\ lane_stats'[e.lane].below_cost = lane_stats[e.lane].below_cost
      BY <1>1, <2>1, <3>1, BumpEffect DEF BotOK
    <3>4. IsJudgement(judging') /\ judging'.lane = e.lane
      BY <1>1, <2>1, <2>5, BeginEffect
    <3>5. BotOK'
      BY <3>2, <3>3, <3>4 DEF BotOK, IsJudgement, IsPriced
    <3> QED BY <1>2, <1>4, <1>5, <2>1, <2>2, <3>2, <3>3, <3>4, <3>5 DEF AddsUp
  <2> QED BY <2>2, <2>3, <2>4, <2>5
<1>7. CASE JudgeOn /\ PassOver
  <2>1. acted' = acted /\ lane_stats' = lane_stats
    BY <1>7 DEF PassOver
  <2>2. IsJudgement(judging') /\ judging'.lane = judging.lane
    BY <1>1, <1>7, PassOverEffect DEF JudgementFields
  <2>3. BotOK'
    BY <1>1, <2>1, <2>2 DEF BotOK, IsJudgement, IsPriced
  <2> QED BY <1>2, <2>1, <2>2, <2>3
<1>8. CASE JudgeOn /\ Compare
  <2>1. acted' = acted
    BY <1>8 DEF Compare
  <2>2. /\ IsJudgement(judging') /\ judging'.lane = judging.lane
        /\ lane_stats' \in [Lanes -> Stats]
        /\ \A l \in Lanes \ {judging.lane} : lane_stats'[l] = lane_stats[l]
        /\ lane_stats'[judging.lane].seen = lane_stats[judging.lane].seen
        /\ lane_stats'[judging.lane].no_price = lane_stats[judging.lane].no_price
        /\ lane_stats'[judging.lane].actionable = lane_stats[judging.lane].actionable
        /\ lane_stats'[judging.lane].below_cost = lane_stats[judging.lane].below_cost
    BY <1>1, <1>8, CompareEffect
  <2>3. BotOK'
    BY <1>1, <2>1, <2>2 DEF BotOK, IsJudgement, IsPriced
  <2> QED BY <1>2, <2>1, <2>2, <2>3 DEF AddsUp
<1>9. ASSUME NEW c \in {"no_price", "actionable", "below_cost"}, judging # Idle,
             lane_stats' = Bump(judging.lane, c), judging' = Idle, acted' = acted
      PROVE  BotOK' /\ \A l \in Lanes :
               AddsUp(lane_stats'[l], acted'[l], IF judging'.lane = l THEN 1 ELSE 0)
  <2>1. judging.lane \in Lanes /\ lane_stats \in [Lanes -> Stats]
    BY <1>1, <1>9 DEF BotOK, IsJudgement
  <2>2. /\ lane_stats' \in [Lanes -> Stats]
        /\ \A l \in Lanes \ {judging.lane} : lane_stats'[l] = lane_stats[l]
        /\ \A d \in {"seen", "no_price", "actionable", "below_cost"} :
             lane_stats'[judging.lane][d] = IF c = d THEN lane_stats[judging.lane][d] + 1
                                                     ELSE lane_stats[judging.lane][d]
    BY <1>9, <2>1, BumpEffect
  <2>3. BotOK'
    BY <1>1, <1>9, <2>2 DEF BotOK
  <2>4. AddsUp(lane_stats'[judging.lane], acted'[judging.lane], 0)
    <3> DEFINE s == lane_stats[judging.lane]
               t == lane_stats'[judging.lane]
    <3>1. AddsUp(s, acted[judging.lane], 1)
      BY <1>2, <2>1
    <3>2. /\ t.seen = s.seen
          /\ t.no_price = IF c = "no_price" THEN s.no_price + 1 ELSE s.no_price
          /\ t.actionable = IF c = "actionable" THEN s.actionable + 1 ELSE s.actionable
          /\ t.below_cost = IF c = "below_cost" THEN s.below_cost + 1 ELSE s.below_cost
      BY <2>2
    <3>3. /\ s.seen \in Nat /\ s.no_price \in Nat /\ s.below_cost \in Nat
          /\ s.actionable \in Nat
      BY <1>4, <2>1
    <3> HIDE DEF s, t
    <3>4. ASSUME NEW done, AddsUp(s, done, 1) PROVE AddsUp(t, done, 0)
      BY <3>2, <3>3, <3>4 DEF AddsUp
    <3>5. AddsUp(t, acted[judging.lane], 0)
      BY <3>1, <3>4
    <3> QED BY <1>9, <3>5 DEF t
  <2> QED BY <1>2, <1>5, <1>9, <2>1, <2>2, <2>3, <2>4
<1>10. CASE JudgeOn /\ ReturnNone
  BY <1>9, <1>10 DEF ReturnNone, Judged
<1>11. CASE Report
  BY <1>9, <1>11 DEF Report, ReturnFound, Judged
<1>12. CASE UNCHANGED bot
  BY <1>1, <1>2, <1>12 DEF bot, BotOK, IsJudgement, IsPriced
<1> QED
  BY <1>6, <1>7, <1>8, <1>10, <1>11, <1>12
  DEF Next, vars, JudgeOn, Deliver, Take, Flush, Feed, Operator, Tick
\* The loop, the book and the bots start well.
LEMMA TypesInit == Init => LoopTypes /\ VerdictsAddUp
<1> SUFFICES ASSUME Init PROVE LoopTypes /\ VerdictsAddUp
  OBVIOUS
<1>1. /\ now = 0 /\ prices = EmptyBook /\ acted = [l \in Lanes |-> {}]
      /\ lane_stats = [l \in Lanes |-> NoStats] /\ judging = Idle /\ version = 0
      /\ channel = [c \in Channels |-> <<>>]
      /\ current = [lane |-> "none", left |-> <<>>]
  BY DEF Init, LaneBotInit
<1>2. BookOK
  BY <1>1 DEF BookOK, EmptyBook
<1>3. LoopOK
  BY <1>1 DEF LoopOK
<1>4. NoStats \in Stats
  BY DEF NoStats, Stats
<1>5. IsFiniteSet({}) /\ Cardinality({}) = 0
  BY FS_EmptySet
<1>6. BotOK
  BY <1>1, <1>4, <1>5 DEF BotOK
<1>7. \A l \in Lanes : judging.lane # l
  BY <1>1, LaneBotAssumption DEF Idle
<1>8. VerdictsAddUp
  BY <1>1, <1>5, <1>7 DEF VerdictsAddUp, NoStats
<1> QED BY <1>2, <1>3, <1>6, <1>8 DEF LoopTypes

\* The loop, the book and the bots hold values of their types, and every
\* message waits in its lane's channel.
THEOREM TerminalTypes == Spec => [](LoopTypes /\ VerdictsAddUp)
<1>1. LoopTypes /\ VerdictsAddUp /\ [Next]_vars => (LoopTypes /\ VerdictsAddUp)'
  BY BookStep, LoopStep, BotStep DEF LoopTypes
<1> QED BY TypesInit, <1>1, PTL DEF Spec

\* on_trigger loses no trigger: each one a lane has seen was judged once and
\* counted under exactly one verdict, or is being judged.
THEOREM TerminalVerdictsAddUp == Spec => []VerdictsAddUp
  BY TerminalTypes, PTL
-----------------------------------------------------------------------------
(* What a judgement has found so far *)

\* The trades open between the pool that moved and another.
Open(j, other) == {v \in {Sell(j, other), Buy(j, other)} : v.ok}

\* The trades open among the pools compared: pool, gap, what it would earn.
Offers(j) ==
  {z \in Pools \X Nat \X Int :
     /\ z[1] \in DOMAIN j.read
     /\ z[2] = Gap(j, j.read[z[1]])
     /\ \E v \in Open(j, j.read[z[1]]) : v.net_lamports = z[3]}

\* b is the first of the offers that earn the most, or says there is none.
BestOf(b, offers) ==
  /\ ~b.ok => offers = {}
  /\ b.ok => /\ <<b.with, b.gap, b.net_lamports>> \in offers
             /\ \A z \in offers : /\ z[3] <= b.net_lamports
                                  /\ z[1] < b.with => z[3] < b.net_lamports

\* w is the widest plausible gap among the pools compared, or 0.
WidestOf(w, j) ==
  /\ \A p \in DOMAIN j.read :
       Gap(j, j.read[p]) <= IMPLAUSIBLE_BPS => Gap(j, j.read[p]) <= w
  /\ w = 0 \/ \E p \in DOMAIN j.read : Gap(j, j.read[p]) <= IMPLAUSIBLE_BPS
                                       /\ Gap(j, j.read[p]) = w

\* A judgement in progress: the siblings come in the order of the pool book,
\* and what is kept is the best and the widest of those compared.
JudgementSound(j) ==
  /\ DOMAIN j.read \subseteq Pools
  /\ \A p \in DOMAIN j.read : IsPriced(j.read[p])
  /\ \A p \in DOMAIN j.read, q \in j.left : p < q
  /\ j.widest \in Nat /\ WidestOf(j.widest, j)
  /\ j.best.ok \in BOOLEAN /\ BestOf(j.best, Offers(j))

SoundInv == judging # Idle => JudgementSound(judging)

\* What an accepted trade earns is a number.
LEMMA NetIsNat ==
  ASSUME NEW j, NEW other, IsPriced(j.moved), IsPriced(other), NEW v \in Open(j, other)
  PROVE  v.net_lamports \in Nat
<1>1. ASSUME NEW sell, NEW buy, IsPriced(sell), IsPriced(buy), NEW t,
             evaluate(size_lamports, sell, buy, FALSE, t).ok
      PROVE  evaluate(size_lamports, sell, buy, FALSE, t).net_lamports \in Nat
  <2>1. fee_bps(sell) \in Nat /\ fee_bps(buy) \in Nat
    BY <1>1, GapIsNat
  <2>2. ratio_bps(sell.price, buy.price) \in Int
    BY <1>1 DEF ratio_bps, IsPriced
  <2>3. net_bps(sell, buy) \in Int
    BY <2>1, <2>2 DEF net_bps
  <2>4. size_lamports * net_bps(sell, buy) \in Int
    BY <2>3, LaneBotAssumption
  <2>5. net_lamports(size_lamports, sell, buy) \in Nat
    BY <2>4, ArbAssumption DEF net_lamports, saturating_sub
  <2> QED BY <1>1, <2>5 DEF evaluate
<1> QED BY <1>1 DEF Open, Sell, Buy

\* Better keeps the best of the offers when one more comes, of a pool that is
\* not before the others.
LEMMA BetterKeeps ==
  ASSUME NEW b, NEW T \in SUBSET (Pools \X Nat \X Int), NEW v, NEW p \in Pools,
         NEW gap \in Nat, BestOf(b, T), \A z \in T : z[1] <= p,
         v.ok => v.net_lamports \in Int
  PROVE  BestOf(Better(b, v, p, gap),
                IF v.ok THEN T \cup {<<p, gap, v.net_lamports>>} ELSE T)
<1> DEFINE n == v.net_lamports
           z == <<p, gap, n>>
<1>0. Pools \subseteq Nat
  BY PriceBookAssumption DEF Pools
<1>1. CASE ~v.ok
  BY <1>1 DEF Better
<1>2. CASE v.ok /\ (b.ok => n > b.net_lamports)
  <2>1. Better(b, v, p, gap) = [ok |-> TRUE, net_lamports |-> n, gap |-> gap, with |-> p]
    BY <1>2 DEF Better
  <2>2. ASSUME NEW y \in T PROVE y[3] < n
    <3>1. b.ok /\ y[3] <= b.net_lamports /\ <<b.with, b.gap, b.net_lamports>> \in T
      BY DEF BestOf
    <3>2. b.net_lamports \in Int /\ y[3] \in Int
      BY <3>1
    <3> QED BY <1>2, <3>1, <3>2
  <2>3. \A y \in T \cup {z} : y[3] <= n /\ (y[1] < p => y[3] < n)
    BY <1>0, <1>2, <2>2
  <2> QED BY <1>2, <2>1, <2>3 DEF BestOf
<1>3. CASE v.ok /\ b.ok /\ ~(n > b.net_lamports)
  <2>1. Better(b, v, p, gap) = b
    BY <1>3 DEF Better
  <2>2. /\ <<b.with, b.gap, b.net_lamports>> \in T
        /\ \A y \in T : y[3] <= b.net_lamports /\ (y[1] < b.with => y[3] < b.net_lamports)
    BY <1>3 DEF BestOf
  <2>3. b.with <= p /\ b.with \in Nat /\ b.net_lamports \in Int
    BY <1>0, <2>2
  <2>4. z[3] <= b.net_lamports /\ ~(z[1] < b.with)
    BY <1>0, <1>3, <2>3
  <2> QED BY <1>3, <2>1, <2>2, <2>4 DEF BestOf
<1> QED BY <1>1, <1>2, <1>3
\* A judgement j grows by the comparison with pool p into k.
Grows(j, k, p, other) ==
  /\ p \in j.left /\ \A q \in j.left : p <= q
  /\ k.left = j.left \ {p} /\ k.moved = j.moved /\ k.now = j.now
  /\ k.widest = (IF Gap(j, other) > j.widest /\ Gap(j, other) <= IMPLAUSIBLE_BPS
                   THEN Gap(j, other) ELSE j.widest)
  /\ k.best = Better(Better(j.best, Sell(j, other), p, Gap(j, other)),
                     Buy(j, other), p, Gap(j, other))
  /\ k.read = [q \in DOMAIN j.read \cup {p} |-> IF q = p THEN other ELSE j.read[q]]

\* Growing keeps a judgement sound.
LEMMA GrowSound ==
  ASSUME NEW j, NEW k, NEW p \in Pools, NEW other, JudgementSound(j),
         IsPriced(other), IsPriced(j.moved), j.left \subseteq Pools, Grows(j, k, p, other)
  PROVE  JudgementSound(k)
<1> DEFINE gap == Gap(j, other)
           v1  == Sell(j, other)
           v2  == Buy(j, other)
           T0  == Offers(j)
           T1  == IF v1.ok THEN T0 \cup {<<p, gap, v1.net_lamports>>} ELSE T0
           T2  == IF v2.ok THEN T1 \cup {<<p, gap, v2.net_lamports>>} ELSE T1
           b1  == Better(j.best, v1, p, gap)
           b2  == Better(b1, v2, p, gap)
<1>0. Pools \subseteq Nat
  BY PriceBookAssumption DEF Pools
<1>1. gap \in Nat
  BY GapIsNat DEF Gap
<1>2. \A q \in DOMAIN j.read : q < p
  BY DEF JudgementSound, Grows
<1>3. p \notin DOMAIN j.read
  BY <1>0, <1>2
<1>4. /\ DOMAIN k.read = DOMAIN j.read \cup {p} /\ k.read[p] = other
      /\ \A q \in DOMAIN j.read : k.read[q] = j.read[q]
  BY <1>3 DEF Grows
<1>5. \A o : Gap(k, o) = Gap(j, o) /\ Open(k, o) = Open(j, o)
  BY DEF Grows, Gap, Open, Sell, Buy
<1>6. (v1.ok => v1.net_lamports \in Int) /\ (v2.ok => v2.net_lamports \in Int)
  BY NetIsNat DEF Open
<1>7. T0 \in SUBSET (Pools \X Nat \X Int) /\ \A z \in T0 : z[1] <= p
  <2>1. T0 \subseteq Pools \X Nat \X Int /\ \A z \in T0 : z[1] \in DOMAIN j.read
    BY DEF Offers
  <2> HIDE DEF T0
  <2>2. ASSUME NEW z \in T0 PROVE z[1] <= p
    <3>1. z[1] \in Nat /\ p \in Nat /\ z[1] < p
      BY <1>0, <1>2, <2>1 DEF JudgementSound
    <3> QED BY <3>1
  <2> QED BY <2>1, <2>2
<1>8. k.best = b2 /\ BestOf(j.best, T0)
  BY DEF Grows, JudgementSound
<1>9. Open(j, other) = {v \in {v1, v2} : v.ok}
  BY DEF Open
<1>10. Offers(k) = T2
  <2>1. ASSUME NEW z \in Offers(k) PROVE z \in T2
    <3>1. /\ z \in Pools \X Nat \X Int /\ z[1] \in DOMAIN j.read \cup {p}
          /\ z[2] = Gap(j, k.read[z[1]])
          /\ \E v \in Open(j, k.read[z[1]]) : v.net_lamports = z[3]
      BY <1>4, <1>5 DEF Offers
    <3>2. CASE z[1] = p
      <4>1. z[2] = gap /\ \E v \in Open(j, other) : v.net_lamports = z[3]
        BY <1>4, <3>1, <3>2
      <4>2. PICK v \in {v1, v2} : v.ok /\ v.net_lamports = z[3]
        BY <1>9, <4>1
      <4>3. z = <<p, gap, v.net_lamports>>
        BY <3>1, <3>2, <4>1, <4>2
      <4> QED BY <4>2, <4>3
    <3>3. CASE z[1] # p
      <4>1. z \in T0
        BY <1>4, <3>1, <3>3 DEF Offers
      <4> QED BY <4>1
    <3> QED BY <3>2, <3>3
  <2>2. ASSUME NEW z \in T2 PROVE z \in Offers(k)
    <3>1. CASE z \in T0
      BY <1>4, <1>5, <3>1 DEF Offers
    <3>2. ASSUME NEW v \in {v1, v2}, v.ok, z = <<p, gap, v.net_lamports>>
          PROVE  z \in Offers(k)
      <4>1. v \in Open(j, other) /\ v.net_lamports \in Int
        BY <1>6, <1>9, <3>2
      <4>2. z \in Pools \X Nat \X Int /\ z[1] = p /\ z[2] = gap /\ z[3] = v.net_lamports
        BY <1>1, <3>2, <4>1
      <4> QED BY <1>4, <1>5, <4>1, <4>2 DEF Offers
    <3> QED BY <3>1, <3>2
  <2> QED BY <2>1, <2>2
<1> HIDE DEF v1, v2, gap, T0
<1>11. BestOf(b1, T1)
  BY <1>1, <1>6, <1>7, <1>8, BetterKeeps
<1>12. T1 \in SUBSET (Pools \X Nat \X Int) /\ \A z \in T1 : z[1] <= p
  BY <1>0, <1>1, <1>6, <1>7
<1> HIDE DEF b1, T1
<1>13. BestOf(b2, T2)
  BY <1>1, <1>6, <1>11, <1>12, BetterKeeps
<1>14. BestOf(k.best, Offers(k))
  BY <1>8, <1>10, <1>13
<1>21. k.best.ok \in BOOLEAN
  <2>1. j.best.ok \in BOOLEAN
    BY DEF JudgementSound
  <2>2. b1.ok \in BOOLEAN
    BY <2>1 DEF b1, Better
  <2>3. b2.ok \in BOOLEAN
    BY <2>2 DEF Better
  <2> QED BY <1>8, <2>3
<1>15. /\ j.widest \in Nat /\ WidestOf(j.widest, j)
       /\ k.widest = IF gap > j.widest /\ gap <= IMPLAUSIBLE_BPS THEN gap ELSE j.widest
  BY DEF JudgementSound, Grows, gap
<1>16. \A q \in DOMAIN j.read : Gap(j, j.read[q]) \in Nat
  BY GapIsNat DEF Gap, JudgementSound
<1>17. Gap(j, other) = gap
  BY DEF gap
<1>18. k.widest \in Nat /\ WidestOf(k.widest, k)
  <2>1. k.widest \in Nat /\ j.widest <= k.widest
    BY <1>1, <1>15
  <2>2. ASSUME NEW q \in DOMAIN k.read, Gap(k, k.read[q]) <= IMPLAUSIBLE_BPS
        PROVE  Gap(k, k.read[q]) <= k.widest
    <3>1. CASE q = p
      BY <1>1, <1>4, <1>5, <1>15, <1>17, <2>2, <3>1
    <3>2. CASE q # p
      <4>1. q \in DOMAIN j.read /\ Gap(k, k.read[q]) = Gap(j, j.read[q])
        BY <1>4, <1>5, <3>2
      <4>2. Gap(j, j.read[q]) <= j.widest
        BY <1>15, <2>2, <4>1 DEF WidestOf
      <4> QED BY <1>15, <1>16, <2>1, <4>1, <4>2
    <3> QED BY <3>1, <3>2
  <2>3. k.widest = 0 \/ \E q \in DOMAIN k.read : Gap(k, k.read[q]) <= IMPLAUSIBLE_BPS
                                                 /\ Gap(k, k.read[q]) = k.widest
    <3>1. CASE gap > j.widest /\ gap <= IMPLAUSIBLE_BPS
      BY <1>4, <1>5, <1>15, <1>17, <3>1
    <3>2. CASE ~(gap > j.widest /\ gap <= IMPLAUSIBLE_BPS)
      <4>1. k.widest = j.widest
        BY <1>15, <3>2
      <4>2. CASE j.widest # 0
        <5>1. PICK q \in DOMAIN j.read : Gap(j, j.read[q]) <= IMPLAUSIBLE_BPS
                                         /\ Gap(j, j.read[q]) = j.widest
          BY <1>15, <4>2 DEF WidestOf
        <5> QED BY <1>4, <1>5, <4>1, <5>1
      <4> QED BY <4>1, <4>2
    <3> QED BY <3>1, <3>2
  <2> QED BY <2>1, <2>2, <2>3 DEF WidestOf
<1>19. \A q \in DOMAIN k.read, r \in k.left : q < r
  <2>1. ASSUME NEW q \in DOMAIN k.read, NEW r \in k.left PROVE q < r
    <3>1. r \in j.left /\ r # p /\ p <= r /\ p \in Nat /\ r \in Nat
      BY <1>0 DEF Grows
    <3> QED BY <1>2, <1>4, <3>1 DEF JudgementSound
  <2> QED BY <2>1
<1>20. DOMAIN k.read \subseteq Pools /\ \A q \in DOMAIN k.read : IsPriced(k.read[q])
  BY <1>4 DEF JudgementSound
<1> QED BY <1>14, <1>18, <1>19, <1>20, <1>21 DEF JudgementSound
\* Every step keeps the judgement in progress sound.
LEMMA SoundStep == LoopTypes /\ SoundInv /\ [Next]_vars => SoundInv'
<1> SUFFICES ASSUME LoopTypes, SoundInv, [Next]_vars PROVE SoundInv'
  OBVIOUS
<1>1. BookOK /\ LoopOK /\ BotOK
  BY DEF LoopTypes
<1>2. CASE JudgeNext
  <2> DEFINE e == [lane |-> current.lane, sig |-> current.sig, at |-> current.at,
                   pool |-> Head(current.left)]
  <2>1. e.lane \in Lanes /\ e.sig \in Sigs /\ e.pool \in Pools /\ e.at \in Nat
    BY <1>1, <1>2, TriggerTyped
  <2>2. judging = Idle /\ (Duplicate(e) \/ NoPrice(e) \/ Begin(e))
    BY <1>2 DEF JudgeNext
  <2> HIDE DEF e
  <2>3. CASE Duplicate(e) \/ NoPrice(e)
    BY <2>2, <2>3 DEF Duplicate, NoPrice, SoundInv
  <2>4. CASE Begin(e)
    <3>1. /\ judging'.best = [ok |-> FALSE] /\ judging'.widest = 0
          /\ judging'.read = [p \in {} |-> 0]
      BY <1>1, <2>1, <2>4, BeginEffect
    <3>2. ASSUME NEW j, j.best = [ok |-> FALSE], j.widest = 0, j.read = [p \in {} |-> 0]
          PROVE  JudgementSound(j)
      <4>1. DOMAIN j.read = {} /\ ~j.best.ok /\ j.best.ok \in BOOLEAN
        BY <3>2
      <4>2. Offers(j) = {}
        BY <4>1 DEF Offers
      <4> QED BY <3>2, <4>1, <4>2 DEF JudgementSound, WidestOf, BestOf
    <3>3. JudgementSound(judging')
      BY <3>1, <3>2
    <3> QED BY <3>3 DEF SoundInv
  <2> QED BY <2>2, <2>3, <2>4
<1>3. CASE JudgeOn /\ PassOver
  <2>1. /\ judging # Idle /\ judging'.left = judging.left \ {NextSibling}
        /\ judging'.read = judging.read /\ judging'.moved = judging.moved
        /\ judging'.now = judging.now /\ judging'.best = judging.best
        /\ judging'.widest = judging.widest
    BY <1>1, <1>3, PassOverEffect DEF JudgementFields
  <2>2. ASSUME NEW j, NEW k, JudgementSound(j), k.left \subseteq j.left, k.read = j.read,
               k.moved = j.moved, k.now = j.now, k.best = j.best, k.widest = j.widest
        PROVE  JudgementSound(k)
    <3>1. \A o : Gap(k, o) = Gap(j, o) /\ Open(k, o) = Open(j, o)
      BY <2>2 DEF Gap, Open, Sell, Buy
    <3>2. Offers(k) = Offers(j)
      BY <2>2, <3>1 DEF Offers
    <3>3. WidestOf(k.widest, k)
      BY <2>2, <3>1 DEF WidestOf, JudgementSound
    <3> QED BY <2>2, <3>2, <3>3 DEF JudgementSound
  <2>3. JudgementSound(judging) /\ judging'.left \subseteq judging.left
    BY <2>1 DEF SoundInv
  <2>4. JudgementSound(judging')
    BY <2>1, <2>2, <2>3
  <2> QED BY <2>4 DEF SoundInv
<1>4. CASE JudgeOn /\ Compare
  <2>1. judging # Idle /\ judging.left # {}
    BY <1>4 DEF Compare
  <2>2. IsJudgement(judging) /\ JudgementSound(judging)
    BY <1>1, <2>1 DEF BotOK, SoundInv
  <2>3. NextSibling \in Pools /\ \A q \in judging.left : NextSibling <= q
    BY <2>1, <2>2, NextSiblingIsLeft DEF IsJudgement
  <2>4. IsPriced(prices[NextSibling]) /\ IsPriced(judging.moved) /\ judging.left \subseteq Pools
    BY <1>1, <1>4, <2>2 DEF Compare, BookOK, IsJudgement
  <2>5. Grows(judging, judging', NextSibling, prices[NextSibling])
    BY <1>1, <1>4, <2>3, CompareEffect DEF Grows
  <2>6. JudgementSound(judging')
    BY <2>2, <2>3, <2>4, <2>5, GrowSound
  <2> QED BY <2>6 DEF SoundInv
<1>5. CASE judging' = Idle
  BY <1>5 DEF SoundInv
<1>6. CASE judging' = judging
  BY <1>6 DEF SoundInv
<1> QED
  BY <1>2, <1>3, <1>4, <1>5, <1>6
  DEF Next, vars, bot, JudgeOn, ReturnNone, Report, ReturnFound, Deliver, Take, Flush, Feed,
      Operator, Tick
\* What on_trigger reports is what a reader of the prices it read would work
\* out, however the book changed between the reads: the most profitable of the
\* trades open among the pools compared, with the gap of those two pools, or
\* else the widest plausible gap.
THEOREM TerminalFoundIsBest == Spec => []FoundIsBest
<1>1. Init => SoundInv
  BY DEF Init, LaneBotInit, SoundInv
<1>2. LoopTypes /\ SoundInv => FoundIsBest
  <2> SUFFICES ASSUME LoopTypes, SoundInv, Judged, judging.compared > 0
               PROVE  FoundIsBest
    BY DEF FoundIsBest
  <2> DEFINE compared == DOMAIN judging.read
             gap(p)   == gap_bps(judging.moved, judging.read[p])
             trades_with(p) ==
               {v \in {evaluate(size_lamports, judging.moved, judging.read[p], FALSE, judging.now),
                       evaluate(size_lamports, judging.read[p], judging.moved, FALSE, judging.now)} :
                  v.ok}
             plausible == {gap(p) : p \in {q \in compared : gap(q) <= IMPLAUSIBLE_BPS}}
             None == /\ ~Found.tradeable
                     /\ \A g \in plausible : g <= Found.gap_bps
                     /\ Found.gap_bps \in plausible \cup {0}
             Some == /\ Found.tradeable
                     /\ \A p \in compared : \A v \in trades_with(p) :
                          v.net_lamports <= Found.net_lamports
                     /\ \E p \in compared : \E v \in trades_with(p) :
                          /\ v.net_lamports = Found.net_lamports
                          /\ gap(p) = Found.gap_bps
  <2>1. JudgementSound(judging) /\ IsJudgement(judging)
    BY DEF Judged, SoundInv, LoopTypes, BotOK
  <2>2. \A p \in compared : /\ gap(p) = Gap(judging, judging.read[p])
                            /\ trades_with(p) = Open(judging, judging.read[p])
    BY DEF Gap, Open, Sell, Buy
  <2>3. /\ Found.tradeable = judging.best.ok
        /\ judging.best.ok => /\ Found.net_lamports = judging.best.net_lamports
                              /\ Found.gap_bps = judging.best.gap
        /\ ~judging.best.ok => Found.gap_bps = judging.widest
    BY DEF Found
  <2> HIDE DEF gap, trades_with
  <2>4. CASE ~judging.best.ok
    <3>1. ASSUME NEW p \in compared PROVE trades_with(p) = {}
      <4>1. Offers(judging) = {}
        BY <2>1, <2>4 DEF JudgementSound, BestOf
      <4>2. ASSUME NEW v \in Open(judging, judging.read[p]) PROVE FALSE
        <5>1. /\ p \in Pools /\ IsPriced(judging.read[p]) /\ IsPriced(judging.moved)
          BY <2>1 DEF JudgementSound, IsJudgement
        <5>2. Gap(judging, judging.read[p]) \in Nat /\ v.net_lamports \in Int
          BY <5>1, GapIsNat, NetIsNat DEF Gap
        <5>3. <<p, Gap(judging, judging.read[p]), v.net_lamports>> \in Offers(judging)
          BY <5>1, <5>2 DEF Offers
        <5> QED BY <4>1, <5>3
      <4> QED BY <2>2, <4>2
    <3>2. /\ \A p \in compared : gap(p) <= IMPLAUSIBLE_BPS => gap(p) <= judging.widest
          /\ judging.widest = 0 \/ \E p \in compared : /\ gap(p) <= IMPLAUSIBLE_BPS
                                                       /\ gap(p) = judging.widest
      BY <2>1, <2>2 DEF JudgementSound, WidestOf
    <3>3. None
      BY <2>3, <2>4, <3>2
    <3> HIDE DEF None, Some, plausible
    <3>4. IF \A p \in compared : trades_with(p) = {} THEN None ELSE Some
      BY <3>1, <3>3
    <3> QED BY <3>4, Zenon DEF FoundIsBest, None, Some, plausible, gap, trades_with
  <2>5. CASE judging.best.ok
    <3> DEFINE b == judging.best
    <3>1. /\ <<b.with, b.gap, b.net_lamports>> \in Offers(judging)
          /\ \A z \in Offers(judging) : z[3] <= b.net_lamports
      BY <2>1, <2>5 DEF JudgementSound, BestOf
    <3>2. /\ b.with \in compared /\ b.gap = gap(b.with)
          /\ \E v \in trades_with(b.with) : v.net_lamports = b.net_lamports
      <4>1. /\ b.with \in compared /\ b.gap = Gap(judging, judging.read[b.with])
            /\ \E v \in Open(judging, judging.read[b.with]) : v.net_lamports = b.net_lamports
        BY <3>1 DEF Offers
      <4> QED BY <2>2, <4>1
    <3>3. ASSUME NEW p \in compared, NEW v \in trades_with(p)
          PROVE  v.net_lamports <= b.net_lamports
      <4>1. /\ p \in Pools /\ IsPriced(judging.read[p]) /\ IsPriced(judging.moved)
            /\ v \in Open(judging, judging.read[p])
        BY <2>1, <2>2 DEF JudgementSound, IsJudgement
      <4>2. Gap(judging, judging.read[p]) \in Nat /\ v.net_lamports \in Int
        BY <4>1, GapIsNat, NetIsNat DEF Gap
      <4>3. <<p, Gap(judging, judging.read[p]), v.net_lamports>> \in Offers(judging)
        BY <4>1, <4>2 DEF Offers
      <4> QED BY <3>1, <4>3
    <3>4. Some
      BY <2>3, <2>5, <3>2, <3>3
    <3>5. ~\A p \in compared : trades_with(p) = {}
      BY <3>2
    <3> HIDE DEF None, Some, plausible
    <3>6. IF \A p \in compared : trades_with(p) = {} THEN None ELSE Some
      BY <3>4, <3>5
    <3> QED BY <3>6, Zenon DEF FoundIsBest, None, Some, plausible, gap, trades_with
  <2> QED BY <2>4, <2>5
<1> QED BY <1>1, <1>2, SoundStep, TerminalTypes, PTL DEF Spec
-----------------------------------------------------------------------------
(* The stamps an event is credited with *)

\* The messages of a lane that the loop has not taken yet.
Queue(l) == channel[ChannelOf(l)]

\* A message of lane l from which event k can still be judged.
About(m, l, k) == m.lane = l /\ m.sig = k[1] /\ k[2] \in Range(m.left)

\* The first message about an event in a queue.
Leads(q, i, l, k) == About(q[i], l, k) /\ \A n \in 1 .. i - 1 : ~About(q[n], l, k)

\* A message about an event that was never delivered does not exist, and the
\* first one not yet worked on, of an event the lane has not judged, carries
\* the stamp of the event's first delivery.
KnownInv ==
  /\ firstAt \in [Lanes -> [Events -> Nat \cup {NoTime}]]
  /\ \A l \in Lanes, k \in Events : firstAt[l][k] = NoTime =>
       ~About(current, l, k) /\ \A i \in DOMAIN Queue(l) : ~About(Queue(l)[i], l, k)

FirstInv ==
  \A l \in Lanes, k \in Events : firstAt[l][k] # NoTime /\ k \notin acted[l] =>
    \/ About(current, l, k) /\ current.at = firstAt[l][k]
    \/ /\ ~About(current, l, k)
       /\ \E i \in DOMAIN Queue(l) : Leads(Queue(l), i, l, k)
                                     /\ Queue(l)[i].at = firstAt[l][k]

\* The judgement in progress and the duel book credit that stamp.
EntryFields == {"times", "views", "created", "first", "head_start", "gap_lost"}

IsEntry(k, e) ==
  /\ k \in Events /\ DOMAIN e = EntryFields /\ DOMAIN e.times \subseteq Lanes
  /\ \A l \in DOMAIN e.times : e.times[l] = firstAt[l][k] /\ e.times[l] \in Nat

CreditInv ==
  /\ judging # Idle => judging.at = firstAt[judging.lane][<<judging.sig, judging.pool>>]
  /\ \A k \in DOMAIN entries : IsEntry(k, entries[k])

StampInv == KnownInv /\ FirstInv /\ CreditInv

\* A transaction reaches a lane.
LEMMA DeliverStamps ==
  ASSUME LoopTypes, StampInv, NEW lane \in Lanes, NEW s \in Sigs,
         NEW touched \in Named(lane, s), Deliver(lane, s, touched)
  PROVE  StampInv'
<1> DEFINE m    == [lane |-> lane, sig |-> s, at |-> now, left |-> touched]
           c    == ChannelOf(lane)
           F(k) == IF firstAt[lane][k] = NoTime /\ k[1] = s /\ k[2] \in Range(touched)
                     THEN now ELSE firstAt[lane][k]
<1>1. BookOK /\ LoopOK /\ BotOK /\ KnownInv /\ FirstInv /\ CreditInv
  BY DEF LoopTypes, StampInv
<1>2. /\ channel' = [channel EXCEPT ![c] = Append(@, m)]
      /\ firstAt' = [firstAt EXCEPT ![lane] = [k \in Events |-> F(k)]]
      /\ current' = current /\ acted' = acted /\ judging' = judging /\ entries' = entries
  BY DEF Deliver, bot, duels
<1>3. now \in Nat /\ c \in Channels /\ channel \in [Channels -> Seq(Message)]
  BY <1>1 DEF BookOK, LoopOK, ChannelOf, Channels
<1>4. m.lane = lane /\ m.sig = s /\ m.at = now /\ m.left = touched
  OBVIOUS
<1>5. \A l \in Lanes : channel[ChannelOf(l)] \in Seq(Message)
  BY <1>3 DEF ChannelOf, Channels
<1> HIDE DEF m
<1>6. \A l \in Lanes :
        IF ChannelOf(l) = c
          THEN /\ Len(Queue(l)') = Len(Queue(l)) + 1
               /\ Queue(l)'[Len(Queue(l)) + 1] = m
               /\ \A i \in DOMAIN Queue(l) : Queue(l)'[i] = Queue(l)[i]
               /\ DOMAIN Queue(l)' = 1 .. Len(Queue(l)) + 1
          ELSE Queue(l)' = Queue(l)
  BY <1>2, <1>3, <1>5 DEF Queue, ChannelOf, Channels
<1>7. \A l \in Lanes : Queue(l) \in Seq(Message) /\ DOMAIN Queue(l) = 1 .. Len(Queue(l))
                       /\ Len(Queue(l)) \in Nat
  BY <1>5 DEF Queue
<1>8. /\ firstAt \in [Lanes -> [Events -> Nat \cup {NoTime}]]
      /\ firstAt' \in [Lanes -> [Events -> Nat \cup {NoTime}]]
      /\ \A l \in Lanes \ {lane} : firstAt'[l] = firstAt[l]
      /\ \A k \in Events : firstAt'[lane][k] = F(k)
  BY <1>1, <1>2, <1>3 DEF KnownInv
<1>9. NoTime \notin Nat
  BY DEF NoTime
<1>10. \A l \in Lanes, k \in Events :
         firstAt[l][k] # NoTime => firstAt'[l][k] = firstAt[l][k]
  BY <1>8
<1>11. \A l \in Lanes, k \in Events :
         About(m, l, k) => firstAt'[l][k] # NoTime
  BY <1>3, <1>4, <1>8, <1>9 DEF About
<1>12. \A l \in Lanes, k \in Events :
         firstAt[l][k] = NoTime /\ firstAt'[l][k] # NoTime =>
           About(m, l, k) /\ firstAt'[l][k] = m.at /\ ChannelOf(l) = c
  BY <1>4, <1>8 DEF About
<1>13. KnownInv'
  <2>1. ASSUME NEW l \in Lanes, NEW k \in Events, firstAt'[l][k] = NoTime
        PROVE  /\ ~About(current', l, k)
               /\ \A i \in DOMAIN Queue(l)' : ~About(Queue(l)'[i], l, k)
    <3>1. firstAt[l][k] = NoTime /\ ~About(m, l, k)
      BY <1>10, <1>11, <2>1
    <3>2. ~About(current, l, k) /\ \A i \in DOMAIN Queue(l) : ~About(Queue(l)[i], l, k)
      BY <1>1, <3>1 DEF KnownInv
    <3>3. ASSUME NEW i \in DOMAIN Queue(l)' PROVE ~About(Queue(l)'[i], l, k)
      <4>1. CASE ChannelOf(l) = c
        <5>1. i = Len(Queue(l)) + 1 \/ i \in DOMAIN Queue(l)
          BY <1>6, <1>7, <4>1
        <5>2. Queue(l)'[i] = m \/ (i \in DOMAIN Queue(l) /\ Queue(l)'[i] = Queue(l)[i])
          BY <1>6, <4>1, <5>1
        <5> QED BY <3>1, <3>2, <5>2
      <4>2. CASE ChannelOf(l) # c
        BY <1>6, <3>2, <4>2
      <4> QED BY <4>1, <4>2
    <3> QED BY <1>2, <3>2, <3>3
  <2> QED BY <1>8, <2>1 DEF KnownInv
<1>14. FirstInv'
  <2>1. ASSUME NEW l \in Lanes, NEW k \in Events, firstAt'[l][k] # NoTime, k \notin acted[l]
        PROVE  \/ About(current, l, k) /\ current.at = firstAt'[l][k]
               \/ /\ ~About(current, l, k)
                  /\ \E i \in DOMAIN Queue(l)' : Leads(Queue(l)', i, l, k)
                                                 /\ Queue(l)'[i].at = firstAt'[l][k]
    <3>1. CASE firstAt[l][k] = NoTime
      <4>1. ~About(current, l, k) /\ \A i \in DOMAIN Queue(l) : ~About(Queue(l)[i], l, k)
        BY <1>1, <3>1 DEF KnownInv
      <4>2. About(m, l, k) /\ firstAt'[l][k] = m.at /\ ChannelOf(l) = c
        BY <1>12, <2>1, <3>1
      <4> DEFINE n == Len(Queue(l)) + 1
      <4>3. n \in DOMAIN Queue(l)' /\ Queue(l)'[n] = m
            /\ \A i \in 1 .. n - 1 : Queue(l)'[i] = Queue(l)[i] /\ i \in DOMAIN Queue(l)
        BY <1>6, <1>7, <4>2
      <4> HIDE DEF n
      <4>4. Leads(Queue(l)', n, l, k)
        BY <4>1, <4>2, <4>3 DEF Leads
      <4> QED BY <4>1, <4>2, <4>3, <4>4
    <3>2. CASE firstAt[l][k] # NoTime
      <4>1. firstAt'[l][k] = firstAt[l][k]
        BY <1>10, <3>2
      <4>2. CASE About(current, l, k)
        BY <1>1, <2>1, <3>2, <4>1, <4>2 DEF FirstInv
      <4>3. CASE ~About(current, l, k)
        <5>1. PICK i \in DOMAIN Queue(l) : Leads(Queue(l), i, l, k)
                                           /\ Queue(l)[i].at = firstAt[l][k]
          BY <1>1, <2>1, <3>2, <4>3 DEF FirstInv
        <5>2. /\ i \in DOMAIN Queue(l)' /\ Queue(l)'[i] = Queue(l)[i]
              /\ \A n \in 1 .. i - 1 : Queue(l)'[n] = Queue(l)[n]
          BY <1>6, <1>7
        <5>3. Leads(Queue(l)', i, l, k)
          BY <5>1, <5>2 DEF Leads
        <5> QED BY <4>1, <4>3, <5>1, <5>2, <5>3
      <4> QED BY <4>2, <4>3
    <3> QED BY <3>1, <3>2
  <2> QED BY <1>2, <2>1 DEF FirstInv
<1>15. CreditInv'
  <2>1. judging # Idle => /\ judging.lane \in Lanes /\ judging.at \in Nat
                          /\ <<judging.sig, judging.pool>> \in Events
    BY <1>1 DEF BotOK, IsJudgement, Events
  <2>2. judging' # Idle =>
          judging'.at = firstAt'[judging'.lane][<<judging'.sig, judging'.pool>>]
    BY <1>1, <1>2, <1>9, <1>10, <2>1 DEF CreditInv
  <2>3. ASSUME NEW k \in DOMAIN entries PROVE IsEntry(k, entries[k])'
    <3>1. IsEntry(k, entries[k])
      BY <1>1 DEF CreditInv
    <3> QED BY <1>2, <1>9, <1>10, <3>1 DEF IsEntry
  <2> QED BY <1>2, <2>2, <2>3 DEF CreditInv
<1> QED BY <1>13, <1>14, <1>15 DEF StampInv
\* Nothing can be judged from a message with no pools left, and no message of
\* one lane is about an event of another.
LEMMA NothingAbout == ASSUME NEW m, NEW l, NEW k, m.left = <<>> PROVE ~About(m, l, k)
  BY DEF About, Range

\* The loop takes the message at the head of a channel.
LEMMA TakeStamps ==
  ASSUME LoopTypes, StampInv, NEW c \in Channels, Take(c)
  PROVE  StampInv'
<1> DEFINE m == Head(channel[c])
<1>1. BookOK /\ LoopOK /\ BotOK /\ KnownInv /\ FirstInv /\ CreditInv
  BY DEF LoopTypes, StampInv
<1>2. /\ channel[c] # <<>> /\ current' = m /\ current.left = <<>>
      /\ channel' = [channel EXCEPT ![c] = Tail(@)]
      /\ firstAt' = firstAt /\ acted' = acted /\ judging' = judging /\ entries' = entries
  BY DEF Take, LoopIsFree, bot, duels, history
<1>3. channel \in [Channels -> Seq(Message)] /\ \A l \in Lanes : ChannelOf(l) \in Channels
  BY <1>1 DEF LoopOK, ChannelOf, Channels
<1>4. \A l \in Lanes, k \in Events : ~About(current, l, k)
  BY <1>2, NothingAbout
<1>5. m = channel[c][1] /\ 1 \in DOMAIN channel[c] /\ ChannelOf(m.lane) = c
  BY <1>1, <1>2, <1>3 DEF LoopOK
<1>6. \A l \in Lanes, k \in Events : About(m, l, k) => ChannelOf(l) = c
  BY <1>5 DEF About
<1>7. \A l \in Lanes :
        IF ChannelOf(l) = c
          THEN /\ Queue(l) = channel[c]
               /\ \A i \in DOMAIN Queue(l)' : /\ i + 1 \in DOMAIN Queue(l)
                                              /\ Queue(l)'[i] = Queue(l)[i + 1]
               /\ \A i \in DOMAIN Queue(l) : i > 1 => i - 1 \in DOMAIN Queue(l)'
          ELSE Queue(l)' = Queue(l)
  <2>1. ASSUME NEW l \in Lanes, ChannelOf(l) = c
        PROVE  /\ Queue(l) = channel[c] /\ Queue(l)' = Tail(channel[c])
               /\ channel[c] \in Seq(Message)
    BY <1>2, <1>3, <2>1 DEF Queue
  <2>2. ASSUME NEW q \in Seq(Message), q # <<>>
        PROVE  /\ \A i \in DOMAIN Tail(q) : i + 1 \in DOMAIN q /\ Tail(q)[i] = q[i + 1]
               /\ \A i \in DOMAIN q : i > 1 => i - 1 \in DOMAIN Tail(q)
    BY <2>2
  <2>3. ASSUME NEW l \in Lanes, ChannelOf(l) # c PROVE Queue(l)' = Queue(l)
    BY <1>2, <1>3, <2>3 DEF Queue
  <2> QED BY <1>2, <2>1, <2>2, <2>3
<1> HIDE DEF m
<1>8. KnownInv'
  <2>1. ASSUME NEW l \in Lanes, NEW k \in Events, firstAt[l][k] = NoTime
        PROVE  /\ ~About(m, l, k)
               /\ \A i \in DOMAIN Queue(l)' : ~About(Queue(l)'[i], l, k)
    <3>1. \A i \in DOMAIN Queue(l) : ~About(Queue(l)[i], l, k)
      BY <1>1, <2>1 DEF KnownInv
    <3>2. ~About(m, l, k)
      BY <1>5, <1>6, <1>7, <3>1
    <3> QED BY <1>7, <3>1, <3>2
  <2> QED BY <1>1, <1>2, <2>1 DEF KnownInv
<1>9. FirstInv'
  <2>1. ASSUME NEW l \in Lanes, NEW k \in Events, firstAt[l][k] # NoTime, k \notin acted[l]
        PROVE  \/ About(m, l, k) /\ m.at = firstAt[l][k]
               \/ /\ ~About(m, l, k)
                  /\ \E i \in DOMAIN Queue(l)' : Leads(Queue(l)', i, l, k)
                                                 /\ Queue(l)'[i].at = firstAt[l][k]
    <3>1. PICK i \in DOMAIN Queue(l) : Leads(Queue(l), i, l, k)
                                       /\ Queue(l)[i].at = firstAt[l][k]
      BY <1>1, <1>4, <2>1 DEF FirstInv
    <3>2. CASE ChannelOf(l) # c
      <4>1. Queue(l)' = Queue(l) /\ ~About(m, l, k)
        BY <1>6, <1>7, <3>2
      <4> QED BY <3>1, <4>1
    <3>3. CASE ChannelOf(l) = c
      <4>1. Queue(l)[1] = m /\ i \in Nat /\ i >= 1
        BY <1>3, <1>5, <1>7, <3>3 DEF Queue
      <4>2. CASE i = 1
        BY <3>1, <4>1, <4>2 DEF Leads
      <4>3. CASE i # 1
        <5>1. ~About(m, l, k)
          BY <3>1, <4>1, <4>3 DEF Leads
        <5>2. i - 1 \in DOMAIN Queue(l)' /\ Queue(l)'[i - 1] = Queue(l)[i]
          BY <1>7, <3>3, <4>1, <4>3
        <5>3. ASSUME NEW n \in 1 .. (i - 1) - 1 PROVE ~About(Queue(l)'[n], l, k)
          <6>1. n + 1 \in 1 .. i - 1
            BY <4>1
          <6>2. n \in DOMAIN Queue(l)'
            <7>1. n + 1 \in DOMAIN Queue(l)
              BY <1>3, <3>1, <4>1, <6>1 DEF Queue
            <7> QED BY <1>7, <3>3, <4>1, <7>1
          <6>3. Queue(l)'[n] = Queue(l)[n + 1]
            BY <1>7, <3>3, <6>2
          <6> QED BY <3>1, <6>1, <6>3 DEF Leads
        <5>4. Leads(Queue(l)', i - 1, l, k)
          BY <3>1, <5>2, <5>3 DEF Leads
        <5> QED BY <3>1, <5>1, <5>2, <5>4
      <4> QED BY <4>2, <4>3
    <3> QED BY <3>2, <3>3
  <2> QED BY <1>2, <2>1 DEF FirstInv
<1>10. CreditInv'
  BY <1>1, <1>2 DEF CreditInv, IsEntry
<1> QED BY <1>8, <1>9, <1>10 DEF StampInv
\* The loop hands the next pool of its message to the lane's bot.
LEMMA JudgeNextStamps ==
  ASSUME LoopTypes, StampInv, JudgeNext
  PROVE  StampInv'
<1> DEFINE e == [lane |-> current.lane, sig |-> current.sig, at |-> current.at,
                 pool |-> Head(current.left)]
           x == <<current.sig, Head(current.left)>>
<1>1. BookOK /\ LoopOK /\ BotOK /\ KnownInv /\ FirstInv /\ CreditInv
  BY DEF LoopTypes, StampInv
<1>2. /\ current \in Message /\ current.lane \in Lanes /\ current.at \in Nat
      /\ current.sig \in Sigs /\ Head(current.left) \in Pools /\ x \in Events
      /\ current.left \in Seq(Pools) /\ current.left # <<>>
  BY <1>1, TriggerTyped
<1>3. /\ judging = Idle /\ (Duplicate(e) \/ NoPrice(e) \/ Begin(e))
      /\ current' = [current EXCEPT !.left = Tail(@)]
      /\ channel' = channel /\ firstAt' = firstAt /\ entries' = entries
  BY DEF JudgeNext, duels
<1>4. /\ e.lane = current.lane /\ e.sig = current.sig /\ e.pool = Head(current.left)
      /\ e.at = current.at /\ x = <<e.sig, e.pool>>
  OBVIOUS
<1>5. /\ current'.lane = current.lane /\ current'.sig = current.sig
      /\ current'.at = current.at /\ current'.left = Tail(current.left)
  BY <1>2, <1>3 DEF Message
<1> HIDE DEF e, x
<1>6. /\ x \in acted'[current.lane]
      /\ \A l \in Lanes : acted[l] \subseteq acted'[l]
  <2>1. acted \in [Lanes -> SUBSET Events]
    BY <1>1 DEF BotOK
  <2> QED BY <1>2, <1>3, <1>4, <2>1 DEF Duplicate, NoPrice, Begin
<1>7. Queue(current.lane)' = Queue(current.lane) /\ \A l \in Lanes : Queue(l)' = Queue(l)
  BY <1>3 DEF Queue
<1>8. /\ Range(Tail(current.left)) \subseteq Range(current.left)
      /\ Range(current.left) \subseteq Range(Tail(current.left)) \cup {Head(current.left)}
  <2>1. ASSUME NEW q \in Seq(Pools), q # <<>>
        PROVE  /\ Range(Tail(q)) \subseteq Range(q)
               /\ Range(q) \subseteq Range(Tail(q)) \cup {Head(q)}
    <3>1. ASSUME NEW i \in DOMAIN Tail(q) PROVE Tail(q)[i] \in Range(q)
      <4>1. i + 1 \in DOMAIN q /\ Tail(q)[i] = q[i + 1]
        BY <2>1
      <4> QED BY <4>1 DEF Range
    <3>2. ASSUME NEW i \in DOMAIN q PROVE q[i] \in Range(Tail(q)) \cup {Head(q)}
      <4>1. CASE i = 1
        BY <2>1, <4>1
      <4>2. CASE i # 1
        <5>1. i - 1 \in DOMAIN Tail(q) /\ Tail(q)[i - 1] = q[i]
          BY <2>1, <4>2
        <5> QED BY <5>1 DEF Range
      <4> QED BY <4>1, <4>2
    <3> QED BY <3>1, <3>2 DEF Range
  <2> QED BY <1>2, <2>1
<1>9. \A l \in Lanes, k \in Events : About(current', l, k) => About(current, l, k)
  BY <1>5, <1>8 DEF About
<1>10. \A l \in Lanes, k \in Events :
         About(current, l, k) /\ ~About(current', l, k) => k \in acted'[l]
  <2>1. ASSUME NEW l \in Lanes, NEW k \in Events,
               About(current, l, k), ~About(current', l, k)
        PROVE  k \in acted'[l]
    <3>1. l = current.lane /\ k[1] = current.sig /\ k[2] = Head(current.left)
      BY <1>5, <1>8, <2>1 DEF About
    <3>2. k = x
      BY <3>1 DEF x, Events
    <3> QED BY <1>6, <3>1, <3>2
  <2> QED BY <2>1
<1>11. KnownInv'
  BY <1>1, <1>3, <1>7, <1>9 DEF KnownInv
<1>12. FirstInv'
  <2>1. ASSUME NEW l \in Lanes, NEW k \in Events, firstAt[l][k] # NoTime, k \notin acted'[l]
        PROVE  \/ About(current', l, k) /\ current'.at = firstAt[l][k]
               \/ /\ ~About(current', l, k)
                  /\ \E i \in DOMAIN Queue(l)' : Leads(Queue(l)', i, l, k)
                                                 /\ Queue(l)'[i].at = firstAt[l][k]
    <3>1. k \notin acted[l]
      BY <1>6, <2>1
    <3>2. CASE About(current, l, k)
      <4>1. About(current', l, k) /\ current.at = firstAt[l][k]
        BY <1>1, <1>10, <2>1, <3>1, <3>2 DEF FirstInv
      <4> QED BY <1>5, <4>1
    <3>3. CASE ~About(current, l, k)
      <4>1. ~About(current', l, k)
        BY <1>9, <3>3
      <4>2. \E i \in DOMAIN Queue(l) : Leads(Queue(l), i, l, k)
                                       /\ Queue(l)[i].at = firstAt[l][k]
        BY <1>1, <2>1, <3>1, <3>3 DEF FirstInv
      <4>3. Queue(l)' = Queue(l)
        BY <1>7
      <4> QED BY <4>1, <4>2, <4>3
    <3> QED BY <3>2, <3>3
  <2> QED BY <1>3, <2>1 DEF FirstInv
<1>13. ASSUME judging' # Idle
       PROVE  judging'.at = firstAt[judging'.lane][<<judging'.sig, judging'.pool>>]
  <2>1. Begin(e)
    BY <1>3, <1>13 DEF Duplicate, NoPrice
  <2>2. x \notin acted[current.lane]
    BY <1>4, <2>1 DEF Begin
  <2>3. About(current, current.lane, x)
    <3>1. Head(current.left) = current.left[1] /\ 1 \in DOMAIN current.left
      BY <1>2
    <3> QED BY <3>1 DEF About, Range, x
  <2>4. firstAt[current.lane][x] # NoTime
    BY <1>1, <1>2, <2>3 DEF KnownInv
  <2>5. current.at = firstAt[current.lane][x]
    BY <1>1, <1>2, <2>2, <2>3, <2>4 DEF FirstInv
  <2>6. /\ judging'.lane = e.lane /\ judging'.sig = e.sig /\ judging'.pool = e.pool
        /\ judging'.at = e.at
    BY <1>1, <1>2, <1>4, <2>1, BeginEffect
  <2>7. judging'.lane = current.lane /\ <<judging'.sig, judging'.pool>> = x
        /\ judging'.at = current.at
    BY <1>4, <2>6
  <2> QED BY <2>5, <2>7, Zenon
<1>14. CreditInv'
  BY <1>1, <1>3, <1>13 DEF CreditInv, IsEntry
<1> QED BY <1>11, <1>12, <1>14 DEF StampInv

\* The view the loop hands to the duel book.
View == [k \in DOMAIN Found \cup {"seen_at"} |->
           IF k = "seen_at" THEN Append(looked, version) ELSE Found[k]]

\* What it says is what was found.
LEMMA ViewFields ==
  /\ View.sig = judging.sig /\ View.pool = judging.pool /\ View.decided_at = judging.at
  /\ View.gap_bps = Found.gap_bps /\ View.tradeable = Found.tradeable
  /\ View.seen_at = Append(looked, version)
<1>1. DOMAIN Found = {"pool", "sig", "decided_at", "looked_at", "tradeable",
                      "net_lamports", "gap_bps"}
  BY DEF Found
<1>2. /\ Found.sig = judging.sig /\ Found.pool = judging.pool
      /\ Found.decided_at = judging.at
  BY DEF Found
<1> QED BY <1>1, <1>2 DEF View

\* Entry::settle scores an entry and leaves the reports as they are.
LEMMA SettleKeeps ==
  ASSUME NEW e, DOMAIN e = EntryFields, NEW new \in settle(e)
  PROVE  /\ DOMAIN new = EntryFields /\ new.times = e.times /\ new.views = e.views
         /\ Cardinality(DOMAIN e.times) < 2 => new = e
         /\ ~(Cardinality(DOMAIN e.times) < 2) => \E two \in FirstTwo(e.times) :
              /\ new.first = two[1]
              /\ new.head_start = e.times[two[2]] - e.times[two[1]]
<1>1. CASE Cardinality(DOMAIN e.times) < 2
  <2>1. new = e
    BY <1>1, Zenon DEF settle
  <2> QED BY <1>1, <2>1
<1>2. CASE ~(Cardinality(DOMAIN e.times) < 2)
  <2>1. PICK two \in FirstTwo(e.times) :
          new = [e EXCEPT
                   !.first      = two[1],
                   !.head_start = e.times[two[2]] - e.times[two[1]],
                   !.gap_lost   = gap_of(e.views, two[1]) - gap_of(e.views, two[2])]
    BY <1>2 DEF settle
  <2>2. /\ DOMAIN new = EntryFields /\ new.times = e.times /\ new.views = e.views
        /\ new.first = two[1] /\ new.head_start = e.times[two[2]] - e.times[two[1]]
    BY <2>1 DEF EntryFields
  <2> QED BY <1>2, <2>2
<1> QED BY <1>1, <1>2
\* The event the judgement in progress is about, and its entry in the duel book.
Key      == <<judging.sig, judging.pool>>
OldEntry == IF Key \in DOMAIN entries THEN entries[Key] ELSE NewEntry(View)

\* A report changes the entry of its event, once per lane, and no other.
LEMMA ReportEffect ==
  ASSUME \A k \in DOMAIN entries : DOMAIN entries[k] = EntryFields, Report
  PROVE  /\ DOMAIN OldEntry = EntryFields
         /\ DOMAIN entries' = DOMAIN entries \cup {Key}
         /\ \A k \in DOMAIN entries \ {Key} : entries'[k] = entries[k]
         /\ \/ judging.lane \in DOMAIN OldEntry.times /\ entries'[Key] = OldEntry
            \/ /\ judging.lane \notin DOMAIN OldEntry.times
               /\ entries'[Key] \in settle(Reported(OldEntry, judging.lane, View))
<1>1. record_duel(judging.lane, View)
  BY DEF Report, View
<1>2. <<View.sig, View.pool>> = Key
  BY ViewFields DEF Key
<1>3. DOMAIN OldEntry = EntryFields
  BY DEF OldEntry, NewEntry, EntryFields
<1> DEFINE key   == <<View.sig, View.pool>>
           entry == IF key \in DOMAIN entries THEN entries[key] ELSE NewEntry(View)
<1>5. \/ /\ judging.lane \in DOMAIN entry.times
         /\ entries' = [k \in DOMAIN entries \cup {key} |->
                          IF k = key THEN entry ELSE entries[k]]
      \/ /\ judging.lane \notin DOMAIN entry.times
         /\ \E new \in settle(Reported(entry, judging.lane, View)) :
              entries' = [k \in DOMAIN entries \cup {key} |->
                            IF k = key THEN new ELSE entries[k]]
  BY <1>1, Zenon DEF record_duel
<1>6. key = Key /\ entry = OldEntry
  BY <1>2 DEF OldEntry
<1> HIDE DEF key, entry
<1>4. \/ /\ judging.lane \in DOMAIN OldEntry.times
         /\ entries' = [k \in DOMAIN entries \cup {Key} |->
                          IF k = Key THEN OldEntry ELSE entries[k]]
      \/ /\ judging.lane \notin DOMAIN OldEntry.times
         /\ \E new \in settle(Reported(OldEntry, judging.lane, View)) :
              entries' = [k \in DOMAIN entries \cup {Key} |->
                            IF k = Key THEN new ELSE entries[k]]
  BY <1>5, <1>6
<1> QED BY <1>3, <1>4

\* r is the entry e with a lane's time and view added.
HasReport(r, e, lane, found) ==
  /\ DOMAIN r = EntryFields
  /\ DOMAIN r.times = DOMAIN e.times \cup {lane}
  /\ r.times[lane] = found.decided_at
  /\ \A l \in DOMAIN e.times \ {lane} : r.times[l] = e.times[l]
  /\ r.views = Append(e.views, [lane |-> lane, gap_bps |-> found.gap_bps,
                                tradeable |-> found.tradeable, seen_at |-> found.seen_at])
  /\ r.first = e.first /\ r.head_start = e.head_start

\* A lane's first report adds its time and its view to the entry.
LEMMA ReportedFields ==
  ASSUME NEW e, DOMAIN e = EntryFields, NEW lane, NEW found
  PROVE  HasReport(Reported(e, lane, found), e, lane, found)
<1> DEFINE times == [l \in DOMAIN e.times \cup {lane} |->
                       IF l = lane THEN found.decided_at ELSE e.times[l]]
           views == Append(e.views, [lane |-> lane, gap_bps |-> found.gap_bps,
                                     tradeable |-> found.tradeable,
                                     seen_at |-> found.seen_at])
           r     == [e EXCEPT !.times = times, !.views = views]
<1>1. Reported(e, lane, found) = r
  BY DEF Reported, TimedBy
<1>2. /\ DOMAIN times = DOMAIN e.times \cup {lane} /\ times[lane] = found.decided_at
      /\ \A l \in DOMAIN e.times \ {lane} : times[l] = e.times[l]
  OBVIOUS
<1> HIDE DEF times
<1>3. /\ DOMAIN r = EntryFields /\ r.times = times /\ r.views = views
      /\ r.first = e.first /\ r.head_start = e.head_start
  BY DEF EntryFields
<1> HIDE DEF r
<1> QED BY <1>1, <1>2, <1>3 DEF HasReport

\* What is reported is credited with the stamp of its first delivery.
LEMMA ReportCredit ==
  ASSUME LoopTypes, CreditInv, Report
  PROVE  CreditInv'
<1>1. BotOK /\ judging # Idle /\ judging' = Idle /\ firstAt' = firstAt
  BY DEF LoopTypes, Report, ReturnFound, Judged, history
<1>2. /\ judging.lane \in Lanes /\ Key \in Events /\ judging.at \in Nat
      /\ judging.at = firstAt[judging.lane][Key]
  BY <1>1 DEF BotOK, IsJudgement, Events, Key, CreditInv
<1>3. \A k \in DOMAIN entries : IsEntry(k, entries[k])
  BY DEF CreditInv
<1>4. \A k \in DOMAIN entries : DOMAIN entries[k] = EntryFields
  BY <1>3 DEF IsEntry
<1>5. IsEntry(Key, OldEntry)
  <2>1. CASE Key \in DOMAIN entries
    BY <1>3, <2>1 DEF OldEntry
  <2>2. CASE Key \notin DOMAIN entries
    <3>1. OldEntry = NewEntry(View)
      BY <2>2 DEF OldEntry
    <3>2. DOMAIN OldEntry = EntryFields /\ DOMAIN OldEntry.times = {}
      BY <3>1 DEF NewEntry, EntryFields
    <3> QED BY <1>2, <3>2 DEF IsEntry
  <2> QED BY <2>1, <2>2
<1>6. IsEntry(Key, entries'[Key])
  <2>1. CASE entries'[Key] = OldEntry
    BY <1>5, <2>1
  <2>2. CASE entries'[Key] \in settle(Reported(OldEntry, judging.lane, View))
    <3> DEFINE r == Reported(OldEntry, judging.lane, View)
    <3>1. /\ DOMAIN r = EntryFields
          /\ DOMAIN r.times = DOMAIN OldEntry.times \cup {judging.lane}
          /\ r.times[judging.lane] = View.decided_at
          /\ \A l \in DOMAIN OldEntry.times \ {judging.lane} : r.times[l] = OldEntry.times[l]
      <4>1. HasReport(r, OldEntry, judging.lane, View)
        BY <1>5, ReportedFields DEF IsEntry
      <4> HIDE DEF r
      <4> QED BY <4>1 DEF HasReport
    <3> HIDE DEF r
    <3>2. DOMAIN entries'[Key] = EntryFields /\ entries'[Key].times = r.times
      BY <2>2, <3>1, SettleKeeps DEF r
    <3>3. r.times[judging.lane] = firstAt[judging.lane][Key]
      BY <1>2, <3>1, ViewFields
    <3> QED BY <1>2, <1>5, <3>1, <3>2, <3>3 DEF IsEntry
  <2> QED BY <1>4, <2>1, <2>2, ReportEffect
<1>7. /\ DOMAIN entries' = DOMAIN entries \cup {Key}
      /\ \A k \in DOMAIN entries \ {Key} : entries'[k] = entries[k]
  BY <1>4, ReportEffect
<1>8. \A k \in DOMAIN entries' : IsEntry(k, entries'[k])
  BY <1>3, <1>6, <1>7
<1>9. \A k \in DOMAIN entries' : IsEntry(k, entries[k])'
  BY <1>1, <1>8 DEF IsEntry
<1> QED BY <1>1, <1>9 DEF CreditInv

\* Every step keeps the stamps.
LEMMA StampStep == LoopTypes /\ StampInv /\ [Next]_vars => StampInv'
<1> SUFFICES ASSUME LoopTypes, StampInv, [Next]_vars PROVE StampInv'
  OBVIOUS
<1>1. ASSUME NEW l \in Lanes, NEW s \in Sigs, NEW touched \in Named(l, s),
             Deliver(l, s, touched)
      PROVE  StampInv'
  BY <1>1, DeliverStamps
<1>2. ASSUME NEW c \in Channels, Take(c) PROVE StampInv'
  BY <1>2, TakeStamps
<1>3. CASE JudgeNext
  BY <1>3, JudgeNextStamps
<1>4. ASSUME UNCHANGED <<channel, current, firstAt, acted>> PROVE KnownInv' /\ FirstInv'
  BY <1>4 DEF StampInv, KnownInv, FirstInv, Queue
<1>5. CASE Report
  <2>1. UNCHANGED <<channel, current, firstAt, acted>>
    BY <1>5 DEF Report, ReturnFound, loop, history
  <2> QED BY <1>4, <1>5, <2>1, ReportCredit DEF StampInv
<1>6. CASE JudgeOn
  <2>1. UNCHANGED <<channel, current, firstAt, acted, entries>>
    BY <1>6 DEF JudgeOn, loop, history, duels, PassOver, Compare, ReturnNone
  <2>2. \/ judging' = Idle
        \/ /\ judging # Idle /\ judging'.lane = judging.lane /\ judging'.sig = judging.sig
           /\ judging'.pool = judging.pool /\ judging'.at = judging.at
    <3>1. CASE PassOver
      BY <3>1, PassOverEffect DEF LoopTypes, JudgementFields
    <3>2. CASE Compare
      BY <3>2, CompareEffect DEF LoopTypes
    <3>3. CASE ReturnNone
      BY <3>3 DEF ReturnNone
    <3> QED BY <1>6, <3>1, <3>2, <3>3 DEF JudgeOn
  <2>3. CreditInv'
    BY <2>1, <2>2 DEF StampInv, CreditInv, IsEntry
  <2> QED BY <1>4, <2>1, <2>3 DEF StampInv
<1>7. CASE Flush
  <2>1. UNCHANGED <<channel, current, firstAt, acted, judging>>
    BY <1>7 DEF Flush, loop, history, bot
  <2>2. DOMAIN entries' \subseteq DOMAIN entries
        /\ \A k \in DOMAIN entries' : entries'[k] = entries[k]
    BY <1>7 DEF Flush, evict_duels, Restrict
  <2>3. CreditInv'
    BY <2>1, <2>2 DEF StampInv, CreditInv, IsEntry
  <2> QED BY <1>4, <2>1, <2>3 DEF StampInv
<1>8. CASE UNCHANGED <<channel, current, firstAt, acted, judging, entries>>
  <2>1. CreditInv'
    BY <1>8 DEF StampInv, CreditInv, IsEntry
  <2> QED BY <1>4, <1>8, <2>1 DEF StampInv
<1> QED
  BY <1>1, <1>2, <1>3, <1>5, <1>6, <1>7, <1>8
  DEF Next, vars, bot, loop, history, duels, Feed, Operator, Tick

\* Nothing has been delivered yet.
LEMMA StampInit == Init => StampInv
<1> SUFFICES ASSUME Init PROVE StampInv
  OBVIOUS
<1>1. /\ firstAt = [l \in Lanes |-> [k \in Events |-> NoTime]]
      /\ entries = [k \in {} |-> 0] /\ judging = Idle
      /\ channel = [c \in Channels |-> <<>>]
      /\ current = [lane |-> "none", left |-> <<>>]
  BY DEF Init, LaneBotInit, DuelInit
<1>2. \A l \in Lanes : DOMAIN Queue(l) = {}
  BY <1>1 DEF Queue, ChannelOf, Channels
<1>3. KnownInv
  BY <1>1, <1>2, NothingAbout DEF KnownInv
<1> QED BY <1>1, <1>3 DEF StampInv, FirstInv, CreditInv

\* A lane is credited with the stamp of its first delivery of an event, however
\* late the loop came to it and however often it was repeated.
THEOREM TerminalHeadStartIsTrue == Spec => []HeadStartIsTrue
<1>2. StampInv => HeadStartIsTrue
  BY DEF StampInv, CreditInv, IsEntry, HeadStartIsTrue
<1> QED BY <1>2, StampInit, StampStep, TerminalTypes, PTL DEF Spec
-----------------------------------------------------------------------------
(* What two lanes see of one book *)

\* What a reader who takes every price from the book as it is now, at instant
\* t, compares with a pool that moved.
Comparable(pool, t) ==
  {p \in siblings(pool) : p \in DOMAIN prices /\ fresh_enough(prices[pool], prices[p], t)}

Reader(pool, t) ==
  [moved |-> prices[pool], now |-> t, read |-> [p \in Comparable(pool, t) |-> prices[p]]]

\* The gap g is what such a reader reports.
ReaderFinds(pool, t, g) ==
  \E b, w : /\ BestOf(b, Offers(Reader(pool, t)))
            /\ w \in Nat /\ WidestOf(w, Reader(pool, t))
            /\ g = IF b.ok THEN b.gap ELSE w

\* A reader reports one gap only: of the trades that earn the most the first is
\* taken, and the widest gap is one number.
LEMMA OneGap ==
  ASSUME BookOK, NEW pool \in DOMAIN prices, NEW t, NEW g, NEW h,
         ReaderFinds(pool, t, g), ReaderFinds(pool, t, h)
  PROVE  g = h
<1> DEFINE j == Reader(pool, t)
           T == Offers(j)
<1>0. Pools \subseteq Nat
  BY PriceBookAssumption DEF Pools
<1>1. PICK b, w : /\ BestOf(b, T) /\ w \in Nat /\ WidestOf(w, j)
                  /\ g = IF b.ok THEN b.gap ELSE w
  BY DEF ReaderFinds
<1>2. PICK c, x : /\ BestOf(c, T) /\ x \in Nat /\ WidestOf(x, j)
                  /\ h = IF c.ok THEN c.gap ELSE x
  BY DEF ReaderFinds
<1>3. T \subseteq Pools \X Nat \X Int /\ \A z \in T : z[2] = Gap(j, j.read[z[1]])
  BY DEF Offers
<1>4. \A p \in DOMAIN j.read : Gap(j, j.read[p]) \in Nat
  <2>1. j.moved = prices[pool] /\ \A p \in DOMAIN j.read : p \in DOMAIN prices /\ j.read[p] = prices[p]
    BY DEF Reader, Comparable
  <2> QED BY <2>1, GapIsNat DEF BookOK, Gap
<1> HIDE DEF j, T
<1>5. CASE ~b.ok
  <2>1. ~c.ok
    BY <1>1, <1>2, <1>5 DEF BestOf
  <2>2. w <= x
    BY <1>1, <1>2, <1>4 DEF WidestOf
  <2>3. x <= w
    BY <1>1, <1>2, <1>4 DEF WidestOf
  <2> QED BY <1>1, <1>2, <1>5, <2>1, <2>2, <2>3
<1>6. CASE b.ok
  <2>1. c.ok
    BY <1>1, <1>2, <1>6 DEF BestOf
  <2> DEFINE y == <<b.with, b.gap, b.net_lamports>>
             z == <<c.with, c.gap, c.net_lamports>>
  <2>2. y \in T /\ z \in T
    BY <1>1, <1>2, <1>6, <2>1 DEF BestOf
  <2>3. /\ b.with \in Nat /\ c.with \in Nat
        /\ b.net_lamports \in Int /\ c.net_lamports \in Int
    BY <1>0, <1>3, <2>2
  <2>4. /\ c.net_lamports <= b.net_lamports
        /\ c.with < b.with => c.net_lamports < b.net_lamports
    BY <1>1, <1>6, <2>2 DEF BestOf
  <2>5. /\ b.net_lamports <= c.net_lamports
        /\ b.with < c.with => b.net_lamports < c.net_lamports
    BY <1>2, <2>1, <2>2 DEF BestOf
  <2>6. b.with = c.with
    BY <2>3, <2>4, <2>5
  <2>7. y[1] = b.with /\ y[2] = b.gap /\ z[1] = c.with /\ z[2] = c.gap
    OBVIOUS
  <2> HIDE DEF y, z
  <2>8. b.gap = c.gap
    BY <1>3, <2>2, <2>6, <2>7
  <2> QED BY <1>1, <1>2, <1>6, <2>1, <2>8
<1> QED BY <1>5, <1>6
\* As long as the book has not changed since it began, a judgement has read
\* what such a reader reads, of the siblings it is done with.
Reads(j) ==
  /\ j.pool \in DOMAIN prices /\ j.moved = prices[j.pool]
  /\ j.left \subseteq siblings(j.pool)
  /\ DOMAIN j.read = Comparable(j.pool, j.now) \ j.left
  /\ \A p \in DOMAIN j.read : j.read[p] = prices[p]

LookInv ==
  /\ looked \in Nat \X Nat
  /\ judging # Idle => /\ looked[1] <= version /\ judging.now = looked[2]
                       /\ looked[1] = version => Reads(judging)

\* Every step keeps LookInv: the feed moves on, everyone else reads.
LEMMA LookStep == LoopTypes /\ LookInv /\ [Next]_vars => LookInv'
<1> SUFFICES ASSUME LoopTypes, LookInv, [Next]_vars PROVE LookInv'
  OBVIOUS
<1>1. BookOK /\ LoopOK /\ BotOK /\ looked \in Nat \X Nat /\ version \in Nat /\ now \in Nat
  BY DEF LoopTypes, LookInv, BookOK
<1>2. CASE JudgeNext
  <2> DEFINE e == [lane |-> current.lane, sig |-> current.sig, at |-> current.at,
                   pool |-> Head(current.left)]
  <2>1. e.lane \in Lanes /\ e.sig \in Sigs /\ e.pool \in Pools /\ e.at \in Nat
    BY <1>1, <1>2, TriggerTyped
  <2>2. /\ judging = Idle /\ (Duplicate(e) \/ NoPrice(e) \/ Begin(e))
        /\ looked' = <<version, now>> /\ version' = version /\ prices' = prices
    BY <1>2 DEF JudgeNext
  <2> HIDE DEF e
  <2>3. CASE Duplicate(e) \/ NoPrice(e)
    BY <1>1, <2>2, <2>3 DEF Duplicate, NoPrice, LookInv
  <2>4. CASE Begin(e)
    <3>1. /\ judging'.pool = e.pool /\ judging'.now = now
          /\ judging'.moved = prices[e.pool] /\ judging'.left = siblings(e.pool)
          /\ judging'.read = [p \in {} |-> 0]
      BY <1>1, <2>1, <2>4, BeginEffect
    <3>2. e.pool \in DOMAIN prices
      BY <2>4 DEF Begin
    <3>3. DOMAIN judging'.read = {} /\ Comparable(e.pool, now) \ siblings(e.pool) = {}
      BY <3>1 DEF Comparable
    <3>4. Reads(judging')
      BY <3>1, <3>2, <3>3 DEF Reads
    <3>5. Reads(judging)'
      BY <2>2, <3>4 DEF Reads, Comparable
    <3> QED BY <1>1, <2>2, <3>1, <3>5 DEF LookInv
  <2> QED BY <2>2, <2>3, <2>4
<1>3. CASE JudgeOn /\ (PassOver \/ Compare)
  <2> DEFINE p == NextSibling
  <2>1. /\ looked' = looked /\ version' = version /\ prices' = prices
    BY <1>3 DEF JudgeOn, history
  <2>2. /\ judging # Idle /\ judging'.now = judging.now /\ judging'.pool = judging.pool
        /\ judging'.moved = judging.moved /\ p \in judging.left
        /\ judging'.left = judging.left \ {p}
    BY <1>1, <1>3, PassOverEffect, CompareEffect DEF JudgementFields
  <2>3. ASSUME looked[1] = version PROVE Reads(judging')
    <3>1. Reads(judging)
      BY <2>2, <2>3 DEF LookInv
    <3>2. p \in siblings(judging.pool) /\ judging.moved = prices[judging.pool]
      BY <2>2, <3>1 DEF Reads
    <3>3. CASE PassOver
      <4>1. judging'.read = judging.read
        BY <1>1, <3>3, PassOverEffect DEF JudgementFields
      <4>2. p \in DOMAIN prices => ~fresh_enough(judging.moved, prices[p], judging.now)
        BY <3>3 DEF PassOver
      <4>3. p \notin Comparable(judging.pool, judging.now)
        BY <3>2, <4>2 DEF Comparable
      <4> QED BY <2>2, <3>1, <4>1, <4>3 DEF Reads
    <3>4. CASE Compare
      <4>1. /\ judging'.read = [q \in DOMAIN judging.read \cup {p} |->
                                  IF q = p THEN prices[p] ELSE judging.read[q]]
            /\ p \in DOMAIN prices /\ fresh_enough(judging.moved, prices[p], judging.now)
        BY <1>1, <3>4, CompareEffect
      <4>2. p \in Comparable(judging.pool, judging.now)
        BY <3>2, <4>1 DEF Comparable
      <4>3. /\ DOMAIN judging'.read = DOMAIN judging.read \cup {p}
            /\ \A q \in DOMAIN judging'.read : judging'.read[q] = prices[q]
        BY <3>1, <4>1 DEF Reads
      <4> QED BY <2>2, <3>1, <4>2, <4>3 DEF Reads
    <3> QED BY <1>3, <3>3, <3>4
  <2>4. Reads(judging)' <=> Reads(judging')
    BY <2>1 DEF Reads, Comparable
  <2> QED BY <2>1, <2>2, <2>3, <2>4 DEF LookInv
<1>4. CASE judging' = Idle /\ looked' = looked
  BY <1>1, <1>4 DEF LookInv
<1>5. CASE Feed
  BY <1>1, <1>5 DEF Feed, bot, LookInv
<1>6. CASE UNCHANGED <<judging, looked, version, prices>>
  BY <1>6 DEF LookInv, Reads, Comparable
<1> QED
  BY <1>2, <1>3, <1>4, <1>5, <1>6
  DEF Next, vars, bot, history, JudgeOn, ReturnNone, Report, ReturnFound, Deliver, Take, Flush,
      Operator, Tick
\* What a lane's view of an event is made of.
ViewType == [lane : Lanes, gap_bps : Nat, tradeable : BOOLEAN, seen_at : Nat \X Nat \X Nat]

\* A view taken while the book was as it is now says what a reader of the book
\* finds.
ViewOK(pool, v) ==
  /\ v.seen_at[1] <= v.seen_at[3] /\ v.seen_at[3] <= version
  /\ v.seen_at[1] = version =>
       pool \in DOMAIN prices /\ ReaderFinds(pool, v.seen_at[2], v.gap_bps)

\* Two views of one book at one instant agree.
ViewsAgree(views) ==
  \A i, j \in DOMAIN views :
    views[i].seen_at = views[j].seen_at /\ views[i].seen_at[1] = views[i].seen_at[3]
      => views[i].gap_bps = views[j].gap_bps

ViewsOK(k, views) ==
  /\ k \in Events /\ views \in Seq(ViewType)
  /\ \A i \in DOMAIN views : ViewOK(k[2], views[i])
  /\ ViewsAgree(views)

ViewsInv ==
  \A k \in DOMAIN entries : DOMAIN entries[k] = EntryFields /\ ViewsOK(k, entries[k].views)

\* What a finished judgement reports of a book that has not changed is what a
\* reader of the book finds.
LEMMA ReportsTheBook ==
  ASSUME judging # Idle, IsJudgement(judging), JudgementSound(judging), judging.left = {},
         Reads(judging)
  PROVE  ReaderFinds(judging.pool, judging.now, Found.gap_bps)
<1> DEFINE j == judging
           r == Reader(judging.pool, judging.now)
<1>1. /\ r.moved = j.moved /\ r.now = j.now
      /\ DOMAIN r.read = DOMAIN j.read /\ \A p \in DOMAIN j.read : r.read[p] = j.read[p]
  BY DEF Reader, Reads
<1> HIDE DEF r
<1>2. \A o : Gap(r, o) = Gap(j, o) /\ Open(r, o) = Open(j, o)
  BY <1>1 DEF Gap, Open, Sell, Buy
<1>3. Offers(r) = Offers(j)
  <2>1. \A z \in Pools \X Nat \X Int :
          (/\ z[1] \in DOMAIN r.read /\ z[2] = Gap(r, r.read[z[1]])
           /\ \E v \in Open(r, r.read[z[1]]) : v.net_lamports = z[3])
          <=> (/\ z[1] \in DOMAIN j.read /\ z[2] = Gap(j, j.read[z[1]])
               /\ \E v \in Open(j, j.read[z[1]]) : v.net_lamports = z[3])
    BY <1>1, <1>2
  <2> QED BY <2>1 DEF Offers
<1>4. WidestOf(j.widest, r)
  BY <1>1, <1>2 DEF WidestOf, JudgementSound
<1>5. BestOf(j.best, Offers(r)) /\ j.widest \in Nat
  BY <1>3 DEF JudgementSound
<1>6. Found.gap_bps = IF j.best.ok THEN j.best.gap ELSE j.widest
  BY DEF Found
<1> QED BY <1>4, <1>5, <1>6 DEF ReaderFinds, r

\* The view a judgement ends in.
LEMMA NewView ==
  ASSUME LoopTypes, SoundInv, LookInv, Judged
  PROVE  /\ [lane |-> judging.lane, gap_bps |-> View.gap_bps,
             tradeable |-> View.tradeable, seen_at |-> View.seen_at] \in ViewType
         /\ View.seen_at = <<looked[1], looked[2], version>>
         /\ looked[1] <= version /\ version \in Nat /\ looked \in Nat \X Nat
         /\ looked[1] = version => /\ judging.pool \in DOMAIN prices
                                   /\ ReaderFinds(judging.pool, looked[2], View.gap_bps)
<1>1. /\ judging # Idle /\ judging.left = {} /\ IsJudgement(judging)
      /\ JudgementSound(judging) /\ version \in Nat /\ looked \in Nat \X Nat
      /\ looked[1] <= version /\ judging.now = looked[2]
  BY DEF Judged, LoopTypes, BotOK, SoundInv, LookInv, BookOK
<1>2. looked[1] = version => Reads(judging)
  BY <1>1 DEF LookInv
<1>3. View.seen_at = <<looked[1], looked[2], version>>
  <2>1. looked = <<looked[1], looked[2]>>
    BY <1>1
  <2>2. ASSUME NEW a \in Nat, NEW b \in Nat, NEW c \in Nat
        PROVE  Append(<<a, b>>, c) = <<a, b, c>>
    <3> DEFINE q == Append(<<a, b>>, c)
    <3>1. <<a, b>> \in Seq(Nat) /\ Len(<<a, b>>) = 2 /\ <<a, b>>[1] = a /\ <<a, b>>[2] = b
      OBVIOUS
    <3>2. q \in Seq(Nat) /\ Len(q) = 3 /\ q[1] = a /\ q[2] = b /\ q[3] = c
      BY <3>1, AppendProperties
    <3> HIDE DEF q
    <3>3. q = <<a, b, c>>
      BY <3>2
    <3> QED BY <3>3 DEF q
  <2> QED BY <1>1, <2>1, <2>2, ViewFields
<1>4. View.gap_bps \in Nat /\ View.tradeable \in BOOLEAN
  <2>1. /\ Found.gap_bps = IF judging.best.ok THEN judging.best.gap ELSE judging.widest
        /\ Found.tradeable = judging.best.ok
    BY DEF Found
  <2>2. judging.best.ok => judging.best.gap \in Nat
    BY <1>1 DEF JudgementSound, BestOf, Offers
  <2> QED BY <1>1, <2>1, <2>2, ViewFields DEF JudgementSound
<1>5. judging.lane \in Lanes
  BY <1>1 DEF IsJudgement
<1>6. looked[1] = version => /\ judging.pool \in DOMAIN prices
                             /\ ReaderFinds(judging.pool, looked[2], View.gap_bps)
  BY <1>1, <1>2, ReportsTheBook, ViewFields DEF Reads
<1>7. [lane |-> judging.lane, gap_bps |-> View.gap_bps,
       tradeable |-> View.tradeable, seen_at |-> View.seen_at] \in ViewType
  BY <1>1, <1>3, <1>4, <1>5 DEF ViewType
<1> QED BY <1>1, <1>3, <1>6, <1>7

\* One more view of an event, beside those there.
LEMMA OneMoreView ==
  ASSUME BookOK, NEW k, NEW views, ViewsOK(k, views), NEW v \in ViewType, ViewOK(k[2], v),
         v.seen_at[3] = version
  PROVE  ViewsOK(k, Append(views, v))
<1> DEFINE new == Append(views, v)
           n   == Len(views) + 1
<1>1. /\ views \in Seq(ViewType) /\ \A i \in DOMAIN views : ViewOK(k[2], views[i])
      /\ ViewsAgree(views) /\ k \in Events
  BY DEF ViewsOK
<1>2. /\ new \in Seq(ViewType) /\ DOMAIN new = DOMAIN views \cup {n} /\ new[n] = v
      /\ \A i \in DOMAIN views : new[i] = views[i]
  BY <1>1
<1> HIDE DEF new, n
<1>3. \A i \in DOMAIN new : ViewOK(k[2], new[i])
  BY <1>1, <1>2
<1>4. ASSUME NEW i \in DOMAIN views, views[i].seen_at = v.seen_at,
             v.seen_at[1] = v.seen_at[3]
      PROVE  views[i].gap_bps = v.gap_bps
  <2>1. ViewOK(k[2], views[i]) /\ views[i].seen_at[1] = version /\ v.seen_at[1] = version
    BY <1>1, <1>4
  <2>2. /\ k[2] \in DOMAIN prices
        /\ ReaderFinds(k[2], v.seen_at[2], views[i].gap_bps)
        /\ ReaderFinds(k[2], v.seen_at[2], v.gap_bps)
    BY <1>4, <2>1 DEF ViewOK
  <2> QED BY <2>2, OneGap
<1>5. ViewsAgree(new)
  <2>1. ASSUME NEW i \in DOMAIN new, NEW j \in DOMAIN new,
               new[i].seen_at = new[j].seen_at, new[i].seen_at[1] = new[i].seen_at[3]
        PROVE  new[i].gap_bps = new[j].gap_bps
    <3>1. CASE i = n /\ j = n
      BY <3>1
    <3>2. CASE i \in DOMAIN views /\ j \in DOMAIN views
      BY <1>1, <1>2, <2>1, <3>2 DEF ViewsAgree
    <3>3. CASE i \in DOMAIN views /\ j = n
      BY <1>2, <1>4, <2>1, <3>3
    <3>4. CASE i = n /\ j \in DOMAIN views
      BY <1>2, <1>4, <2>1, <3>4
    <3> QED BY <1>2, <3>1, <3>2, <3>3, <3>4
  <2> QED BY <2>1 DEF ViewsAgree
<1> QED BY <1>1, <1>2, <1>3, <1>5 DEF ViewsOK, new
\* A report adds its view to those of its event.
LEMMA ReportViews ==
  ASSUME LoopTypes, SoundInv, LookInv, ViewsInv, Report
  PROVE  ViewsInv'
<1> DEFINE v == [lane |-> judging.lane, gap_bps |-> View.gap_bps,
                 tradeable |-> View.tradeable, seen_at |-> View.seen_at]
<1>1. /\ BookOK /\ BotOK /\ Judged /\ judging # Idle /\ prices' = prices /\ version' = version
  BY DEF LoopTypes, Report, ReturnFound, Judged, history
<1>2. /\ v \in ViewType /\ View.seen_at = <<looked[1], looked[2], version>>
      /\ looked[1] <= version /\ version \in Nat /\ looked \in Nat \X Nat
      /\ looked[1] = version => /\ judging.pool \in DOMAIN prices
                                /\ ReaderFinds(judging.pool, looked[2], View.gap_bps)
  BY <1>1, NewView
<1>3. v.seen_at = View.seen_at /\ v.gap_bps = View.gap_bps
  OBVIOUS
<1> HIDE DEF v
<1>4. Key \in Events /\ Key[2] = judging.pool
  BY <1>1 DEF BotOK, IsJudgement, Events, Key
<1>5. ViewOK(Key[2], v) /\ v.seen_at[3] = version
  BY <1>2, <1>3, <1>4 DEF ViewOK
<1>6. \A k \in DOMAIN entries : DOMAIN entries[k] = EntryFields
  BY DEF ViewsInv
<1>7. /\ DOMAIN OldEntry = EntryFields
      /\ DOMAIN entries' = DOMAIN entries \cup {Key}
      /\ \A k \in DOMAIN entries \ {Key} : entries'[k] = entries[k]
      /\ \/ judging.lane \in DOMAIN OldEntry.times /\ entries'[Key] = OldEntry
         \/ /\ judging.lane \notin DOMAIN OldEntry.times
            /\ entries'[Key] \in settle(Reported(OldEntry, judging.lane, View))
  BY <1>6, ReportEffect
<1>8. ViewsOK(Key, OldEntry.views)
  <2>1. CASE Key \in DOMAIN entries
    BY <2>1 DEF OldEntry, ViewsInv
  <2>2. CASE Key \notin DOMAIN entries
    <3>1. OldEntry.views = <<>>
      BY <2>2 DEF OldEntry, NewEntry
    <3> QED BY <1>4, <3>1 DEF ViewsOK, ViewsAgree
  <2> QED BY <2>1, <2>2
<1>9. DOMAIN entries'[Key] = EntryFields /\ ViewsOK(Key, entries'[Key].views)
  <2>1. CASE entries'[Key] = OldEntry
    BY <1>7, <1>8, <2>1
  <2>2. CASE entries'[Key] \in settle(Reported(OldEntry, judging.lane, View))
    <3> DEFINE r == Reported(OldEntry, judging.lane, View)
    <3>1. HasReport(r, OldEntry, judging.lane, View)
      BY <1>7, ReportedFields
    <3> HIDE DEF r
    <3>2. DOMAIN r = EntryFields /\ r.views = Append(OldEntry.views, v)
      BY <3>1 DEF HasReport, v
    <3>3. DOMAIN entries'[Key] = EntryFields /\ entries'[Key].views = r.views
      BY <2>2, <3>2, SettleKeeps DEF r
    <3>4. ViewsOK(Key, Append(OldEntry.views, v))
      BY <1>1, <1>2, <1>5, <1>8, OneMoreView
    <3> QED BY <3>2, <3>3, <3>4
  <2> QED BY <1>7, <2>1, <2>2
<1>10. \A k \in DOMAIN entries' :
         DOMAIN entries'[k] = EntryFields /\ ViewsOK(k, entries'[k].views)
  BY <1>7, <1>9 DEF ViewsInv
<1>11. ASSUME NEW k \in DOMAIN entries' PROVE ViewsOK(k, entries[k].views)'
  <2>1. ViewsOK(k, entries'[k].views)
    BY <1>10
  <2>2. ASSUME NEW pool, NEW t, NEW g PROVE ReaderFinds(pool, t, g)' <=> ReaderFinds(pool, t, g)
    BY <1>1 DEF ReaderFinds, Reader, Comparable
  <2> QED BY <1>1, <2>1, <2>2 DEF ViewsOK, ViewOK
<1> QED BY <1>10, <1>11 DEF ViewsInv

\* Every step keeps the views.
LEMMA ViewsStep ==
  LoopTypes /\ SoundInv /\ LookInv /\ ViewsInv /\ [Next]_vars => ViewsInv'
<1> SUFFICES ASSUME LoopTypes, SoundInv, LookInv, ViewsInv, [Next]_vars PROVE ViewsInv'
  OBVIOUS
<1>1. CASE Report
  BY <1>1, ReportViews
<1>2. CASE Feed
  <2>1. entries' = entries /\ version' = version + 1 /\ version \in Nat
    BY <1>2 DEF Feed, duels, LoopTypes, BookOK
  <2>2. ASSUME NEW k \in DOMAIN entries PROVE ViewsOK(k, entries[k].views)'
    <3> DEFINE views == entries[k].views
    <3>1. ViewsOK(k, views)
      BY DEF ViewsInv
    <3>2. ASSUME NEW i \in DOMAIN views
          PROVE  /\ views[i].seen_at[1] <= views[i].seen_at[3]
                 /\ views[i].seen_at[3] <= version' /\ views[i].seen_at[1] # version'
      <4>1. views[i] \in ViewType /\ ViewOK(k[2], views[i])
        BY <3>1 DEF ViewsOK
      <4>2. views[i].seen_at \in Nat \X Nat \X Nat
        BY <4>1 DEF ViewType
      <4> QED BY <2>1, <4>1, <4>2 DEF ViewOK
    <3> QED BY <2>1, <3>1, <3>2 DEF ViewsOK, ViewOK
  <2> QED BY <2>1, <2>2 DEF ViewsInv
<1>3. ASSUME prices' = prices, version' = version, DOMAIN entries' \subseteq DOMAIN entries,
             \A k \in DOMAIN entries' : entries'[k] = entries[k]
      PROVE  ViewsInv'
  <2>1. ASSUME NEW k \in DOMAIN entries' PROVE ViewsOK(k, entries[k].views)'
    <3>1. ViewsOK(k, entries'[k].views)
      BY <1>3 DEF ViewsInv
    <3>2. ASSUME NEW pool, NEW t, NEW g
          PROVE  ReaderFinds(pool, t, g)' <=> ReaderFinds(pool, t, g)
      BY <1>3 DEF ReaderFinds, Reader, Comparable
    <3> QED BY <1>3, <3>1, <3>2 DEF ViewsOK, ViewOK
  <2> QED BY <1>3, <2>1 DEF ViewsInv
<1>4. CASE Flush
  BY <1>3, <1>4 DEF Flush, evict_duels, Restrict, history
<1>5. CASE UNCHANGED <<prices, version, entries>>
  BY <1>3, <1>5
<1> QED
  BY <1>1, <1>2, <1>4, <1>5
  DEF Next, vars, duels, history, Deliver, Take, JudgeNext, JudgeOn, Operator, Tick

\* Two lanes that look at the same book at the same instant report the same
\* gap: gap_lost measures the market, never a difference between the bots.
THEOREM TerminalGapLostMeansMarketMoved == Spec => []GapLostMeansMarketMoved
<1> DEFINE Inv == SoundInv /\ LookInv /\ ViewsInv
<1>1. Init => Inv
  BY DEF Init, LaneBotInit, DuelInit, SoundInv, LookInv, ViewsInv
<1>2. LoopTypes /\ Inv /\ [Next]_vars => Inv'
  BY SoundStep, LookStep, ViewsStep
<1>3. ViewsInv => GapLostMeansMarketMoved
  BY DEF ViewsInv, ViewsOK, ViewsAgree, GapLostMeansMarketMoved
<1> QED BY <1>1, <1>2, <1>3, TerminalTypes, PTL DEF Spec
-----------------------------------------------------------------------------
(* Finds and offers *)

\* The counters of the executors, and what they were offered.
OfferInv == stats \in [Lanes -> [Exec!Counters -> Nat]] /\ FindsAreOffered

\* An attempt is counted once as offered, whether it is refused or not.
LEMMA AttemptCounts ==
  ASSUME NEW lane \in Lanes, NEW net, stats \in [Lanes -> [Exec!Counters -> Nat]],
         Attempt(lane, net)
  PROVE  /\ stats' \in [Lanes -> [Exec!Counters -> Nat]]
         /\ \A l \in Lanes \ {lane} : stats'[l] = stats[l]
         /\ stats'[lane]["offered"] = stats[lane]["offered"] + 1
<1>1. ASSUME NEW c, "offered" \in c, Exec!Count(lane, c)
      PROVE  /\ stats' \in [Lanes -> [Exec!Counters -> Nat]]
             /\ \A l \in Lanes \ {lane} : stats'[l] = stats[l]
             /\ stats'[lane]["offered"] = stats[lane]["offered"] + 1
  <2> DEFINE new == [k \in Exec!Counters |-> IF k \in c THEN stats[lane][k] + 1
                                                        ELSE stats[lane][k]]
  <2>1. stats' = [stats EXCEPT ![lane] = new]
    BY <1>1 DEF Exec!Count
  <2>2. "offered" \in Exec!Counters
    BY DEF Exec!Counters
  <2>3. new \in [Exec!Counters -> Nat] /\ new["offered"] = stats[lane]["offered"] + 1
    BY <1>1, <2>2
  <2> HIDE DEF new
  <2> QED BY <2>1, <2>3
<1>2. CASE Exec!Refuse(lane, net, 0)
  <2>1. \E v : Exec!Count(lane, Exec!RefusalCounters(v))
    BY <1>2 DEF Exec!Refuse
  <2>2. \A v : "offered" \in Exec!RefusalCounters(v)
    BY DEF Exec!RefusalCounters
  <2> QED BY <1>1, <2>1, <2>2
<1>3. CASE Exec!SkipDryRun(lane, net, 0)
  <2>1. Exec!Count(lane, {"offered"})
    BY <1>3 DEF Exec!SkipDryRun
  <2> QED BY <1>1, <2>1
<1> QED BY <1>2, <1>3 DEF Attempt

\* The other counters leave it alone.
LEMMA BumpOther ==
  ASSUME lane_stats \in [Lanes -> Stats], NEW l \in Lanes,
         NEW c \in {"seen", "duplicates", "no_price", "below_cost"},
         lane_stats' = Bump(l, c)
  PROVE  \A k \in Lanes : lane_stats'[k].actionable = lane_stats[k].actionable
<1>1. c \in {"seen", "duplicates", "no_price", "actionable", "below_cost"}
      /\ c # "actionable" /\ "actionable" \in {"seen", "no_price", "actionable", "below_cost"}
  OBVIOUS
<1>2. /\ \A k \in Lanes \ {l} : Bump(l, c)[k] = lane_stats[k]
      /\ \A d \in {"seen", "no_price", "actionable", "below_cost"} :
           Bump(l, c)[l][d] = IF c = d THEN lane_stats[l][d] + 1 ELSE lane_stats[l][d]
  BY <1>1, BumpEffect
<1>3. Bump(l, c)[l].actionable = lane_stats[l].actionable
  BY <1>1, <1>2
<1> QED BY <1>2, <1>3

\* Only a report adds to what a bot calls actionable.
LEMMA OfferStep == LoopTypes /\ OfferInv /\ [Next]_vars => OfferInv'
<1> SUFFICES ASSUME LoopTypes, OfferInv, [Next]_vars PROVE OfferInv'
  OBVIOUS
<1>1. /\ BookOK /\ LoopOK /\ BotOK /\ lane_stats \in [Lanes -> Stats]
      /\ stats \in [Lanes -> [Exec!Counters -> Nat]]
      /\ \A l \in Lanes : stats[l]["offered"] = lane_stats[l].actionable
  BY DEF LoopTypes, BotOK, OfferInv, FindsAreOffered
<1>2. ASSUME stats' = stats,
             \A l \in Lanes : lane_stats'[l].actionable = lane_stats[l].actionable
      PROVE  OfferInv'
  BY <1>1, <1>2 DEF OfferInv, FindsAreOffered
<1>3. CASE JudgeNext
  <2> DEFINE e == [lane |-> current.lane, sig |-> current.sig, at |-> current.at,
                   pool |-> Head(current.left)]
  <2>1. e.lane \in Lanes
    BY <1>1, <1>3, TriggerTyped
  <2>2. (Duplicate(e) \/ NoPrice(e) \/ Begin(e)) /\ stats' = stats
    BY <1>3 DEF JudgeNext, executor
  <2> HIDE DEF e
  <2>3. ASSUME NEW c \in {"duplicates", "seen"}, lane_stats' = Bump(e.lane, c)
        PROVE  \A l \in Lanes : lane_stats'[l].actionable = lane_stats[l].actionable
    BY <1>1, <2>1, <2>3, BumpOther
  <2>4. CASE NoPrice(e)
    BY <1>1, <1>2, <2>1, <2>2, <2>4, NoPriceEffect DEF NoPrice
  <2> QED BY <1>2, <2>2, <2>3, <2>4 DEF Duplicate, Begin
<1>4. CASE JudgeOn
  <2>1. stats' = stats
    BY <1>4 DEF JudgeOn, executor
  <2>2. CASE PassOver
    BY <1>2, <2>1, <2>2 DEF PassOver
  <2>3. CASE Compare
    BY <1>1, <1>2, <2>1, <2>3, CompareEffect
  <2>4. CASE ReturnNone
    <3>1. judging.lane \in Lanes /\ lane_stats' = Bump(judging.lane, "no_price")
      BY <1>1, <2>4 DEF ReturnNone, Judged, BotOK, IsJudgement
    <3> QED BY <1>1, <1>2, <2>1, <3>1, BumpOther
  <2> QED BY <1>4, <2>2, <2>3, <2>4 DEF JudgeOn
<1>5. CASE Report
  <2> DEFINE lane == judging.lane
  <2>1. /\ lane \in Lanes
        /\ lane_stats' = Bump(lane, IF judging.best.ok THEN "actionable" ELSE "below_cost")
        /\ IF judging.best.ok THEN Attempt(lane, Found.net_lamports) ELSE stats' = stats
    BY <1>1, <1>5 DEF Report, ReturnFound, Judged, BotOK, IsJudgement, Found, executor
  <2> HIDE DEF lane
  <2>2. CASE judging.best.ok
    <3>1. /\ \A l \in Lanes \ {lane} : lane_stats'[l] = lane_stats[l]
          /\ lane_stats'[lane].actionable = lane_stats[lane].actionable + 1
      BY <1>1, <2>1, <2>2, BumpEffect
    <3>2. /\ stats' \in [Lanes -> [Exec!Counters -> Nat]]
          /\ \A l \in Lanes \ {lane} : stats'[l] = stats[l]
          /\ stats'[lane]["offered"] = stats[lane]["offered"] + 1
      BY <1>1, <2>1, <2>2, AttemptCounts
    <3> QED BY <1>1, <2>1, <3>1, <3>2 DEF OfferInv, FindsAreOffered
  <2>3. CASE ~judging.best.ok
    <3>1. lane_stats' = Bump(lane, "below_cost") /\ stats' = stats
      BY <2>1, <2>3
    <3> QED BY <1>1, <1>2, <2>1, <3>1, BumpOther
  <2> QED BY <2>2, <2>3
<1>6. CASE UNCHANGED <<stats, lane_stats>>
  BY <1>2, <1>6
<1>7. Operator => UNCHANGED <<stats, lane_stats>>
  BY DEF Operator, bot, Exec!TouchKillFile, Exec!RemoveKillFile
<1> QED
  BY <1>3, <1>4, <1>5, <1>6, <1>7
  DEF Next, vars, bot, executor, Deliver, Take, Flush, Feed, Tick

\* Whatever the kill file does, an executor is offered exactly the trades its
\* lane's bot calls actionable.
THEOREM TerminalFindsAreOffered == Spec => []FindsAreOffered
<1>1. Init => OfferInv
  <2> SUFFICES ASSUME Init PROVE OfferInv
    OBVIOUS
  <2>1. /\ stats = [l \in Lanes |-> [k \in Exec!Counters |-> 0]]
        /\ lane_stats = [l \in Lanes |-> NoStats]
    BY DEF Init, LaneBotInit, Exec!Init
  <2> QED BY <2>1 DEF OfferInv, FindsAreOffered, NoStats, Exec!Counters
<1>2. OfferInv => FindsAreOffered
  BY DEF OfferInv
<1> QED BY <1>1, <1>2, OfferStep, TerminalTypes, PTL DEF Spec
-----------------------------------------------------------------------------
(* The score of an event *)

\* Every entry is scored, and reported by finitely many lanes.
ScoreInv ==
  \A k \in DOMAIN entries : /\ IsFiniteSet(DOMAIN entries[k].times)
                            /\ entries[k].views \in Seq(ViewType)
                            /\ EntryScored(entries[k])

\* Entry::settle scores the entry after one more report.
LEMMA ScoreGrows ==
  ASSUME NEW e, e.views \in Seq(ViewType), DOMAIN e.times \subseteq Lanes,
         IsFiniteSet(DOMAIN e.times), EntryScored(e),
         NEW lane \in Lanes, lane \notin DOMAIN e.times, NEW found,
         NEW r, HasReport(r, e, lane, found), NEW new \in settle(r),
         \A l \in DOMAIN r.times : r.times[l] \in Nat
  PROVE  EntryScored(new) /\ IsFiniteSet(DOMAIN new.times)
<1> DEFINE v == [lane |-> lane, gap_bps |-> found.gap_bps,
                 tradeable |-> found.tradeable, seen_at |-> found.seen_at]
           D == DOMAIN r.times
           n == Len(e.views) + 1
<1>1. /\ DOMAIN r = EntryFields /\ D = DOMAIN e.times \cup {lane}
      /\ r.views = Append(e.views, v) /\ r.first = e.first /\ v.lane = lane
  BY DEF HasReport
<1>2. /\ {e.views[i].lane : i \in DOMAIN e.views} = DOMAIN e.times
      /\ Len(e.views) = Cardinality(DOMAIN e.times)
      /\ (e.first = Unset) = (Len(e.views) < 2)
  BY DEF EntryScored
<1>3. IsFiniteSet(D) /\ Cardinality(D) = Cardinality(DOMAIN e.times) + 1
  BY <1>1, FS_AddElement
<1> HIDE DEF v
<1>4. /\ DOMAIN r.views = DOMAIN e.views \cup {n} /\ r.views[n] = v /\ Len(r.views) = n
      /\ \A i \in DOMAIN e.views : r.views[i] = e.views[i]
  <2>1. \E S : e.views \in Seq(S) /\ v \in S
    <3>1. e.views \in Seq(ViewType \cup {v})
      OBVIOUS
    <3> QED BY <3>1
  <2> QED BY <1>1, <2>1
<1>5. {r.views[i].lane : i \in DOMAIN r.views} = D
  BY <1>1, <1>2, <1>4
<1>6. Len(r.views) = Cardinality(D) /\ Len(r.views) \in Nat /\ Len(e.views) \in Nat
  BY <1>2, <1>3, <1>4
<1> HIDE DEF n
<1>7. /\ new.times = r.times /\ new.views = r.views
      /\ Cardinality(D) < 2 => new = r
      /\ ~(Cardinality(D) < 2) => \E two \in FirstTwo(r.times) :
           /\ new.first = two[1]
           /\ new.head_start = r.times[two[2]] - r.times[two[1]]
  BY <1>1, SettleKeeps
<1>8. CASE Cardinality(D) < 2
  <2>1. new = r
    BY <1>7, <1>8
  <2>2. Len(e.views) < 2
    BY <1>2, <1>3, <1>6, <1>8
  <2>3. e.first = Unset
    BY <1>2, <2>2
  <2>4. (new.first = Unset) = (Len(new.views) < 2)
    BY <1>1, <1>6, <1>8, <2>1, <2>3
  <2>5. DOMAIN new.times = D /\ {new.views[i].lane : i \in DOMAIN new.views} = D
        /\ Len(new.views) = Cardinality(D)
    BY <1>5, <1>6, <1>7
  <2>6. new.first = Unset
    BY <1>1, <2>1, <2>3
  <2> HIDE DEF D
  <2> QED BY <1>3, <2>4, <2>5, <2>6 DEF EntryScored
<1>9. CASE ~(Cardinality(D) < 2)
  <2>1. PICK two \in FirstTwo(r.times) :
          /\ new.first = two[1]
          /\ new.head_start = r.times[two[2]] - r.times[two[1]]
    BY <1>7, <1>9
  <2>2. /\ two[1] \in D /\ two[2] \in D /\ two[1] # two[2]
        /\ r.times[two[1]] <= r.times[two[2]]
        /\ \A c \in D \ {two[1], two[2]} : r.times[two[2]] <= r.times[c]
    BY DEF FirstTwo
  <2>3. two[1] # Unset
    BY <1>1, <2>2, TerminalAssumption
  <2>4. (new.first = Unset) = (Len(new.views) < 2)
    BY <1>6, <1>7, <1>9, <2>1, <2>3
  <2>5. \A l \in D : r.times[two[1]] <= r.times[l]
    BY <2>2
  <2>6. new.head_start >= 0
    BY <2>1, <2>2
  <2>7. r.times[two[2]] = r.times[two[1]] + new.head_start
    BY <2>1, <2>2
  <2>8. \E l \in D \ {new.first} : new.times[l] = new.times[new.first] + new.head_start
    BY <1>7, <2>1, <2>2, <2>7
  <2>9. \A l \in D : new.times[new.first] <= new.times[l]
    BY <1>7, <2>1, <2>5
  <2>10. DOMAIN new.times = D /\ {new.views[i].lane : i \in DOMAIN new.views} = D
         /\ Len(new.views) = Cardinality(D)
    BY <1>5, <1>6, <1>7
  <2> HIDE DEF D
  <2> QED BY <1>3, <2>4, <2>6, <2>8, <2>9, <2>10 DEF EntryScored
<1> QED BY <1>8, <1>9

\* Every step keeps the score.
LEMMA ScoreStep ==
  LoopTypes /\ CreditInv /\ CreditInv' /\ ViewsInv' /\ ScoreInv /\ [Next]_vars => ScoreInv'
<1> SUFFICES ASSUME LoopTypes, CreditInv, CreditInv', ViewsInv', ScoreInv, [Next]_vars
             PROVE  ScoreInv'
  OBVIOUS
<1>1. CASE Report
  <2> DEFINE r == Reported(OldEntry, judging.lane, View)
  <2>1. \A k \in DOMAIN entries : IsEntry(k, entries[k])
    BY DEF CreditInv
  <2>2. \A k \in DOMAIN entries : DOMAIN entries[k] = EntryFields
    BY <2>1 DEF IsEntry
  <2>3. /\ DOMAIN OldEntry = EntryFields
        /\ DOMAIN entries' = DOMAIN entries \cup {Key}
        /\ \A k \in DOMAIN entries \ {Key} : entries'[k] = entries[k]
        /\ \/ judging.lane \in DOMAIN OldEntry.times /\ entries'[Key] = OldEntry
           \/ /\ judging.lane \notin DOMAIN OldEntry.times /\ entries'[Key] \in settle(r)
    BY <1>1, <2>2, ReportEffect
  <2>4. judging.lane \in Lanes
    BY <1>1 DEF Report, ReturnFound, Judged, LoopTypes, BotOK, IsJudgement
  <2>5. /\ IsFiniteSet(DOMAIN OldEntry.times) /\ OldEntry.views \in Seq(ViewType)
        /\ DOMAIN OldEntry.times \subseteq Lanes /\ EntryScored(OldEntry)
    <3>1. CASE Key \in DOMAIN entries
      BY <2>1, <3>1 DEF OldEntry, ScoreInv, IsEntry
    <3>2. CASE Key \notin DOMAIN entries
      <4>1. /\ OldEntry.views = <<>> /\ DOMAIN OldEntry.times = {} /\ OldEntry.first = Unset
        BY <3>2 DEF OldEntry, NewEntry
      <4>2. IsFiniteSet({}) /\ Cardinality({}) = 0
        BY FS_EmptySet
      <4> QED BY <4>1, <4>2 DEF EntryScored
    <3> QED BY <3>1, <3>2
  <2>6. IsFiniteSet(DOMAIN entries'[Key].times) /\ EntryScored(entries'[Key])
    <3>1. CASE entries'[Key] = OldEntry
      BY <2>5, <3>1
    <3>2. CASE judging.lane \notin DOMAIN OldEntry.times /\ entries'[Key] \in settle(r)
      <4>1. HasReport(r, OldEntry, judging.lane, View)
        BY <2>3, ReportedFields
      <4> HIDE DEF r
      <4>2. entries'[Key].times = r.times
        BY <3>2, <4>1, SettleKeeps DEF HasReport
      <4>3. Key \in DOMAIN entries'
        BY <2>3
      <4>4. \A l \in DOMAIN entries'[Key].times : entries'[Key].times[l] \in Nat
        BY <4>3 DEF CreditInv, IsEntry
      <4>5. \A l \in DOMAIN r.times : r.times[l] \in Nat
        BY <4>2, <4>4
      <4> QED BY <2>4, <2>5, <3>2, <4>1, <4>5, ScoreGrows
    <3> QED BY <2>3, <3>1, <3>2
  <2>7. ASSUME NEW k \in DOMAIN entries'
        PROVE  /\ IsFiniteSet(DOMAIN entries'[k].times)
               /\ entries'[k].views \in Seq(ViewType) /\ EntryScored(entries'[k])
    <3>1. entries'[k].views \in Seq(ViewType)
      BY DEF ViewsInv, ViewsOK
    <3> QED BY <2>3, <2>6, <3>1 DEF ScoreInv
  <2> QED BY <2>7 DEF ScoreInv
<1>2. CASE DOMAIN entries' \subseteq DOMAIN entries
           /\ \A k \in DOMAIN entries' : entries'[k] = entries[k]
  BY <1>2 DEF ScoreInv
<1>3. CASE Flush
  BY <1>2, <1>3 DEF Flush, evict_duels, Restrict
<1>4. CASE UNCHANGED entries
  BY <1>2, <1>4
<1> QED
  BY <1>1, <1>3, <1>4
  DEF Next, vars, duels, Deliver, Take, JudgeNext, JudgeOn, Feed, Operator, Tick

\* An event is scored exactly when two lanes have reported it: the winner was
\* told first, by the head start shown, and no lane is scored that missed it.
THEOREM TerminalEntriesScored == Spec => []EntriesScored
<1> DEFINE Inv == StampInv /\ SoundInv /\ LookInv /\ ViewsInv /\ ScoreInv
<1>1. Init => SoundInv /\ LookInv /\ ViewsInv /\ ScoreInv
  BY DEF Init, LaneBotInit, DuelInit, SoundInv, LookInv, ViewsInv, ScoreInv
<1>2. LoopTypes /\ Inv /\ [Next]_vars => Inv'
  <2> SUFFICES ASSUME LoopTypes, Inv, [Next]_vars PROVE Inv'
    OBVIOUS
  <2>1. StampInv' /\ SoundInv' /\ LookInv' /\ ViewsInv'
    BY StampStep, SoundStep, LookStep, ViewsStep
  <2>2. CreditInv /\ CreditInv'
    BY <2>1 DEF StampInv
  <2> QED BY <2>1, <2>2, ScoreStep
<1>3. ScoreInv => EntriesScored
  BY DEF ScoreInv, EntriesScored
<1> QED BY <1>1, <1>2, <1>3, StampInit, TerminalTypes, PTL DEF Spec

-----------------------------------------------------------------------------
(* The executors inside the terminal *)

\* The theorems about executors, for the executors the loop runs: without a
\* broker and in a dry run.
Ledg == INSTANCE ExecutorProofs WITH
          Modes <- {"DryRun"}, mode <- "DryRun", HasBroker <- FALSE,
          skipped <- [l \in Lanes |-> [r \in {"dry_run", "limit"} |-> 0]],
          Nets <- Nat, Balances <- {0},
          per_attempt <- 1, session_cap <- 1, max_wallet <- 0, U64Max <- 2,
          MaxOffers <- MaxDeliveries * Len(PoolBook)

\* What those theorems assume of their constants is true of the terminal's.
LEMMA LedgAssumes == Ledg!KeptAssumption /\ Ledg!ExecutorAssumption
<1>1. Ledg!IsFiniteSet(Lanes)
  BY TerminalAssumption DEF IsFiniteSet, Ledg!IsFiniteSet
<1>2. MaxDeliveries * Len(PoolBook) \in Nat
  BY TerminalAssumption, PriceBookAssumption
<1> QED BY <1>1, <1>2, TerminalAssumption, LaneBotAssumption

\* Every step of the loop is a step of the executors or none of their business.
LEMMA ExecStep == LoopTypes /\ SoundInv /\ [Next]_vars => [Ledg!Next]_(Ledg!vars)
<1> SUFFICES ASSUME LoopTypes, SoundInv, [Next]_vars PROVE [Ledg!Next]_(Ledg!vars)
  OBVIOUS
<1>1. CASE Report
  <2>1. CASE Found.tradeable
    <3>1. /\ judging.lane \in Lanes /\ judging # Idle /\ IsJudgement(judging)
          /\ Attempt(judging.lane, Found.net_lamports)
      BY <1>1, <2>1 DEF Report, ReturnFound, Judged, LoopTypes, BotOK, IsJudgement
    <3>2. Found.net_lamports \in Nat
      <4>1. judging.best.ok /\ Found.net_lamports = judging.best.net_lamports
        BY <2>1 DEF Found
      <4>2. <<judging.best.with, judging.best.gap, judging.best.net_lamports>> \in Offers(judging)
        BY <3>1, <4>1 DEF SoundInv, JudgementSound, BestOf
      <4>3. PICK p \in DOMAIN judging.read : \E v \in Open(judging, judging.read[p]) :
              v.net_lamports = judging.best.net_lamports
        BY <4>2 DEF Offers
      <4>4. IsPriced(judging.moved) /\ IsPriced(judging.read[p])
        BY <3>1 DEF IsJudgement, SoundInv, JudgementSound
      <4> QED BY <4>1, <4>3, <4>4, NetIsNat
    <3>3. /\ Exec!Refuse(judging.lane, Found.net_lamports, 0)
               => Ledg!Refuse(judging.lane, Found.net_lamports, 0)
          /\ Exec!SkipDryRun(judging.lane, Found.net_lamports, 0)
               => Ledg!SkipDryRun(judging.lane, Found.net_lamports, 0)
      BY Zenon DEF
          Exec!Refuse, Ledg!Refuse, Exec!SkipDryRun, Ledg!SkipDryRun, Exec!Offered,
          Ledg!Offered, Exec!NoAttempt, Ledg!NoAttempt, Exec!check, Ledg!check,
          Exec!OverCap, Ledg!OverCap, Exec!saturating_add, Ledg!saturating_add,
          Exec!ReachesBroker, Ledg!ReachesBroker, Exec!Count, Ledg!Count,
          Exec!Counters, Ledg!Counters, Exec!RefusalCounters, Ledg!RefusalCounters,
          Exec!Book, Ledg!Book, Exec!booking_of, Ledg!booking_of, Exec!record,
          Ledg!record, Exec!totals_with, Ledg!totals_with, Exec!Larger,
          Ledg!Larger, Exec!tape_with, Ledg!tape_with
    <3> QED BY <3>1, <3>2, <3>3 DEF Attempt, Ledg!Next
  <2>2. CASE ~Found.tradeable
    BY <1>1, <2>2 DEF Report, executor, Ledg!vars, Ledg!ledger
  <2> QED BY <2>1, <2>2
<1>2. CASE Operator
  <2>1. /\ Exec!TouchKillFile => Ledg!TouchKillFile
        /\ Exec!RemoveKillFile => Ledg!RemoveKillFile
    BY DEF Exec!TouchKillFile, Ledg!TouchKillFile, Exec!RemoveKillFile,
           Ledg!RemoveKillFile, Exec!ledger, Ledg!ledger
  <2> QED BY <1>2, <2>1 DEF Operator, Ledg!Next
<1>3. CASE UNCHANGED executor
  BY <1>3 DEF executor, Ledg!vars, Ledg!ledger
<1> QED
  BY <1>1, <1>2, <1>3
  DEF Next, vars, Deliver, Take, JudgeNext, JudgeOn, Flush, Feed, Tick

\* The loop runs its executors as their specification says, so that whatever is
\* proved about executors is true of them.
THEOREM TerminalRunsExecutors == Spec => Ledg!Spec
<1>1. Init => Ledg!Init
  BY DEF Init, Exec!Init, Ledg!Init, Exec!LedgerInit, Ledg!LedgerInit,
         Exec!Counters, Ledg!Counters, Exec!NoAttempt, Ledg!NoAttempt,
         Exec!SkipReasons, Ledg!SkipReasons
<1>2. Init => SoundInv
  BY DEF Init, LaneBotInit, SoundInv
<1> QED BY <1>1, <1>2, ExecStep, SoundStep, TerminalTypes, PTL DEF Spec, Ledg!Spec

\* A find is booked once: what the bots call actionable is what the executors
\* were offered and, over all lanes, what the ledger holds.
THEOREM TerminalFindsAreBooked == Spec => []FindsAreBooked
<1>2. Spec => [](Ledg!LedgerAgrees /\ Ledg!IInv)
  BY LedgAssumes, TerminalRunsExecutors, Ledg!ExecutorLedgerAgrees, Ledg!ExecutorInvariant, PTL
<1>3. \A f : Ledg!SumFunction(f) = SumFunction(f)
  BY DEF SumFunction, Ledg!SumFunction, SumFunctionOnSet, Ledg!SumFunctionOnSet,
         FoldFunctionOnSet, Ledg!FoldFunctionOnSet, MapThenFoldSet, Ledg!MapThenFoldSet
<1>4. FindsAreOffered /\ Ledg!LedgerAgrees /\ Ledg!IInv => FindsAreBooked
  <2> SUFFICES ASSUME FindsAreOffered, Ledg!LedgerAgrees, Ledg!IInv PROVE FindsAreBooked
    OBVIOUS
  <2>1. in_broker = Ledg!NoAttempt /\ totals.attempts \in Nat
    BY DEF Ledg!IInv, Ledg!DryRunInv, Ledg!TypeOK
  <2>2. totals.attempts = Ledg!SumFunction([l \in Lanes |-> stats[l]["offered"]])
    BY <2>1 DEF Ledg!LedgerAgrees
  <2>3. [l \in Lanes |-> stats[l]["offered"]] = [l \in Lanes |-> lane_stats[l].actionable]
    BY DEF FindsAreOffered
  <2> QED BY <1>3, <2>2, <2>3 DEF FindsAreBooked
<1> QED BY <1>2, <1>4, TerminalFindsAreOffered, PTL

-----------------------------------------------------------------------------
(* The tape of events, and the wins *)

\* F[i] is what is kept of the first i members of s.
IsRetain(F, s, kept, n) ==
  F = [i \in 0 .. n |-> IF i = 0 THEN <<>>
                        ELSE IF s[i] \in kept THEN Append(F[i - 1], s[i]) ELSE F[i - 1]]

\* The recursion behind OrderKept is well defined.
LEMMA RetainExists ==
  ASSUME NEW s, NEW kept
  PROVE  \A n \in Nat : \E F : IsRetain(F, s, kept, n)
<1> DEFINE T == {n \in Nat : ~ \E F : IsRetain(F, s, kept, n)}
<1>1. ASSUME T # {} PROVE FALSE
  <2>0. T \in SUBSET Nat
    OBVIOUS
  <2>1. PICK n \in T : \A m \in T : n <= m
    <3> HIDE DEF T
    <3> QED BY <1>1, <2>0, LeastOf
  <2>2. CASE n = 0
    <3> DEFINE F == [i \in 0 .. n |-> <<>>]
    <3>1. IsRetain(F, s, kept, n)
      BY <2>2 DEF IsRetain
    <3> HIDE DEF F
    <3> QED BY <2>1, <3>1
  <2>3. CASE n # 0
    <3>1. n \in Nat /\ n - 1 \in Nat /\ n - 1 \notin T
      BY <2>1, <2>3
    <3>2. PICK F : IsRetain(F, s, kept, n - 1)
      BY <3>1
    <3> DEFINE G == [i \in 0 .. n |-> IF i < n THEN F[i]
                       ELSE IF s[n] \in kept THEN Append(F[n - 1], s[n]) ELSE F[n - 1]]
    <3>3. \A i \in 0 .. n - 1 :
            F[i] = IF i = 0 THEN <<>>
                   ELSE IF s[i] \in kept THEN Append(F[i - 1], s[i]) ELSE F[i - 1]
      BY <3>2 DEF IsRetain
    <3>4. \A i \in 0 .. n :
            G[i] = IF i = 0 THEN <<>>
                   ELSE IF s[i] \in kept THEN Append(G[i - 1], s[i]) ELSE G[i - 1]
      <4> TAKE i \in 0 .. n
      <4>1. CASE i < n
        <5>1. i \in 0 .. n - 1 /\ G[i] = F[i]
          BY <3>1, <4>1
        <5>2. i # 0 => i - 1 \in 0 .. n /\ G[i - 1] = F[i - 1]
          BY <3>1, <4>1
        <5> HIDE DEF G
        <5> QED BY <3>3, <5>1, <5>2
      <4>2. CASE i = n
        <5>1. G[n - 1] = F[n - 1]
          BY <3>1
        <5> QED BY <2>3, <3>1, <4>2, <5>1
      <4> QED BY <3>1, <4>1, <4>2
    <3>5. G = [i \in 0 .. n |-> G[i]]
      OBVIOUS
    <3> HIDE DEF G
    <3>6. IsRetain(G, s, kept, n)
      BY <3>4, <3>5 DEF IsRetain
    <3> QED BY <2>1, <3>6
  <2> QED BY <2>2, <2>3
<1> QED BY <1>1

\* t holds the members of the first i of s that are kept, each once.
Keeps(t, s, kept, i) ==
  /\ t \in Seq(Events) /\ IsInjective(t)
  /\ \A k : (\E j \in DOMAIN t : t[j] = k) <=> k \in kept /\ \E j \in 1 .. i : s[j] = k

\* Looking at one more member of s.
LEMMA RetainOne ==
  ASSUME NEW s \in Seq(Events), IsInjective(s), NEW kept, NEW i \in 1 .. Len(s),
         NEW t, Keeps(t, s, kept, i - 1)
  PROVE  Keeps(IF s[i] \in kept THEN Append(t, s[i]) ELSE t, s, kept, i)
<1> DEFINE e == s[i]
           u == Append(t, e)
<1>1. t \in Seq(Events) /\ IsInjective(t) /\ e \in Events
  BY DEF Keeps
<1>2. \A k : (\E j \in 1 .. i : s[j] = k) <=> (k = e \/ \E j \in 1 .. i - 1 : s[j] = k)
  OBVIOUS
<1>3. CASE e \notin kept
  <2>1. \A k : k \in kept => k # e
    BY <1>3
  <2> HIDE DEF e
  <2>2. \A k : (\E j \in DOMAIN t : t[j] = k) <=> k \in kept /\ \E j \in 1 .. i : s[j] = k
    BY <1>2, <2>1 DEF Keeps
  <2> QED BY <1>1, <1>3, <2>2 DEF Keeps, e
<1>4. CASE e \in kept
  <2>1. ~ \E j \in 1 .. i - 1 : s[j] = e
    <3>1. \A j \in 1 .. i - 1 : j \in DOMAIN s /\ i \in DOMAIN s /\ j # i
      OBVIOUS
    <3> QED BY <3>1 DEF IsInjective
  <2>2. \A j \in DOMAIN t : t[j] # e
    BY <2>1 DEF Keeps
  <2> HIDE DEF e
  <2>3. /\ u \in Seq(Events) /\ DOMAIN u = 1 .. Len(t) + 1 /\ DOMAIN t = 1 .. Len(t)
        /\ Len(t) \in Nat /\ u[Len(t) + 1] = e /\ \A j \in 1 .. Len(t) : u[j] = t[j]
    BY <1>1
  <2> HIDE DEF u
  <2>4. IsInjective(u)
    <3> SUFFICES ASSUME NEW a \in DOMAIN u, NEW b \in DOMAIN u, u[a] = u[b] PROVE a = b
      BY DEF IsInjective
    <3>1. CASE a \in DOMAIN t /\ b \in DOMAIN t
      BY <1>1, <2>3, <3>1 DEF IsInjective
    <3>2. CASE a = Len(t) + 1 \/ b = Len(t) + 1
      BY <2>2, <2>3, <3>2
    <3> QED BY <2>3, <3>1, <3>2
  <2>5. \A k : (\E j \in DOMAIN u : u[j] = k) <=> (k = e \/ \E j \in DOMAIN t : t[j] = k)
    <3> TAKE k
    <3>1. Len(t) + 1 \in DOMAIN u /\ \A j \in DOMAIN t : j \in DOMAIN u
      BY <2>3
    <3>2. \A j \in DOMAIN u : j = Len(t) + 1 \/ j \in DOMAIN t
      BY <2>3
    <3> QED BY <2>3, <3>1, <3>2
  <2>6. \A k : (\E j \in DOMAIN u : u[j] = k) <=> k \in kept /\ \E j \in 1 .. i : s[j] = k
    BY <1>2, <1>4, <2>5 DEF Keeps
  <2> QED BY <1>4, <2>3, <2>4, <2>6 DEF Keeps, e, u
<1> QED BY <1>3, <1>4

\* OrderKept keeps the events it is told to, each once.
LEMMA OrderKeptKeeps ==
  ASSUME order \in Seq(Events), IsInjective(order), NEW kept
  PROVE  Keeps(OrderKept(kept), order, kept, Len(order))
<1> DEFINE n == Len(order)
           F == CHOOSE G : IsRetain(G, order, kept, n)
<1>1. n \in Nat
  OBVIOUS
<1>2. OrderKept(kept) = F[n]
  BY DEF OrderKept, IsRetain
<1>3. IsRetain(F, order, kept, n)
  BY <1>1, RetainExists
<1> HIDE DEF F
<1>4. /\ F[0] = <<>>
      /\ \A i \in 1 .. n :
           F[i] = IF order[i] \in kept THEN Append(F[i - 1], order[i]) ELSE F[i - 1]
  <2> HIDE DEF n
  <2>1. \A i \in 0 .. n :
          F[i] = IF i = 0 THEN <<>>
                 ELSE IF order[i] \in kept THEN Append(F[i - 1], order[i]) ELSE F[i - 1]
    BY <1>3, Zenon DEF IsRetain
  <2>2. 0 \in 0 .. n /\ \A i \in 1 .. n : i \in 0 .. n /\ i # 0
    BY <1>1
  <2> QED BY <2>1, <2>2, Zenon
<1> DEFINE T == {i \in 0 .. n : ~Keeps(F[i], order, kept, i)}
<1>5. ASSUME T # {} PROVE FALSE
  <2>0. T \in SUBSET Nat
    BY <1>1
  <2>1. PICK i \in T : \A m \in T : i <= m
    <3> HIDE DEF T
    <3> QED BY <1>5, <2>0, LeastOf
  <2>2. CASE i = 0
    <3>1. Keeps(F[0], order, kept, 0)
      BY <1>4 DEF Keeps, IsInjective
    <3> QED BY <2>1, <2>2, <3>1
  <2>3. CASE i # 0
    <3>1. i \in 1 .. n /\ i - 1 \in 0 .. n /\ i - 1 \notin T
      BY <1>1, <2>1, <2>3
    <3>2. Keeps(F[i - 1], order, kept, i - 1)
      BY <3>1
    <3>3. Keeps(F[i], order, kept, i)
      <4> HIDE DEF T
      <4>1. F[i] = IF order[i] \in kept THEN Append(F[i - 1], order[i]) ELSE F[i - 1]
        BY <1>4, <3>1
      <4>2. i \in 1 .. Len(order)
        BY <3>1
      <4> QED BY <3>2, <4>1, <4>2, RetainOne
    <3> QED BY <2>1, <3>3
  <2> QED BY <2>2, <2>3
<1>6. n \in 0 .. n /\ n \notin T
  BY <1>1, <1>5
<1> QED BY <1>2, <1>6

\* The tape lists the events of the book, each once.
TapeInv ==
  /\ order \in Seq(Events) /\ IsInjective(order)
  /\ {order[i] : i \in DOMAIN order} = DOMAIN entries

\* Every step keeps tape and book together.
LEMMA TapeStep == LoopTypes /\ CreditInv /\ CreditInv' /\ TapeInv /\ [Next]_vars => TapeInv'
<1> SUFFICES ASSUME LoopTypes, CreditInv, CreditInv', TapeInv, [Next]_vars PROVE TapeInv'
  OBVIOUS
<1>1. CASE Report
  <2>1. \A k \in DOMAIN entries : DOMAIN entries[k] = EntryFields
    BY DEF CreditInv, IsEntry
  <2>2. DOMAIN entries' = DOMAIN entries \cup {Key}
    BY <1>1, <2>1, ReportEffect
  <2>3. Key \in Events
    BY <2>2 DEF CreditInv, IsEntry
  <2>4. order' = IF Key \in DOMAIN entries THEN order ELSE Append(order, Key)
    <3>1. record_duel(judging.lane, View)
      BY <1>1 DEF Report, View
    <3>2. <<View.sig, View.pool>> = Key
      BY ViewFields DEF Key
    <3> QED BY <3>1, <3>2, Zenon DEF record_duel
  <2>5. CASE Key \in DOMAIN entries
    <3>1. order' = order /\ DOMAIN entries' = DOMAIN entries
      BY <2>2, <2>4, <2>5
    <3> QED BY <3>1 DEF TapeInv, IsInjective
  <2>6. CASE Key \notin DOMAIN entries
    <3> DEFINE u == Append(order, Key)
    <3>1. \A j \in DOMAIN order : order[j] # Key
      BY <2>6 DEF TapeInv
    <3>2. /\ u \in Seq(Events) /\ DOMAIN u = 1 .. Len(order) + 1
          /\ DOMAIN order = 1 .. Len(order) /\ Len(order) \in Nat
          /\ u[Len(order) + 1] = Key /\ \A j \in 1 .. Len(order) : u[j] = order[j]
      BY <2>3 DEF TapeInv
    <3>3. order' = u
      BY <2>4, <2>6
    <3> HIDE DEF u
    <3>4. IsInjective(u)
      <4> SUFFICES ASSUME NEW a \in DOMAIN u, NEW b \in DOMAIN u, u[a] = u[b] PROVE a = b
        BY DEF IsInjective
      <4>1. CASE a \in DOMAIN order /\ b \in DOMAIN order
        BY <3>2, <4>1 DEF TapeInv, IsInjective
      <4>2. CASE a = Len(order) + 1 \/ b = Len(order) + 1
        BY <3>1, <3>2, <4>2
      <4> QED BY <3>2, <4>1, <4>2
    <3>5. {u[i] : i \in DOMAIN u} = {order[i] : i \in DOMAIN order} \cup {Key}
      <4>1. Len(order) + 1 \in DOMAIN u /\ \A j \in DOMAIN order : j \in DOMAIN u
        BY <3>2
      <4>2. \A j \in DOMAIN u : j = Len(order) + 1 \/ j \in DOMAIN order
        BY <3>2
      <4> QED BY <3>2, <4>1, <4>2
    <3> QED BY <2>2, <3>2, <3>3, <3>4, <3>5 DEF TapeInv
  <2> QED BY <2>5, <2>6
<1>2. CASE Flush
  <2> DEFINE kept == {k \in DOMAIN entries : now - entries[k].created < DuelTTL}
  <2>1. DOMAIN entries' = kept /\ order' = OrderKept(kept) /\ kept \subseteq DOMAIN entries
    BY <1>2 DEF Flush, evict_duels, Restrict
  <2> HIDE DEF kept
  <2>2. Keeps(OrderKept(kept), order, kept, Len(order))
    BY OrderKeptKeeps DEF TapeInv
  <2>3. DOMAIN order = 1 .. Len(order)
    BY DEF TapeInv
  <2>4. \A k \in kept : \E j \in 1 .. Len(order) : order[j] = k
    BY <2>1, <2>3 DEF TapeInv
  <2>5. {order'[i] : i \in DOMAIN order'} = kept
    BY <2>1, <2>2, <2>4 DEF Keeps
  <2> QED BY <2>1, <2>2, <2>5 DEF TapeInv, Keeps
<1>3. CASE UNCHANGED duels
  BY <1>3 DEF duels, TapeInv, IsInjective
<1> QED
  BY <1>1, <1>2, <1>3
  DEF Next, vars, Deliver, Take, JudgeNext, JudgeOn, Feed, Operator, Tick

-----------------------------------------------------------------------------
(* Wins and pairs *)

\* The lemmas about sums, for the sums of this module.
LEMMA Sums ==
  /\ \A f : SumFunctionOnSet(f, {}) = 0
  /\ \A f, S : IsFiniteSet(S) /\ (\A x \in S : f[x] \in Int) =>
       \A x \in S : SumFunctionOnSet(f, S) = f[x] + SumFunctionOnSet(f, S \ {x})
<1>1. \A f, S : Ledg!SumFunctionOnSet(f, S) = SumFunctionOnSet(f, S)
  BY DEF SumFunctionOnSet, Ledg!SumFunctionOnSet,
         FoldFunctionOnSet, Ledg!FoldFunctionOnSet, MapThenFoldSet, Ledg!MapThenFoldSet
<1>2. \A S : IsFiniteSet(S) => Ledg!IsFiniteSet(S)
  BY DEF IsFiniteSet, Ledg!IsFiniteSet
<1>3. \A f : SumFunctionOnSet(f, {}) = 0
  BY <1>1, LedgAssumes, Ledg!SumEmpty
<1>4. ASSUME NEW f, NEW S, IsFiniteSet(S), \A x \in S : f[x] \in Int, NEW x \in S
      PROVE  SumFunctionOnSet(f, S) = f[x] + SumFunctionOnSet(f, S \ {x})
  <2>1. Ledg!SumFunctionOnSet(f, S) = f[x] + Ledg!SumFunctionOnSet(f, S \ {x})
    BY <1>2, <1>4, LedgAssumes, Ledg!SumRemove
  <2> QED BY <1>1, <2>1
<1> QED BY <1>3, <1>4

\* Counting by winner counts every scored event once.
LEMMA WinsSum ==
  ASSUME NEW D, IsFiniteSet(D), NEW first, NEW W, IsFiniteSet(W)
  PROVE  SumFunctionOnSet([l \in W |-> Cardinality({k \in D : first[k] = l})], W)
           = Cardinality({k \in D : first[k] \in W})
<1> DEFINE Won(l) == {k \in D : first[k] = l}
           All(w) == {k \in D : first[k] \in w}
           f == [l \in W |-> Cardinality(Won(l))]
           T == {w \in SUBSET W : SumFunctionOnSet(f, w) # Cardinality(All(w))}
<1>1. \A l : IsFiniteSet(Won(l)) /\ Cardinality(Won(l)) \in Nat
  <2> TAKE l
  <2>1. IsFiniteSet(Won(l))
    BY FS_Subset
  <2> HIDE DEF Won
  <2> QED BY <2>1, FS_CardinalityType
<1>2. \A w : IsFiniteSet(All(w))
  BY FS_Subset
<1>3. \A l \in W : f[l] = Cardinality(Won(l)) /\ f[l] \in Int
  <2> HIDE DEF Won
  <2> QED BY <1>1
<1> HIDE DEF f
<1>4. ASSUME T # {} PROVE FALSE
  <2>0. T \in SUBSET SUBSET W
    OBVIOUS
  <2>a. \A S : IsFiniteSet(S) => Ledg!IsFiniteSet(S)
    BY DEF IsFiniteSet, Ledg!IsFiniteSet
  <2>1. PICK w \in T : \A y \in T : y \subseteq w => y = w
    <3> HIDE DEF T
    <3> QED BY <1>4, <2>0, <2>a, LedgAssumes, Ledg!SmallestSubset
  <2>2. w \in SUBSET W /\ IsFiniteSet(w)
    BY <2>1, FS_Subset
  <2>3. CASE w = {}
    <3>1. All(w) = {}
      BY <2>3
    <3>2. Cardinality({}) = 0
      BY FS_EmptySet
    <3> QED BY <2>1, <2>3, <3>1, <3>2, Sums
  <2>4. CASE w # {}
    <3>1. PICK l \in w : TRUE
      BY <2>4
    <3> DEFINE v == w \ {l}
    <3>2. v \in SUBSET W /\ v # w /\ v \subseteq w /\ l \in W
      BY <2>2, <3>1
    <3>3. SumFunctionOnSet(f, v) = Cardinality(All(v))
      BY <2>1, <3>2, Zenon
    <3>4. SumFunctionOnSet(f, w) = f[l] + SumFunctionOnSet(f, v)
      <4>1. \A x \in w : f[x] \in Int
        BY <1>3, <2>2
      <4> QED BY <2>2, <3>1, <4>1, Sums
    <3>5. All(w) = Won(l) \cup All(v) /\ Won(l) \cap All(v) = {}
      BY <3>1
    <3>6. Cardinality(All(w)) = Cardinality(Won(l)) + Cardinality(All(v))
      <4>1. IsFiniteSet(Won(l)) /\ IsFiniteSet(All(v))
        BY <1>1, <1>2
      <4> HIDE DEF Won, All, v
      <4>2. /\ Cardinality(Won(l) \cup All(v))
               = Cardinality(Won(l)) + Cardinality(All(v)) - Cardinality(Won(l) \cap All(v))
            /\ Cardinality(Won(l)) \in Nat /\ Cardinality(All(v)) \in Nat
        BY <4>1, FS_Union, FS_CardinalityType
      <4>3. Cardinality({}) = 0
        BY FS_EmptySet
      <4>4. Cardinality(All(w)) = Cardinality(Won(l)) + Cardinality(All(v)) - 0
        BY <3>5, <4>2, <4>3, Zenon
      <4> QED BY <4>2, <4>4
    <3>7. SumFunctionOnSet(f, w) = Cardinality(All(w))
      <4> HIDE DEF Won, All, v, T
      <4> QED BY <1>3, <3>2, <3>3, <3>4, <3>6
    <3> QED BY <2>1, <3>7
  <2> QED BY <2>3, <2>4
<1>5. SumFunctionOnSet(f, W) = Cardinality(All(W))
  BY <1>4
<1> QED BY <1>5 DEF f

\* The book is coherent after every report and every eviction: the tape lists
\* its events once each, each is scored by its reports, and the wins shown for
\* the lanes add up to the events that two lanes have reported.
THEOREM TerminalDuelsCoherent == Spec => []DuelsCoherent
<1> DEFINE Inv == StampInv /\ SoundInv /\ LookInv /\ ViewsInv /\ ScoreInv /\ TapeInv
<1>1. Init => SoundInv /\ LookInv /\ ViewsInv /\ ScoreInv /\ TapeInv
  BY DEF Init, LaneBotInit, DuelInit, SoundInv, LookInv, ViewsInv, ScoreInv, TapeInv,
         IsInjective
<1>2. LoopTypes /\ Inv /\ [Next]_vars => Inv'
  <2> SUFFICES ASSUME LoopTypes, Inv, [Next]_vars PROVE Inv'
    OBVIOUS
  <2>1. StampInv' /\ SoundInv' /\ LookInv' /\ ViewsInv'
    BY StampStep, SoundStep, LookStep, ViewsStep
  <2>2. CreditInv /\ CreditInv'
    BY <2>1 DEF StampInv
  <2> QED BY <2>1, <2>2, ScoreStep, TapeStep
<1>3. ScoreInv /\ TapeInv => DuelsCoherent
  <2> SUFFICES ASSUME ScoreInv, TapeInv PROVE DuelsCoherent
    OBVIOUS
  <2> DEFINE D == DOMAIN entries
             first == [k \in D |-> entries[k].first]
             W == {entries[k].first : k \in D} \ {Unset}
             P == {k \in D : Cardinality(DOMAIN entries[k].times) >= 2}
  <2>1. IsFiniteSet(D)
    <3>1. IsFiniteSet(1 .. Len(order)) /\ DOMAIN order = 1 .. Len(order)
      BY FS_Interval DEF TapeInv
    <3>2. order \in Surjection(1 .. Len(order), D)
      <4>1. order \in [1 .. Len(order) -> D]
        BY <3>1 DEF TapeInv
      <4>2. \A k \in D : \E i \in 1 .. Len(order) : order[i] = k
        BY <3>1 DEF TapeInv
      <4> QED BY <4>1, <4>2 DEF Surjection
    <3> QED BY <3>1, <3>2, FS_Surjection
  <2>2. IsFiniteSet(W)
    <3>1. IsFiniteSet({first[k] : k \in D})
      <4>1. first \in Surjection(D, {first[k] : k \in D})
        BY DEF Surjection
      <4> HIDE DEF first, D
      <4> QED BY <2>1, <4>1, FS_Surjection
    <3>2. W \subseteq {first[k] : k \in D}
      OBVIOUS
    <3> HIDE DEF W, first, D
    <3> QED BY <3>1, <3>2, FS_Subset
  <2>3. P = {k \in D : first[k] \in W}
    <3> SUFFICES ASSUME NEW k \in D
                 PROVE  Cardinality(DOMAIN entries[k].times) >= 2 <=> first[k] \in W
      OBVIOUS
    <3>1. /\ Len(entries[k].views) = Cardinality(DOMAIN entries[k].times)
          /\ (entries[k].first = Unset) = (Len(entries[k].views) < 2)
      BY DEF ScoreInv, EntryScored
    <3>2. Cardinality(DOMAIN entries[k].times) \in Nat
      BY FS_CardinalityType DEF ScoreInv
    <3>3. first[k] \in W <=> entries[k].first # Unset
      OBVIOUS
    <3> QED BY <3>1, <3>2, <3>3
  <2>4. [l \in W |-> wins(l)] = [l \in W |-> Cardinality({k \in D : first[k] = l})]
    <3>1. \A l : {k \in DOMAIN entries : entries[k].first = l} = {k \in D : first[k] = l}
      OBVIOUS
    <3> HIDE DEF W
    <3> QED BY <3>1 DEF wins
  <2>5. SumFunctionOnSet([l \in W |-> Cardinality({k \in D : first[k] = l})], W)
          = Cardinality({k \in D : first[k] \in W})
    <3> HIDE DEF D, W, first
    <3> QED BY <2>1, <2>2, WinsSum
  <2>6. paired = SumFunction([l \in W |-> wins(l)])
    <3>1. paired = Cardinality(P)
      BY DEF paired
    <3> HIDE DEF D, W, P, first
    <3> QED BY <2>3, <2>4, <2>5, <3>1 DEF SumFunction
  <2>7. EntriesScored
    BY DEF ScoreInv, EntriesScored
  <2> QED BY <2>6, <2>7 DEF DuelsCoherent, TapeInv
<1> QED BY <1>1, <1>2, <1>3, StampInit, TerminalTypes, PTL DEF Spec
=============================================================================
