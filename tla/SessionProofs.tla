---------------------------- MODULE SessionProofs ----------------------------
(***************************************************************************)
(* What evaluate answers on the prices of a session, for any prices, fees, *)
(* sizes and costs the book and the configuration may hold; what the rows  *)
(* of the screen say of the market and of the bot, for any pools and any   *)
(* interleaving of the feed with their lookups; and the books of a         *)
(* rehearsal after any number of steps.                                    *)
(***************************************************************************)
EXTENDS Session, DataProofs

\* A priced pool: a positive price, a fee, and an instant.
IsPriced(e) == e.price \in Nat \ {0} /\ e.fee_rate \in Nat /\ e.at \in Nat

\* An entry of the book, set at one of the instants T.
Entry(e, T) == IsPriced(e) /\ e.at \in T

\* A rehearsal prices every pool at every step, and its clock stands still.
Dates == IF command = "rehearse" THEN {now} ELSE Nat

\* The book holds nothing but priced pools, in a race and in a rehearsal.
BookInv ==
  /\ now \in Nat
  /\ command \in {"race", "rehearse"} /\ (command = "rehearse" => CanRehearse)
  /\ \A p \in DOMAIN prices : p \in Pools /\ Entry(prices[p], Dates)

\* A session starts with a book of positive prices.
LEMMA SessionInit == Init => BookInv
<1> SUFFICES ASSUME Init PROVE BookInv
  OBVIOUS
<1>1. CASE command = "rehearse"
  BY <1>1, SessionAssumption DEF Init, BookInv, EmptyBook
<1>2. CASE command = "race"
  <2>1. prices \in StartBooks /\ now = StartTime
    BY <1>2 DEF Init
  <2>2. ASSUME NEW p \in DOMAIN prices PROVE p \in Pools /\ Entry(prices[p], Dates)
    <3>1. /\ p \in Pools /\ prices[p].price \in Quotes[p]
          /\ prices[p].fee_rate = fee_rate[p] /\ prices[p].at \in 0 .. StartTime
      BY <2>1, SessionAssumption
    <3> QED BY <1>2, <3>1, PriceBookAssumption, SessionAssumption DEF Entry, Dates, IsPriced, Pools
  <2> QED BY <1>2, <2>1, <2>2, SessionAssumption DEF BookInv
<1> QED BY <1>1, <1>2 DEF Init

\* What no step of a session changes.
LEMMA SessionFrame ==
  ASSUME [Next]_vars
  PROVE  command' = command /\ (command = "rehearse" => now' = now) /\ Dates' = Dates
<1>1. command' = command /\ (command = "rehearse" => now' = now)
  BY DEF Next, vars, Feed, Ticker, Read, Rehearse, Tick
<1> QED BY <1>1 DEF Dates

\* Every step of a race or a rehearsal keeps it so.
LEMMA SessionStep == BookInv /\ [Next]_vars => BookInv'
<1> SUFFICES ASSUME BookInv, [Next]_vars PROVE BookInv'
  OBVIOUS
<1>1. command' = command /\ (command = "rehearse" => now' = now) /\ Dates' = Dates
  BY SessionFrame
<1>2. ASSUME now' \in Nat, \A p \in DOMAIN prices' : p \in Pools /\ Entry(prices'[p], Dates)
      PROVE  BookInv'
  BY <1>1, <1>2 DEF BookInv
<1>3. ASSUME prices' = prices, now' \in Nat PROVE BookInv'
  BY <1>2, <1>3 DEF BookInv
<1>4. CASE Feed
  <2>1. now' = now /\ BookNext /\ command = "race" /\ now \in Nat
    BY <1>4 DEF Feed, BookInv
  <2>2. CASE Clear
    BY <1>2, <2>1, <2>2 DEF Clear, EmptyBook
  <2>3. ASSUME NEW p \in Pools, NEW price \in Quotes[p], Quote(p, price)
        PROVE  BookInv'
    <3>1. price \in Nat \ {0} /\ fee_rate[p] \in Nat
      BY PriceBookAssumption DEF Pools
    <3>2. /\ DOMAIN prices' = DOMAIN prices \cup {p}
          /\ prices'[p] = [price |-> price, fee_rate |-> fee_rate[p], at |-> now]
          /\ \A q \in DOMAIN prices \ {p} : prices'[q] = prices[q]
      BY <2>3 DEF Quote
    <3>3. Entry(prices'[p], Dates)
      BY <2>1, <3>1, <3>2 DEF Entry, IsPriced, Dates
    <3> QED BY <1>2, <2>1, <3>2, <3>3 DEF BookInv
  <2> QED BY <2>1, <2>2, <2>3 DEF BookNext
<1>5. CASE Ticker
  BY <1>3, <1>5 DEF Ticker, BookInv
<1>6. CASE Read
  BY <1>3, <1>6 DEF Read, BookInv
<1>7. CASE Rehearse
  <2>1. now' = now /\ command = "rehearse" /\ now \in Nat
    BY <1>7 DEF Rehearse, BookInv
  <2>2. CASE prices' = prices
    BY <1>3, <2>1, <2>2
  <2>3. ASSUME NEW price, \A p \in Pools : price[p] \in Quotes[p], StepBegins(price)
        PROVE  BookInv'
    <3>1. prices' = [p \in Pools |-> [price |-> price[p], fee_rate |-> fee_rate[p], at |-> now]]
      BY <2>3 DEF StepBegins
    <3>2. \A p \in Pools : price[p] \in Nat \ {0} /\ fee_rate[p] \in Nat
      BY <2>3, PriceBookAssumption DEF Pools
    <3>3. \A p \in DOMAIN prices' : p \in Pools /\ Entry(prices'[p], Dates)
      BY <2>1, <3>1, <3>2 DEF Entry, IsPriced, Dates
    <3> QED BY <1>2, <2>1, <3>3
  <2> QED BY <1>7, <2>2, <2>3 DEF Rehearse, RowRolled, RowSkipped
<1>8. CASE Tick
  <2>1. now' = now + 1 /\ prices' = prices /\ now \in Nat
    BY <1>8 DEF Tick, BookInv
  <2> QED BY <1>3, <2>1
<1>9. CASE UNCHANGED vars
  BY <1>3, <1>9 DEF vars, BookInv
<1> QED BY <1>4, <1>5, <1>6, <1>7, <1>8, <1>9 DEF Next

\* The price book of a session is well formed in every state.
THEOREM SessionBookInvariant == Spec => []BookInv
  BY SessionInit, SessionStep, PTL DEF Spec

-----------------------------------------------------------------------------

\* Fees and gaps are numbers.
LEMMA ArbTypes ==
  ASSUME NEW sell, NEW buy, IsPriced(sell), IsPriced(buy), NEW n \in Nat
  PROVE  /\ fee_bps(sell) \in Nat /\ fee_bps(buy) \in Nat
         /\ ratio_bps(sell.price, buy.price) \in Int
         /\ net_bps(sell, buy) \in Int
         /\ n * net_bps(sell, buy) \in Int
         /\ (n * net_bps(sell, buy)) \div 10000 \in Int
<1> USE DEF IsPriced
<1>1. fee_bps(sell) \in Nat /\ fee_bps(buy) \in Nat
  BY DEF fee_bps
<1>2. (sell.price - buy.price) * 10000 \in Int /\ buy.price \in Nat \ {0}
  OBVIOUS
<1>3. ratio_bps(sell.price, buy.price) \in Int
  BY <1>2 DEF ratio_bps
<1>4. net_bps(sell, buy) \in Int
  BY <1>1, <1>3 DEF net_bps
<1>5. n * net_bps(sell, buy) \in Int
  BY <1>4
<1> QED BY <1>1, <1>3, <1>4, <1>5

\* An accepted trade passed every test of evaluate, and says what it earns.
LEMMA Accepted ==
  ASSUME NEW n, NEW sell, NEW buy, NEW t, IsPriced(sell), IsPriced(buy),
         evaluate(n, sell, buy, FALSE, t).ok
  PROVE  /\ n # 0 /\ fresh_enough(sell, buy, t)
         /\ sell.price > buy.price /\ ratio_bps(sell.price, buy.price) # 0
         /\ ~(ratio_bps(sell.price, buy.price) > IMPLAUSIBLE_BPS)
         /\ ~(net_bps(sell, buy) < 0) /\ ~(net_bps(sell, buy) < margin_bps)
         /\ net_lamports(n, sell, buy) # 0
         /\ evaluate(n, sell, buy, FALSE, t)
              = [ok |-> TRUE, gross_bps |-> ratio_bps(sell.price, buy.price),
                 net_lamports |-> net_lamports(n, sell, buy),
                 staleness |-> saturating_sub(t, IF sell.at <= buy.at THEN sell.at ELSE buy.at)]
<1>1. decline(n, sell, buy, FALSE, t) = "none"
  BY DEF evaluate
<1>2. /\ n # 0 /\ fresh_enough(sell, buy, t) /\ ~WrongWay(sell, buy)
      /\ ~(ratio_bps(sell.price, buy.price) > IMPLAUSIBLE_BPS)
      /\ ~(net_bps(sell, buy) < 0) /\ ~(net_bps(sell, buy) < margin_bps)
      /\ net_lamports(n, sell, buy) # 0
  BY <1>1 DEF decline
<1>3. sell.price > buy.price /\ ratio_bps(sell.price, buy.price) # 0
  BY <1>2 DEF WrongWay, IsPriced
<1> QED BY <1>1, <1>2, <1>3 DEF evaluate

\* on_trigger tries both ways round: evaluate never accepts both, for any two
\* prices, fees, sizes and costs.
THEOREM SessionOneWayOnly == Spec => []OneWayOnly
<1>1. BookInv => OneWayOnly
  <2> SUFFICES ASSUME BookInv, NEW r \in BookRoutes, NEW n \in Sizes,
                      Verdict(n, r).ok, Verdict(n, <<r[2], r[1]>>).ok
               PROVE  FALSE
    BY DEF OneWayOnly
  <2> DEFINE sell == prices[r[1]]
             buy  == prices[r[2]]
  <2>1. IsPriced(sell) /\ IsPriced(buy)
    BY DEF BookInv, BookRoutes, Entry
  <2>2. evaluate(n, sell, buy, FALSE, now).ok /\ evaluate(n, buy, sell, FALSE, now).ok
    BY DEF Verdict
  <2> HIDE DEF sell, buy
  <2>3. sell.price > buy.price /\ buy.price > sell.price
    BY <2>1, <2>2, Accepted
  <2> QED BY <2>1, <2>3 DEF IsPriced
<1> QED BY SessionBookInvariant, <1>1, PTL

\* AcceptedAddsUp of one verdict on one pair of prices.
TradeAddsUp(n, gap, fees, v) ==
  /\ v.gross_bps = gap
  /\ v.gross_bps \in 1 .. IMPLAUSIBLE_BPS
  /\ v.gross_bps >= fees + margin_bps
  /\ v.net_lamports > 0
  /\ (v.net_lamports + network_fee_lamports) * 10000 <= n * (v.gross_bps - fees)
  /\ v.staleness <= max_price_age

\* What an accepted trade says adds up.
LEMMA AcceptedTradeAddsUp ==
  ASSUME NEW sell, NEW buy, IsPriced(sell), IsPriced(buy), NEW n \in Nat, NEW t \in Nat,
         evaluate(n, sell, buy, FALSE, t).ok
  PROVE  TradeAddsUp(n, gap_bps(sell, buy), fee_bps(sell) + fee_bps(buy),
                     evaluate(n, sell, buy, FALSE, t))
<1> DEFINE v     == evaluate(n, sell, buy, FALSE, t)
           fees  == fee_bps(sell) + fee_bps(buy)
           gross == ratio_bps(sell.price, buy.price)
           earn  == n * (gross - fees)
<1>1. /\ fee_bps(sell) \in Nat /\ fee_bps(buy) \in Nat /\ gross \in Int
      /\ net_bps(sell, buy) \in Int /\ n * net_bps(sell, buy) \in Int
      /\ (n * net_bps(sell, buy)) \div 10000 \in Int
  BY ArbTypes
<1>2. net_bps(sell, buy) = gross - fees
  BY DEF net_bps
<1>3. /\ fresh_enough(sell, buy, t)
      /\ sell.price > buy.price /\ gross # 0
      /\ ~(gross > IMPLAUSIBLE_BPS)
      /\ ~(net_bps(sell, buy) < 0) /\ ~(net_bps(sell, buy) < margin_bps)
      /\ net_lamports(n, sell, buy) # 0
      /\ v = [ok |-> TRUE, gross_bps |-> gross, net_lamports |-> net_lamports(n, sell, buy),
              staleness |-> saturating_sub(t, IF sell.at <= buy.at THEN sell.at ELSE buy.at)]
  BY Accepted, Zenon
<1>4. gap_bps(sell, buy) = gross
  BY <1>3 DEF gap_bps
<1> HIDE DEF v
<1>15. /\ v.gross_bps = gross /\ v.net_lamports = net_lamports(n, sell, buy)
      /\ v.staleness = saturating_sub(t, IF sell.at <= buy.at THEN sell.at ELSE buy.at)
  BY <1>3
<1>5. v.staleness <= max_price_age
  BY <1>15, <1>3 DEF fresh_enough, saturating_sub, IsPriced
<1>6. net_lamports(n, sell, buy) = saturating_sub(earn \div 10000, network_fee_lamports)
  BY <1>2 DEF net_lamports
<1>7. earn \in Int /\ earn \div 10000 \in Int
  BY <1>1, <1>2
<1> HIDE DEF fees, gross, earn
<1>8. /\ net_lamports(n, sell, buy) = (earn \div 10000) - network_fee_lamports
      /\ net_lamports(n, sell, buy) > 0
  BY <1>3, <1>6, <1>7, ArbAssumption DEF saturating_sub
<1>9. (earn \div 10000) * 10000 <= earn
  BY <1>7
<1>10. (v.net_lamports + network_fee_lamports) * 10000 <= earn
  BY <1>15, <1>7, <1>8, <1>9, ArbAssumption
<1>11. fees \in Nat
  BY <1>1 DEF fees
<1>12. gross >= fees + margin_bps /\ gross \in 1 .. IMPLAUSIBLE_BPS
  BY <1>1, <1>2, <1>3, <1>11, ArbAssumption
<1>13. earn = n * (v.gross_bps - fees)
  BY <1>15 DEF earn
<1>14. /\ v.gross_bps = gap_bps(sell, buy)
       /\ v.gross_bps \in 1 .. IMPLAUSIBLE_BPS
       /\ v.gross_bps >= fees + margin_bps
       /\ v.net_lamports > 0
       /\ (v.net_lamports + network_fee_lamports) * 10000 <= n * (v.gross_bps - fees)
       /\ v.staleness <= max_price_age
  BY <1>15, <1>4, <1>5, <1>8, <1>10, <1>12, <1>13
<1>16. TradeAddsUp(n, gap_bps(sell, buy), fees, v)
  BY <1>14, SMT DEF TradeAddsUp
<1> QED BY <1>16 DEF v, fees

\* evaluate: an accepted trade's gross gap is the gap the screen reports, it is
\* plausible, it pays both pools, the margin and the network fee, and what it
\* is said to earn is no more than the gap leaves on its size.
THEOREM SessionAcceptedAddsUp == Spec => []AcceptedAddsUp
<1>1. BookInv => AcceptedAddsUp
  <2> SUFFICES ASSUME BookInv, NEW r \in BookRoutes, NEW n \in Sizes, Verdict(n, r).ok
               PROVE  TradeAddsUp(n, gap_bps(prices[r[1]], prices[r[2]]),
                                  fee_bps(prices[r[1]]) + fee_bps(prices[r[2]]),
                                  Verdict(n, r))
    BY SMT DEF AcceptedAddsUp, TradeAddsUp
  <2>1. /\ IsPriced(prices[r[1]]) /\ IsPriced(prices[r[2]]) /\ n \in Nat /\ now \in Nat
    BY SessionAssumption DEF BookInv, BookRoutes, Entry
  <2> QED BY <2>1, AcceptedTradeAddsUp DEF Verdict
<1> QED BY SessionBookInvariant, <1>1, PTL

\* The tests of evaluate other than the last do not look at the size of the
\* trade, as long as there is one.
LEMMA SizeOnlyLast ==
  ASSUME NEW sell, NEW buy, NEW t, NEW n, NEW k, n # 0,
         decline(n, sell, buy, FALSE, t) \notin {"none", "TooSmallForTheFee"}
  PROVE  ~evaluate(k, sell, buy, FALSE, t).ok
<1>1. decline(k, sell, buy, FALSE, t) # "none"
  BY DEF decline
<1> QED BY <1>1 DEF evaluate

\* A trade declined as too small clears the network fee at a size where one
\* basis point does.
LEMMA EnoughIsEnough ==
  ASSUME NEW sell, NEW buy, IsPriced(sell), IsPriced(buy), NEW t, NEW n,
         decline(n, sell, buy, FALSE, t) = "TooSmallForTheFee", net_bps(sell, buy) > 0
  PROVE  evaluate(Enough, sell, buy, FALSE, t).ok
<1> DEFINE k == net_bps(sell, buy)
<1>1. k \in Nat \ {0} /\ Enough \in Nat
  BY ArbTypes, SessionAssumption
<1> HIDE DEF k
<1>2. Enough * k >= Enough /\ Enough * k \in Nat
  BY <1>1
<1>3. (Enough * k) \div 10000 >= Enough \div 10000
  BY <1>1, <1>2
<1>4. /\ (Enough * k) \div 10000 \in Nat /\ Enough \div 10000 \in Nat
  BY <1>1, <1>2
<1>5. saturating_sub((Enough * k) \div 10000, network_fee_lamports) # 0
  BY <1>3, <1>4, SessionAssumption, ArbAssumption DEF saturating_sub
<1>6. net_lamports(Enough, sell, buy) # 0
  BY <1>5 DEF net_lamports, k
<1>7. Enough # 0
  BY <1>1, SessionAssumption, ArbAssumption
<1>8. decline(Enough, sell, buy, FALSE, t) = "none"
  BY <1>6, <1>7 DEF decline
<1> QED BY <1>8 DEF evaluate

\* decline: the reason given is the reason.  Only "too small" is cured by a
\* larger trade, and it always is where there is anything to earn.
THEOREM SessionReasonIsTheReason == Spec => []ReasonIsTheReason
<1>1. BookInv => ReasonIsTheReason
  <2> SUFFICES ASSUME BookInv, NEW r \in BookRoutes, NEW n \in Sizes, ~Verdict(n, r).ok
               PROVE  IF Verdict(n, r).why = "TooSmallForTheFee"
                        THEN net_bps(prices[r[1]], prices[r[2]]) > 0 => Verdict(Enough, r).ok
                        ELSE Verdict(n, r).why # "NotATrade" =>
                               \A k \in Sizes \cup {Enough} : ~Verdict(k, r).ok
    BY DEF ReasonIsTheReason
  <2> DEFINE sell == prices[r[1]]
             buy  == prices[r[2]]
             why  == decline(n, sell, buy, FALSE, now)
  <2>1. IsPriced(sell) /\ IsPriced(buy)
    BY DEF BookInv, BookRoutes, Entry
  <2>2. why # "none" /\ Verdict(n, r).why = why
    BY DEF Verdict, evaluate
  <2>3. ASSUME why = "TooSmallForTheFee", net_bps(sell, buy) > 0
        PROVE  Verdict(Enough, r).ok
    BY <2>1, <2>3, EnoughIsEnough DEF Verdict
  <2>4. ASSUME why # "TooSmallForTheFee", why # "NotATrade", NEW k
        PROVE  ~Verdict(k, r).ok
    <3>1. n # 0
      BY <2>4 DEF decline
    <3> QED BY <2>2, <2>4, <3>1, SizeOnlyLast DEF Verdict
  <2> HIDE DEF why
  <2> QED BY <2>2, <2>3, <2>4
<1> QED BY SessionBookInvariant, <1>1, PTL
-----------------------------------------------------------------------------
(* The lookups of a reading *)

GetType == [pair : Nat, one : Nat, other : Nat, side : Nat]

\* There are finitely many pairs, and every pool is of one.
LEMMA PairsFinite ==
  /\ IsFiniteSet(Pairs) /\ Cardinality(Pairs) \in Nat
  /\ Pairs \subseteq Nat
  /\ \A p \in Pools : PoolBook[p] \in Pairs /\ PoolBook[p] \in Nat
  /\ Pools \subseteq Nat \ {0} /\ IsFiniteSet(Pools)
<1>1. PoolBook \in Seq(Nat) /\ Pools = 1 .. Len(PoolBook) /\ Len(PoolBook) \in Nat
  BY PriceBookAssumption DEF Pools
<1>2. IsFiniteSet(Pools)
  BY <1>1, FS_Interval
<1>3. \A p \in Pools : PoolBook[p] \in Pairs /\ PoolBook[p] \in Nat
  BY <1>1 DEF Pairs
<1> DEFINE f == [p \in Pools |-> PoolBook[p]]
<1>4. f \in Surjection(Pools, Pairs)
  BY DEF Surjection, Pairs
<1> HIDE DEF f
<1>5. IsFiniteSet(Pairs)
  BY <1>2, <1>4, FS_Surjection
<1>6. Cardinality(Pairs) \in Nat
  BY <1>5, FS_CardinalityType
<1>7. Pairs \subseteq Nat
  BY <1>3 DEF Pairs
<1>8. Pools \subseteq Nat \ {0}
  BY <1>1
<1> QED BY <1>2, <1>3, <1>5, <1>6, <1>7, <1>8

\* What kinds of lookups there are.
LEMMA LookupKinds ==
  /\ snapshot_gets \subseteq GetType /\ pool_gets \subseteq GetType
  /\ \A g \in snapshot_gets :
       /\ g.pair \in Pairs /\ g.side \in {0, 1, 2}
       /\ g.side = 0 => g.other \in Pools /\ g = Count(g.other)
       /\ g.side = 1 => <<g.one, g.other>> \in Routes /\ g = One(<<g.one, g.other>>)
       /\ g.side = 2 => <<g.one, g.other>> \in Routes /\ g = Other(<<g.one, g.other>>)
  /\ \A g \in pool_gets : g.side = 3 /\ g.other \in Pools /\ g = Row(g.other)
<1>1. ASSUME NEW p \in Pools
      PROVE  /\ Count(p) \in GetType /\ Row(p) \in GetType
             /\ Count(p).pair \in Pairs /\ Count(p).side = 0 /\ Count(p).other = p
             /\ Row(p).side = 3 /\ Row(p).other = p
  BY PairsFinite DEF Count, Row, GetType
<1>2. ASSUME NEW r \in Routes
      PROVE  /\ One(r) \in GetType /\ Other(r) \in GetType
             /\ One(r).pair \in Pairs /\ Other(r).pair \in Pairs
             /\ One(r).side = 1 /\ Other(r).side = 2
             /\ <<One(r).one, One(r).other>> = r /\ <<Other(r).one, Other(r).other>> = r
  <2>1. r[1] \in Pools /\ r[2] \in Pools /\ r = <<r[1], r[2]>>
    BY DEF Routes
  <2> QED BY <2>1, PairsFinite DEF One, Other, GetType
<1>3. ASSUME NEW g \in snapshot_gets
      PROVE  /\ g \in GetType /\ g.pair \in Pairs /\ g.side \in {0, 1, 2}
             /\ g.side = 0 => g.other \in Pools /\ g = Count(g.other)
             /\ g.side = 1 => <<g.one, g.other>> \in Routes /\ g = One(<<g.one, g.other>>)
             /\ g.side = 2 => <<g.one, g.other>> \in Routes /\ g = Other(<<g.one, g.other>>)
  <2>1. CASE \E p \in Pools : g = Count(p)
    BY <1>1, <2>1
  <2>2. CASE \E r \in Routes : g = One(r)
    BY <1>2, <2>2
  <2>3. CASE \E r \in Routes : g = Other(r)
    BY <1>2, <2>3
  <2> QED BY <2>1, <2>2, <2>3 DEF snapshot_gets
<1>4. ASSUME NEW g \in pool_gets
      PROVE  g \in GetType /\ g.side = 3 /\ g.other \in Pools /\ g = Row(g.other)
  BY <1>1 DEF pool_gets
<1> QED BY <1>3, <1>4

\* There is always a first lookup among those left, and only one.
LEMMA FirstLookup ==
  ASSUME NEW T \in SUBSET GetType, T # {}
  PROVE  first(T) \in T /\ \A h \in T : h = first(T) \/ Sooner(first(T), h)
<1> SUFFICES \E g \in T : \A h \in T : h = g \/ Sooner(g, h)
  BY DEF first
<1> USE DEF GetType
<1>1. PICK a \in {g.pair : g \in T} : \A x \in {g.pair : g \in T} : a <= x
  <2>1. {g.pair : g \in T} \in SUBSET Nat /\ {g.pair : g \in T} # {} OBVIOUS
  <2> QED BY <2>1, LeastExists
<1> DEFINE T1 == {g \in T : g.pair = a}
<1>2. PICK b \in {g.one : g \in T1} : \A x \in {g.one : g \in T1} : b <= x
  <2>1. {g.one : g \in T1} \in SUBSET Nat /\ {g.one : g \in T1} # {} OBVIOUS
  <2> QED BY <2>1, LeastExists
<1> DEFINE T2 == {g \in T1 : g.one = b}
<1>3. PICK c \in {g.other : g \in T2} : \A x \in {g.other : g \in T2} : c <= x
  <2>1. {g.other : g \in T2} \in SUBSET Nat /\ {g.other : g \in T2} # {} OBVIOUS
  <2> QED BY <2>1, LeastExists
<1> DEFINE T3 == {g \in T2 : g.other = c}
<1>4. PICK d \in {g.side : g \in T3} : \A x \in {g.side : g \in T3} : d <= x
  <2>1. {g.side : g \in T3} \in SUBSET Nat /\ {g.side : g \in T3} # {} OBVIOUS
  <2> QED BY <2>1, LeastExists
<1>5. PICK g \in T3 : g.side = d
  BY <1>4
<1>6. g \in T /\ g.pair = a /\ g.one = b /\ g.other = c /\ g.side = d
  BY <1>5
<1>7. ASSUME NEW h \in T PROVE h = g \/ Sooner(g, h)
  <2>1. a <= h.pair
    BY <1>1
  <2>2. h.pair = a => b <= h.one
    BY <1>2
  <2>3. h.pair = a /\ h.one = b => c <= h.other
    BY <1>3
  <2>4. h.pair = a /\ h.one = b /\ h.other = c => d <= h.side
    BY <1>4
  <2>5. h.pair = a /\ h.one = b /\ h.other = c /\ h.side = d => h = g
    BY <1>6
  <2>6. /\ a \in Nat /\ b \in Nat /\ c \in Nat /\ d \in Nat
        /\ h.pair \in Nat /\ h.one \in Nat /\ h.other \in Nat /\ h.side \in Nat
    BY <1>6
  <2> HIDE DEF T1, T2, T3
  <2> QED BY <1>6, <2>1, <2>2, <2>3, <2>4, <2>5, <2>6 DEF Sooner
<1> QED BY <1>6, <1>7
-----------------------------------------------------------------------------
(* A reading *)

\* The fields of a reading.
Shape(r) ==
  r = [stage |-> r.stage, now |-> r.now, todo |-> r.todo, one |-> r.one,
       reporting |-> r.reporting, best |-> r.best, listed |-> r.listed]

\* What a route shows is of two entries of the book, as of t.
RouteOk(x, t, T) ==
  x = Missing \/ \E route \in Routes : \E a, b :
    Entry(a, T) /\ Entry(b, T) /\ x = Route(route, a, b, t)

LookedUp(e, T) == e = Missing \/ Entry(e, T)

\* A reading in progress, whatever happened to the book since it began.
ReadingOk(r, t, T) ==
  /\ Shape(r)
  /\ \/ r.stage = "snapshot" /\ r.now = t /\ r.todo \subseteq snapshot_gets
     \/ r.stage = "pool_rows" /\ r.todo \subseteq pool_gets
  /\ LookedUp(r.one, T)
  /\ r.reporting \in [Pairs -> Nat]
  /\ r.best = [pair \in Pairs |-> r.best[pair]]
  /\ \A pair \in Pairs : RouteOk(r.best[pair], t, T)

ReadingInv ==
  begun.now \in Nat /\ (reading = NotReading \/ ReadingOk(reading, begun.now, Dates))

\* What one lookup changes, field by field.
IsAfter(s, r, g, e) ==
  /\ Shape(s) /\ s.stage = r.stage /\ s.now = r.now /\ s.todo = r.todo \ {g}
  /\ s.one = IF g.side = 1 THEN e ELSE r.one
  /\ s.reporting = IF g.side = 0 /\ e # Missing
                     THEN [r.reporting EXCEPT ![g.pair] = r.reporting[g.pair] + 1]
                     ELSE r.reporting
  /\ s.best = IF g.side = 2 /\ e # Missing /\ r.one # Missing
                THEN [r.best EXCEPT ![g.pair] =
                        Wider(r.best[g.pair], Route(<<g.one, g.other>>, r.one, e, r.now))]
                ELSE r.best
  /\ s.listed = IF g.side = 3 /\ e # Missing
                  THEN [p \in DOMAIN r.listed \cup {g.other} |->
                          IF p = g.other THEN e ELSE r.listed[p]]
                  ELSE r.listed

LEMMA AfterFields ==
  ASSUME NEW r, Shape(r), NEW g, NEW e
  PROVE  IsAfter(After(r, g, e), r, g, e)
<1> DEFINE rep == IF g.side = 0 /\ e # Missing
                    THEN [r.reporting EXCEPT ![g.pair] = r.reporting[g.pair] + 1]
                    ELSE r.reporting
           bst == IF g.side = 2 /\ e # Missing /\ r.one # Missing
                    THEN [r.best EXCEPT ![g.pair] =
                            Wider(r.best[g.pair], Route(<<g.one, g.other>>, r.one, e, r.now))]
                    ELSE r.best
           lst == IF g.side = 3 /\ e # Missing
                    THEN [p \in DOMAIN r.listed \cup {g.other} |->
                            IF p = g.other THEN e ELSE r.listed[p]]
                    ELSE r.listed
           on  == IF g.side = 1 THEN e ELSE r.one
<1>1. After(r, g, e) = [r EXCEPT !.todo = r.todo \ {g}, !.reporting = rep, !.one = on,
                                 !.best = bst, !.listed = lst]
  BY DEF After
<1> HIDE DEF rep, bst, lst, on
<1>2. After(r, g, e) = [stage |-> r.stage, now |-> r.now, todo |-> r.todo \ {g}, one |-> on,
                        reporting |-> rep, best |-> bst, listed |-> lst]
  BY <1>1 DEF Shape
<1>3. Shape(After(r, g, e))
  BY <1>2 DEF Shape
<1>4. /\ After(r, g, e).stage = r.stage /\ After(r, g, e).now = r.now
      /\ After(r, g, e).todo = r.todo \ {g} /\ After(r, g, e).one = on
      /\ After(r, g, e).reporting = rep /\ After(r, g, e).best = bst
      /\ After(r, g, e).listed = lst
  BY <1>2
<1> QED BY <1>3, <1>4 DEF IsAfter, rep, bst, lst, on

\* A lookup finds a priced pool or none.
LEMMA LookupTypes ==
  ASSUME BookInv, NEW p
  PROVE  LookedUp(lookup(p), Dates) /\ (lookup(p) # Missing <=> p \in DOMAIN prices)
<1>1. ASSUME p \in DOMAIN prices PROVE Entry(prices[p], Dates) /\ prices[p] # Missing
  <2>1. Entry(prices[p], Dates) BY <1>1 DEF BookInv
  <2> QED BY <2>1 DEF Entry, IsPriced, Missing
<1> QED BY <1>1 DEF LookedUp, lookup

\* The first lookup of a reading.
LEMMA FirstOfReading ==
  ASSUME NEW r, NEW t, NEW T, ReadingOk(r, t, T), r.todo # {}
  PROVE  /\ first(r.todo) \in r.todo
         /\ \A h \in r.todo : h = first(r.todo) \/ Sooner(first(r.todo), h)
         /\ first(r.todo) \in IF r.stage = "snapshot" THEN snapshot_gets ELSE pool_gets
<1>1. r.todo \in SUBSET GetType
  BY LookupKinds DEF ReadingOk
<1>2. /\ first(r.todo) \in r.todo
      /\ \A h \in r.todo : h = first(r.todo) \/ Sooner(first(r.todo), h)
  BY <1>1, FirstLookup
<1> QED BY <1>2 DEF ReadingOk

\* One more lookup keeps a reading in order.
LEMMA LookupKeepsReading ==
  ASSUME BookInv, NEW r, NEW t, ReadingOk(r, t, Dates), r.todo # {}
  PROVE  ReadingOk(After(r, first(r.todo), lookup(pool(first(r.todo)))), t, Dates)
<1> DEFINE g == first(r.todo)
           e == lookup(pool(g))
           s == After(r, g, e)
<1>1. g \in r.todo /\ g \in IF r.stage = "snapshot" THEN snapshot_gets ELSE pool_gets
  BY FirstOfReading
<1>2. LookedUp(e, Dates)
  BY LookupTypes
<1> HIDE DEF g, e
<1>3. IsAfter(s, r, g, e)
  BY AfterFields DEF ReadingOk
<1> HIDE DEF s
<1>4. LookedUp(s.one, Dates)
  BY <1>2, <1>3 DEF ReadingOk, IsAfter
<1>5. s.reporting \in [Pairs -> Nat]
  <2>1. r.reporting \in [Pairs -> Nat] BY DEF ReadingOk
  <2>2. CASE g.side = 0 /\ e # Missing
    <3>1. g.pair \in Pairs /\ r.reporting[g.pair] + 1 \in Nat
      <4>1. g \in snapshot_gets BY <1>1, <2>2, LookupKinds
      <4>2. g.pair \in Pairs BY <4>1, LookupKinds
      <4> QED BY <2>1, <4>2
    <3>2. s.reporting = [r.reporting EXCEPT ![g.pair] = r.reporting[g.pair] + 1]
      BY <1>3, <2>2 DEF IsAfter
    <3> QED BY <2>1, <3>1, <3>2
  <2> QED BY <1>3, <2>1, <2>2 DEF IsAfter
<1>6. /\ s.best = [pair \in Pairs |-> s.best[pair]]
      /\ \A pair \in Pairs : RouteOk(s.best[pair], t, Dates)
  <2>1. CASE g.side = 2 /\ e # Missing /\ r.one # Missing
    <3>1. r.stage = "snapshot" /\ g \in snapshot_gets /\ r.now = t
      BY <1>1, <2>1, LookupKinds DEF ReadingOk
    <3>2. <<g.one, g.other>> \in Routes /\ g.pair \in Pairs
      BY <3>1, <2>1, LookupKinds
    <3>3. Entry(e, Dates) /\ Entry(r.one, Dates)
      BY <1>2, <2>1 DEF LookedUp, ReadingOk
    <3> DEFINE x == Route(<<g.one, g.other>>, r.one, e, r.now)
    <3>4. RouteOk(x, t, Dates)
      BY <3>1, <3>2, <3>3 DEF RouteOk
    <3> HIDE DEF x
    <3>5. s.best = [r.best EXCEPT ![g.pair] = Wider(r.best[g.pair], x)]
      BY <1>3, <2>1 DEF x, IsAfter
    <3>6. RouteOk(Wider(r.best[g.pair], x), t, Dates)
      BY <3>2, <3>4 DEF Wider, ReadingOk
    <3> DEFINE w == Wider(r.best[g.pair], x)
    <3> HIDE DEF w
    <3>7. s.best = [r.best EXCEPT ![g.pair] = w] /\ RouteOk(w, t, Dates)
      BY <3>5, <3>6 DEF w
    <3> QED BY <3>2, <3>7 DEF ReadingOk
  <2>2. CASE ~(g.side = 2 /\ e # Missing /\ r.one # Missing)
    <3>1. s.best = r.best BY <1>3, <2>2 DEF IsAfter
    <3> QED BY <3>1 DEF ReadingOk
  <2> QED BY <2>1, <2>2
<1>7. \/ s.stage = "snapshot" /\ s.now = t /\ s.todo \subseteq snapshot_gets
      \/ s.stage = "pool_rows" /\ s.todo \subseteq pool_gets
  BY <1>3 DEF ReadingOk, IsAfter
<1>8. ReadingOk(s, t, Dates)
  BY <1>3, <1>4, <1>5, <1>6, <1>7 DEF ReadingOk, IsAfter
<1> QED BY <1>8 DEF s, g, e
-----------------------------------------------------------------------------
(* The rows *)

\* A row says what the best route found for its pair says.
RowOk(x, t, T) ==
  /\ x.pair \in Pairs
  /\ RouteOk(x.best, t, T)
  /\ x.priced <=> x.best # Missing
  /\ x.priced =>
       /\ x.gap_bps = x.best.gap_bps /\ x.needs_bps = x.best.needs_bps
       /\ x.short_by_bps = saturating_sub(x.needs_bps, x.gap_bps)
       /\ x.stale <=> stale(x.best.age_ms)
  /\ ~x.priced =>
       x.gap_bps = 0 /\ x.needs_bps = 0 /\ x.short_by_bps = U64Max /\ ~x.stale

RowList(q, t, T) == \E S : q \in Seq(S) /\ \A x \in S : RowOk(x, t, T)

InRowOrder(q) == \A i, j \in DOMAIN q : i < j => Before(q[i], q[j])

\* A gap is a number.
LEMMA GapIsNat ==
  ASSUME NEW a, NEW b, IsPriced(a), IsPriced(b)
  PROVE  gap_bps(a, b) \in Nat /\ fee_bps(a) \in Nat /\ fee_bps(b) \in Nat
<1> USE DEF IsPriced
<1>1. ASSUME NEW n \in Nat, NEW d \in Nat \ {0} PROVE n \div d \in Nat
  OBVIOUS
<1>2. ASSUME NEW x \in Nat \ {0}, NEW y \in Nat \ {0}, x >= y PROVE ratio_bps(x, y) \in Nat
  <2>1. (x - y) * 10000 \in Nat BY <1>2
  <2> QED BY <1>1, <2>1 DEF ratio_bps
<1>3. gap_bps(a, b) \in Nat
  BY <1>2 DEF gap_bps
<1>4. fee_bps(a) \in Nat /\ fee_bps(b) \in Nat
  BY DEF fee_bps
<1> QED BY <1>3, <1>4

\* What a route shows are numbers.
LEMMA RouteTypes ==
  ASSUME NEW x, NEW t \in Nat, NEW T, RouteOk(x, t, T), x # Missing
  PROVE  x.gap_bps \in Nat /\ x.needs_bps \in Nat
<1>0. PICK route \in Routes : \E a, b : Entry(a, T) /\ Entry(b, T) /\ x = Route(route, a, b, t)
  BY DEF RouteOk
<1>1. PICK a, b : Entry(a, T) /\ Entry(b, T) /\ x = Route(route, a, b, t)
  BY <1>0
<1>2. gap_bps(a, b) \in Nat /\ fee_bps(a) \in Nat /\ fee_bps(b) \in Nat
  BY <1>1, GapIsNat DEF Entry
<1> QED BY <1>1, <1>2, ArbAssumption DEF Route

\* The row of a pair.
LEMMA RowOfPair ==
  ASSUME NEW r, NEW t \in Nat, NEW T, ReadingOk(r, t, T), NEW pair \in Pairs
  PROVE  /\ RowOk(row(r, pair), t, T) /\ row(r, pair).pair = pair
         /\ row(r, pair).short_by_bps \in Nat
<1> DEFINE best == r.best[pair]
           x    == row(r, pair)
<1>1. RouteOk(best, t, T)
  BY DEF ReadingOk
<1> HIDE DEF best
<1>2. /\ x.pair = pair /\ x.best = best
      /\ x.priced <=> best # Missing
      /\ x.gap_bps = IF best # Missing THEN best.gap_bps ELSE 0
      /\ x.needs_bps = IF best # Missing THEN best.needs_bps ELSE 0
      /\ x.short_by_bps = IF best # Missing THEN saturating_sub(best.needs_bps, best.gap_bps)
                                            ELSE U64Max
      /\ x.stale <=> (best # Missing /\ stale(best.age_ms))
  BY DEF row, best
<1> HIDE DEF x
<1>3. RowOk(x, t, T)
  BY <1>1, <1>2 DEF RowOk
<1>4. x.short_by_bps \in Nat
  <2>1. CASE best = Missing
    BY <1>2, <2>1, MarketAssumption
  <2>2. CASE best # Missing
    <3>1. best.gap_bps \in Nat /\ best.needs_bps \in Nat
      BY <1>1, <2>2, RouteTypes
    <3> QED BY <1>2, <2>2, <3>1 DEF saturating_sub
  <2> QED BY <2>1, <2>2
<1> QED BY <1>2, <1>3, <1>4 DEF x

\* What snapshot returns: a row for every pair, the closest to a trade first.
LEMMA SortedRows ==
  ASSUME NEW r, NEW t \in Nat, NEW T, ReadingOk(r, t, T)
  PROVE  /\ sorted_rows(r) \in [1 .. Cardinality(Pairs) -> {row(r, pair) : pair \in Pairs}]
         /\ InRowOrder(sorted_rows(r))
<1> DEFINE n      == Cardinality(Pairs)
           before == {pq \in Pairs \X Pairs : Before(row(r, pq[1]), row(r, pq[2]))}
           order  == InOrder(Pairs, before)
           Owed(p) == row(r, p).short_by_bps
           Old(p) == row(r, p).stale
<1>1. \A p \in Pairs : Owed(p) \in Nat /\ row(r, p).pair = p /\ p \in Nat
  BY RowOfPair, PairsFinite
<1>2. \A p, q \in Pairs : <<p, q>> \in before <=>
        \/ ~Old(p) /\ Old(q)
        \/ (Old(p) <=> Old(q)) /\ Owed(p) < Owed(q)
        \/ (Old(p) <=> Old(q)) /\ Owed(p) = Owed(q) /\ p < q
  BY <1>1 DEF Before
<1> HIDE DEF before, Owed, Old
<1>3. TotalOrder(before, Pairs)
  <2>1. \A p \in Pairs : <<p, p>> \notin before
    BY <1>1, <1>2
  <2>2. \A p, q \in Pairs : p # q => <<p, q>> \in before \/ <<q, p>> \in before
    BY <1>1, <1>2
  <2>3. \A p, q, s \in Pairs : <<p, q>> \in before /\ <<q, s>> \in before => <<p, s>> \in before
    BY <1>1, <1>2
  <2> QED BY <2>1, <2>2, <2>3 DEF TotalOrder
<1>4. /\ n \in Nat /\ order \in [1 .. n -> Pairs]
      /\ \A i, j \in 1 .. n : i < j => <<order[i], order[j]>> \in before
  BY <1>3, PairsFinite, InOrderSorts
<1> HIDE DEF order
<1>5. sorted_rows(r) = [k \in 1 .. n |-> row(r, order[k])]
  BY DEF sorted_rows, order, before
<1> HIDE DEF n
<1>6. sorted_rows(r) \in [1 .. n -> {row(r, pair) : pair \in Pairs}]
  BY <1>4, <1>5
<1>7. ASSUME NEW i \in DOMAIN sorted_rows(r), NEW j \in DOMAIN sorted_rows(r), i < j
      PROVE  Before(sorted_rows(r)[i], sorted_rows(r)[j])
  <2>1. i \in 1 .. n /\ j \in 1 .. n BY <1>5
  <2>2. <<order[i], order[j]>> \in before BY <1>4, <1>7, <2>1
  <2>3. Before(row(r, order[i]), row(r, order[j])) BY <2>2 DEF before
  <2> QED BY <1>5, <2>1, <2>3
<1> QED BY <1>6, <1>7 DEF InRowOrder, n

\* The rows of a reading are a list of rows.
LEMMA RowsReturned ==
  ASSUME NEW r, NEW t \in Nat, NEW T, ReadingOk(r, t, T)
  PROVE  /\ RowList(sorted_rows(r), t, T) /\ InRowOrder(sorted_rows(r))
         /\ Len(sorted_rows(r)) = Cardinality(Pairs)
<1> DEFINE S == {row(r, pair) : pair \in Pairs}
           q == sorted_rows(r)
<1>1. q \in [1 .. Cardinality(Pairs) -> S] /\ InRowOrder(q)
  BY SortedRows
<1>2. \A x \in S : RowOk(x, t, T)
  BY RowOfPair
<1> HIDE DEF S, q
<1>3. q \in Seq(S) /\ Len(q) = Cardinality(Pairs)
  BY <1>1, PairsFinite, FunctionIsSeq
<1>4. RowList(q, t, T)
  BY <1>2, <1>3 DEF RowList
<1> QED BY <1>1, <1>3, <1>4 DEF q
-----------------------------------------------------------------------------
(* The inductive invariant of the rows *)

\* Whatever the feed does meanwhile, what is on the screen, and what a
\* rehearsal has left to roll, are rows of entries of the book.
ScreenInv ==
  /\ BookInv /\ ReadingInv
  /\ RowList(rows, begun.now, Dates) /\ InRowOrder(rows) /\ Len(rows) <= Cardinality(Pairs)
  /\ RowList(to_roll, begun.now, Dates)
  /\ command = "race" \/ reading # NotReading => to_roll = <<>>
  /\ command = "rehearse" => begun.now = now

LEMMA NoRows ==
  ASSUME NEW t, NEW T
  PROVE  RowList(<<>>, t, T) /\ InRowOrder(<<>>) /\ Len(<<>>) <= Cardinality(Pairs)
<1>1. <<>> \in Seq({}) /\ Len(<<>>) = 0 OBVIOUS
<1>2. RowList(<<>>, t, T)
  <2>1. PICK S : S = {} OBVIOUS
  <2>2. <<>> \in Seq(S) /\ \A x \in S : RowOk(x, t, T) BY <1>1, <2>1
  <2> QED BY <2>2 DEF RowList
<1>3. InRowOrder(<<>>)
  BY DEF InRowOrder
<1>4. Len(<<>>) <= Cardinality(Pairs)
  BY <1>1, PairsFinite
<1> QED BY <1>2, <1>3, <1>4

LEMMA ScreenInit == Init => ScreenInv
<1> SUFFICES ASSUME Init PROVE ScreenInv
  OBVIOUS
<1>1. BookInv BY SessionInit
<1>2. /\ reading = NotReading /\ rows = <<>> /\ to_roll = <<>>
      /\ begun.now = now /\ begun.now \in Nat
  BY SessionAssumption DEF Init, MarketInit, RehearsalInit
<1> QED BY <1>1, <1>2, NoRows DEF ScreenInv, ReadingInv

\* A reading begins in order.
LEMMA ReadingBegins ==
  ASSUME NEW t \in Nat, NEW T
  PROVE  ReadingOk(Reading(t), t, T)
<1> DEFINE r == Reading(t)
<1>1. /\ r.stage = "snapshot" /\ r.now = t /\ r.todo = snapshot_gets /\ r.one = Missing
      /\ r.reporting = [pair \in Pairs |-> 0] /\ r.best = [pair \in Pairs |-> Missing]
  BY DEF Reading
<1>2. Shape(r)
  BY DEF Reading, Shape
<1> HIDE DEF r
<1>3. ReadingOk(r, t, T)
  BY <1>1, <1>2 DEF ReadingOk, LookedUp, RouteOk
<1> QED BY <1>3 DEF r

LEMMA ScreenStep == ScreenInv /\ [Next]_vars => ScreenInv'
<1> SUFFICES ASSUME ScreenInv, [Next]_vars PROVE ScreenInv'
  OBVIOUS
<1>1. BookInv' /\ command' = command /\ (command = "rehearse" => now' = now) /\ Dates' = Dates
  BY SessionStep, SessionFrame DEF ScreenInv
<1>2. begun.now \in Nat /\ now \in Nat /\ BookInv
  BY DEF ScreenInv, ReadingInv, BookInv
\* A step that leaves the reading and its rows alone.
<1>3. ASSUME begun' = begun, reading' = reading, rows' = rows,
             RowList(to_roll', begun.now, Dates),
             command = "race" \/ reading # NotReading => to_roll' = <<>>
      PROVE  ScreenInv'
  <2>1. ReadingInv'
    BY <1>1, <1>3 DEF ScreenInv, ReadingInv
  <2> QED BY <1>1, <1>3, <2>1 DEF ScreenInv
\* A step that begins one.
<1>4. ASSUME BeginReading, begun'.now = now, now' = now, to_roll' = <<>>
      PROVE  ScreenInv'
  <2>1. reading' = Reading(now) /\ rows' = <<>>
    BY <1>4 DEF BeginReading
  <2>2. ReadingOk(reading', begun'.now, Dates')
    BY <1>2, <1>4, <2>1, ReadingBegins
  <2>3. ReadingInv'
    BY <1>2, <1>4, <2>2 DEF ReadingInv
  <2>4. /\ RowList(rows', begun'.now, Dates') /\ InRowOrder(rows')
        /\ Len(rows') <= Cardinality(Pairs) /\ RowList(to_roll', begun'.now, Dates')
    BY <1>4, <2>1, NoRows
  <2> QED BY <1>1, <1>4, <2>3, <2>4 DEF ScreenInv
<1>5. CASE Feed
  <2>1. begun' = begun /\ reading' = reading /\ rows' = rows /\ to_roll' = to_roll
    BY <1>5 DEF Feed, session_vars
  <2> QED BY <1>3, <2>1 DEF ScreenInv
<1>6. CASE Ticker
  <2>1. /\ BeginReading /\ begun'.now = now /\ now' = now
        /\ to_roll' = to_roll /\ command = "race"
    BY <1>6 DEF Ticker, Begins, session_vars
  <2> QED BY <1>4, <2>1 DEF ScreenInv
<1>7. CASE Read
  <2>1. begun' = begun /\ now' = now
    BY <1>7 DEF Read
  <2>2. CASE Get /\ UNCHANGED to_roll
    <3>1. /\ reading # NotReading /\ reading.todo # {}
          /\ reading' = After(reading, first(reading.todo), lookup(pool(first(reading.todo))))
          /\ rows' = rows /\ to_roll' = to_roll
      BY <2>2 DEF Get
    <3>2. ReadingOk(reading', begun.now, Dates)
      BY <1>2, <3>1, LookupKeepsReading DEF ScreenInv, ReadingInv
    <3>3. ReadingInv'
      BY <1>1, <1>2, <2>1, <3>2 DEF ReadingInv
    <3> QED BY <1>1, <2>1, <3>1, <3>3 DEF ScreenInv
  <2>3. CASE SnapshotReturns /\ UNCHANGED to_roll
    <3>1. /\ reading.stage = "snapshot" /\ rows' = sorted_rows(reading) /\ to_roll' = to_roll
          /\ reading' = [reading EXCEPT !.stage = "pool_rows", !.now = now, !.todo = pool_gets]
      BY <2>3 DEF SnapshotReturns
    <3>2. reading # NotReading
      BY <3>1 DEF NotReading
    <3>3. ReadingOk(reading, begun.now, Dates)
      BY <3>2 DEF ScreenInv, ReadingInv
    <3>4. ReadingOk(reading', begun.now, Dates)
      <4>1. Shape(reading) BY <3>3 DEF ReadingOk
      <4>2. /\ Shape(reading') /\ reading'.stage = "pool_rows" /\ reading'.todo = pool_gets
            /\ reading'.one = reading.one /\ reading'.reporting = reading.reporting
            /\ reading'.best = reading.best
        BY <3>1, <4>1 DEF Shape
      <4> QED BY <3>3, <4>2 DEF ReadingOk
    <3>5. ReadingInv'
      BY <1>1, <1>2, <2>1, <3>4 DEF ReadingInv
    <3>6. /\ RowList(rows', begun.now, Dates) /\ InRowOrder(rows')
          /\ Len(rows') = Cardinality(Pairs)
      BY <1>2, <3>1, <3>3, RowsReturned
    <3>7. Len(rows') <= Cardinality(Pairs)
      BY <3>6, PairsFinite
    <3>8. to_roll' = <<>>
      BY <3>1, <3>2 DEF ScreenInv
    <3> QED BY <1>1, <2>1, <3>1, <3>5, <3>6, <3>7, <3>8 DEF ScreenInv
  <2>4. CASE PoolRowsReturns /\ to_roll' = IF command = "rehearse" THEN rows ELSE to_roll
    <3>1. reading' = NotReading /\ rows' = rows
      BY <2>4 DEF PoolRowsReturns
    <3>2. RowList(to_roll', begun.now, Dates) /\ (command = "race" => to_roll' = <<>>)
      BY <2>4 DEF ScreenInv
    <3>3. ReadingInv'
      BY <1>2, <2>1, <3>1 DEF ReadingInv
    <3> QED BY <1>1, <2>1, <3>1, <3>2, <3>3 DEF ScreenInv
  <2> QED BY <1>7, <2>2, <2>3, <2>4 DEF Read
<1>8. CASE Rehearse
  <2>1. now' = now /\ command = "rehearse"
    BY <1>8 DEF Rehearse
  <2>2. ASSUME NEW price, StepBegins(price), Begins PROVE ScreenInv'
    <3>1. BeginReading /\ begun'.now = now /\ to_roll' = to_roll /\ to_roll = <<>>
      BY <2>2 DEF StepBegins, Begins
    <3> QED BY <1>4, <2>1, <3>1
  <2>3. ASSUME to_roll # <<>>, to_roll' = Tail(to_roll), begun' = begun,
               reading' = reading, rows' = rows
        PROVE  ScreenInv'
    <3>1. PICK S : to_roll \in Seq(S) /\ \A x \in S : RowOk(x, begun.now, Dates)
      BY DEF ScreenInv, RowList
    <3>2. Tail(to_roll) \in Seq(S)
      BY <2>3, <3>1
    <3>3. RowList(to_roll', begun.now, Dates)
      BY <2>3, <3>1, <3>2 DEF RowList
    <3>4. reading = NotReading
      BY <2>3 DEF ScreenInv
    <3> QED BY <1>3, <2>1, <2>3, <3>3, <3>4
  <2> QED BY <1>8, <2>2, <2>3 DEF Rehearse, RowRolled, RowSkipped
<1>9. CASE Tick
  <2>1. begun' = begun /\ reading' = reading /\ rows' = rows /\ to_roll' = to_roll
    BY <1>9 DEF Tick, session_vars
  <2> QED BY <1>3, <2>1 DEF ScreenInv
<1>10. CASE UNCHANGED vars
  <2>1. begun' = begun /\ reading' = reading /\ rows' = rows /\ to_roll' = to_roll
    BY <1>10 DEF vars, session_vars
  <2> QED BY <1>3, <2>1 DEF ScreenInv
<1> QED BY <1>5, <1>6, <1>7, <1>8, <1>9, <1>10 DEF Next

\* Reading and rows are well formed in every state.
THEOREM SessionScreenInvariant == Spec => []ScreenInv
  BY ScreenInit, ScreenStep, PTL DEF Spec
-----------------------------------------------------------------------------
(* The rows and the bot *)

\* Whole milliseconds of a longer time are no fewer.
LEMMA MillisMonotone ==
  ASSUME NEW x \in Nat, NEW y \in Nat, x <= y
  PROVE  as_millis(x) \in Nat /\ as_millis(y) \in Nat /\ as_millis(x) <= as_millis(y)
<1> DEFINE k == x \div Milli
           l == y \div Milli
<1>1. Milli \in Nat \ {0}
  BY MarketAssumption
<1>2. k \in Nat /\ l \in Nat
  BY <1>1
<1>3. Milli * k <= x /\ y < Milli * l + Milli
  BY <1>1
<1> HIDE DEF k, l
<1>4. k <= l
  <2> SUFFICES ASSUME k >= l + 1 PROVE FALSE
    BY <1>2
  <2>1. Milli * k >= Milli * (l + 1)
    BY <1>1, <1>2
  <2>2. Milli * (l + 1) = Milli * l + Milli
    BY <1>1, <1>2
  <2>3. Milli * k \in Nat /\ Milli * l \in Nat
    BY <1>1, <1>2
  <2> QED BY <1>1, <1>2, <1>3, <2>1, <2>2, <2>3
<1> QED BY <1>2, <1>4 DEF k, l, as_millis

\* Two prices are both fresh when the older one is.
LEMMA FreshIsYoung ==
  ASSUME NEW a, NEW b, IsPriced(a), IsPriced(b), NEW t \in Nat
  PROVE  /\ saturating_sub(t, older(a, b)) \in Nat
         /\ fresh_enough(a, b, t) <=> saturating_sub(t, older(a, b)) <= max_price_age
         /\ fresh_enough(b, a, t) <=> saturating_sub(t, older(a, b)) <= max_price_age
         /\ older(a, b) = older(b, a)
BY ArbAssumption DEF fresh_enough, saturating_sub, older, IsPriced

\* A trade of enough is called stale exactly when its prices are.
LEMMA StaleIsStale ==
  ASSUME NEW a, NEW b, NEW t
  PROVE  /\ ~evaluate(Enough, a, b, FALSE, t).ok /\ evaluate(Enough, a, b, FALSE, t).why = "Stale"
              <=> ~fresh_enough(a, b, t)
<1>1. Enough # 0
  <2>1. Enough \in Nat /\ Enough \div 10000 > network_fee_lamports /\ network_fee_lamports \in Nat
    BY SessionAssumption, ArbAssumption
  <2> QED BY <2>1
<1> DEFINE why == decline(Enough, a, b, FALSE, t)
<1>2. why = "Stale" <=> ~fresh_enough(a, b, t)
  BY <1>1 DEF decline
<1> HIDE DEF why
<1>3. CASE why = "none"
  <2>1. evaluate(Enough, a, b, FALSE, t).ok
    BY <1>3 DEF evaluate, why
  <2> QED BY <1>2, <1>3, <2>1
<1>4. CASE why # "none"
  <2>1. ~evaluate(Enough, a, b, FALSE, t).ok /\ evaluate(Enough, a, b, FALSE, t).why = why
    BY <1>4 DEF evaluate, why
  <2> QED BY <1>2, <2>1
<1> QED BY <1>3, <1>4

\* A trade of enough, the right way round, is taken exactly when its gap is
\* believable, over the margin and over its fees.
LEMMA TakenWhenItPays ==
  ASSUME NEW sell, NEW buy, IsPriced(sell), IsPriced(buy), NEW t,
         fresh_enough(sell, buy, t), sell.price > buy.price
  PROVE  evaluate(Enough, sell, buy, FALSE, t).ok <=>
           /\ gap_bps(sell, buy) <= IMPLAUSIBLE_BPS
           /\ gap_bps(sell, buy) >= fee_bps(sell) + fee_bps(buy) + margin_bps
           /\ gap_bps(sell, buy) > fee_bps(sell) + fee_bps(buy)
<1> DEFINE gross == ratio_bps(sell.price, buy.price)
           fees  == fee_bps(sell) + fee_bps(buy)
           k     == net_bps(sell, buy)
<1>1. gap_bps(sell, buy) = gross
  BY DEF gap_bps
<1>2. fee_bps(sell) \in Nat /\ fee_bps(buy) \in Nat /\ gross \in Nat
  BY <1>1, GapIsNat
<1>3. k = gross - fees
  BY DEF net_bps
<1>4. Enough \in Nat /\ Enough # 0
  <2>1. Enough \in Nat /\ Enough \div 10000 > network_fee_lamports /\ network_fee_lamports \in Nat
    BY SessionAssumption, ArbAssumption
  <2> QED BY <2>1
<1>5. evaluate(Enough, sell, buy, FALSE, t).ok <=> decline(Enough, sell, buy, FALSE, t) = "none"
  <2>1. CASE decline(Enough, sell, buy, FALSE, t) = "none" BY <2>1 DEF evaluate
  <2>2. CASE decline(Enough, sell, buy, FALSE, t) # "none" BY <2>2 DEF evaluate
  <2> QED BY <2>1, <2>2
<1>6. ~(sell.price <= buy.price)
  BY DEF IsPriced
<1> HIDE DEF gross, k
<1>7. decline(Enough, sell, buy, FALSE, t) = "none" <=>
        /\ gross # 0 /\ ~(gross > IMPLAUSIBLE_BPS) /\ ~(k < 0) /\ ~(k < margin_bps)
        /\ net_lamports(Enough, sell, buy) # 0
  BY <1>4, <1>6 DEF decline, WrongWay, gross, k
<1>8. fees \in Nat /\ k \in Int /\ IMPLAUSIBLE_BPS \in Nat /\ margin_bps \in Nat
      /\ network_fee_lamports \in Nat
  BY <1>2, <1>3, ArbAssumption
<1> HIDE DEF fees
<1>9. k > 0 => net_lamports(Enough, sell, buy) # 0
  <2> SUFFICES ASSUME k > 0 PROVE net_lamports(Enough, sell, buy) # 0 OBVIOUS
  <2>1. Enough * k >= Enough /\ Enough * k \in Nat
    BY <1>4, <1>8
  <2>2. (Enough * k) \div 10000 >= Enough \div 10000
    BY <1>4, <2>1
  <2>3. (Enough * k) \div 10000 \in Nat /\ Enough \div 10000 \in Nat
    BY <1>4, <2>1
  <2>4. saturating_sub((Enough * k) \div 10000, network_fee_lamports) # 0
    BY <2>2, <2>3, SessionAssumption, ArbAssumption DEF saturating_sub
  <2> QED BY <2>4 DEF net_lamports, k
<1>10. k = 0 => net_lamports(Enough, sell, buy) = 0
  <2> SUFFICES ASSUME k = 0 PROVE net_lamports(Enough, sell, buy) = 0 OBVIOUS
  <2>1. (Enough * k) \div 10000 = 0
    BY <1>4
  <2>2. saturating_sub((Enough * k) \div 10000, network_fee_lamports) = 0
    BY <2>1, <1>8 DEF saturating_sub
  <2> QED BY <2>2 DEF net_lamports, k
<1>11. decline(Enough, sell, buy, FALSE, t) = "none" <=>
         gross <= IMPLAUSIBLE_BPS /\ gross >= fees + margin_bps /\ gross > fees
  <2>1. (k > 0 <=> gross > fees) /\ (~(k < margin_bps) <=> gross >= fees + margin_bps)
        /\ (~(gross > IMPLAUSIBLE_BPS) <=> gross <= IMPLAUSIBLE_BPS)
        /\ (k > 0 => gross # 0 /\ ~(k < 0)) /\ (~(k < 0) => k = 0 \/ k > 0)
    BY <1>2, <1>3, <1>8
  <2> QED BY <1>7, <1>9, <1>10, <2>1, Zenon
<1> QED BY <1>1, <1>5, <1>8, <1>11, <1>2 DEF fees

\* The wrong way round is never taken.
LEMMA WrongWayNotTaken ==
  ASSUME NEW n, NEW sell, NEW buy, IsPriced(sell), IsPriced(buy), NEW t,
         sell.price <= buy.price
  PROVE  ~evaluate(n, sell, buy, FALSE, t).ok
<1>1. decline(n, sell, buy, FALSE, t) # "none"
  BY DEF decline, WrongWay
<1> QED BY <1>1 DEF evaluate

\* Two prices that are the same have no gap.
LEMMA NoGap ==
  ASSUME NEW a, NEW b, IsPriced(a), IsPriced(b), a.price = b.price
  PROVE  gap_bps(a, b) = 0
<1>1. gap_bps(a, b) = ratio_bps(a.price, a.price)
  BY DEF gap_bps, IsPriced
<1>2. ASSUME NEW d \in Nat \ {0} PROVE ratio_bps(d, d) = 0
  <2>1. (d - d) * 10000 = 0 OBVIOUS
  <2>2. 0 \div d = 0 OBVIOUS
  <2> QED BY <2>1, <2>2 DEF ratio_bps
<1> QED BY <1>1, <1>2 DEF IsPriced

\* Either way round, on fresh prices.
LEMMA OpenWhenItPays ==
  ASSUME NEW a, NEW b, IsPriced(a), IsPriced(b), NEW t \in Nat, fresh_enough(a, b, t)
  PROVE  evaluate(Enough, a, b, FALSE, t).ok \/ evaluate(Enough, b, a, FALSE, t).ok <=>
           /\ gap_bps(a, b) <= IMPLAUSIBLE_BPS
           /\ gap_bps(a, b) >= fee_bps(a) + fee_bps(b) + margin_bps
           /\ gap_bps(a, b) > fee_bps(a) + fee_bps(b)
<1>1. fee_bps(a) \in Nat /\ fee_bps(b) \in Nat /\ gap_bps(a, b) \in Nat
  BY GapIsNat
<1>2. fresh_enough(b, a, t)
  BY FreshIsYoung
<1>3. a.price \in Nat \ {0} /\ b.price \in Nat \ {0}
  BY DEF IsPriced
<1> DEFINE way    == evaluate(Enough, a, b, FALSE, t).ok
           around == evaluate(Enough, b, a, FALSE, t).ok
           pays   == /\ gap_bps(a, b) <= IMPLAUSIBLE_BPS
                     /\ gap_bps(a, b) >= fee_bps(a) + fee_bps(b) + margin_bps
                     /\ gap_bps(a, b) > fee_bps(a) + fee_bps(b)
<1>4. b.price <= a.price => ~around
  BY WrongWayNotTaken
<1>5. a.price <= b.price => ~way
  BY WrongWayNotTaken
<1>6. a.price > b.price => (way <=> pays)
  BY TakenWhenItPays
<1>7. b.price > a.price => (around <=> pays)
  <2> SUFFICES ASSUME b.price > a.price PROVE around <=> pays
    OBVIOUS
  <2>1. around <=>
          /\ gap_bps(b, a) <= IMPLAUSIBLE_BPS
          /\ gap_bps(b, a) >= fee_bps(b) + fee_bps(a) + margin_bps
          /\ gap_bps(b, a) > fee_bps(b) + fee_bps(a)
    BY <1>2, TakenWhenItPays
  <2>2. gap_bps(b, a) = gap_bps(a, b)
    BY <1>3 DEF gap_bps
  <2>3. fee_bps(a) + fee_bps(b) = fee_bps(b) + fee_bps(a)
    BY <1>1
  <2> HIDE DEF around
  <2> QED BY <2>1, <2>2, <2>3
<1>8. a.price = b.price => ~pays
  <2> SUFFICES ASSUME a.price = b.price PROVE ~pays
    OBVIOUS
  <2>1. gap_bps(a, b) = 0 BY NoGap
  <2> QED BY <1>1, <2>1
<1>9. \/ a.price > b.price /\ b.price <= a.price
      \/ b.price > a.price /\ a.price <= b.price
      \/ a.price = b.price /\ a.price <= b.price /\ b.price <= a.price
  BY <1>3
<1> HIDE DEF way, around, pays
<1>10. way \/ around <=> pays
  BY <1>4, <1>5, <1>6, <1>7, <1>8, <1>9, Zenon
<1> QED BY <1>10 DEF way, around, pays

\* What a priced row was made from.
LEMMA RowParts ==
  ASSUME NEW x, NEW t \in Nat, NEW T, RowOk(x, t, T), x.priced
  PROVE  /\ Entry(x.best.a, T) /\ Entry(x.best.b, T)
         /\ x.best.route \in Routes
         /\ x.gap_bps = gap_bps(x.best.a, x.best.b)
         /\ x.needs_bps = fee_bps(x.best.a) + fee_bps(x.best.b) + margin_bps
         /\ x.short_by_bps = saturating_sub(x.needs_bps, x.gap_bps)
         /\ x.best.age_ms = as_millis(saturating_sub(t, older(x.best.a, x.best.b)))
         /\ x.stale <=> stale(x.best.age_ms)
<1>1. /\ RouteOk(x.best, t, T) /\ x.best # Missing
      /\ x.gap_bps = x.best.gap_bps /\ x.needs_bps = x.best.needs_bps
      /\ x.short_by_bps = saturating_sub(x.needs_bps, x.gap_bps)
      /\ x.stale <=> stale(x.best.age_ms)
  BY DEF RowOk
<1>0. PICK route \in Routes : \E a, b : Entry(a, T) /\ Entry(b, T) /\ x.best = Route(route, a, b, t)
  BY <1>1 DEF RouteOk
<1>2. PICK a, b : Entry(a, T) /\ Entry(b, T) /\ x.best = Route(route, a, b, t)
  BY <1>0
<1>3. /\ x.best.a = a /\ x.best.b = b /\ x.best.route = route /\ x.best.gap_bps = gap_bps(a, b)
      /\ x.best.needs_bps = fee_bps(a) + fee_bps(b) + margin_bps
      /\ x.best.age_ms = as_millis(saturating_sub(t, older(a, b)))
  BY <1>2 DEF Route
<1> QED BY <1>1, <1>2, <1>3

\* A row the bot is asked about.
BotOpen(r, t) == \E v \in BotSays(r, t) : v.ok
BotStale(r, t) == \A v \in BotSays(r, t) : ~v.ok /\ v.why = "Stale"

\* What the bot says of a row is what the row says.
LEMMA RowAndBot ==
  ASSUME NEW x, NEW t \in Nat, NEW T, RowOk(x, t, T), x.priced
  PROVE  /\ x.stale => BotStale(x, t)
         /\ BotStale(x, t) => \/ x.stale
                              \/ as_millis(saturating_sub(t, older(x.best.a, x.best.b)))
                                   = as_millis(max_price_age)
         /\ ~BotStale(x, t) =>
              (BotOpen(x, t) <=> /\ x.gap_bps <= IMPLAUSIBLE_BPS /\ x.short_by_bps = 0
                                 /\ x.gap_bps > x.needs_bps - margin_bps)
         /\ BotStale(x, t) => ~BotOpen(x, t)
<1> DEFINE a == x.best.a
           b == x.best.b
           age == saturating_sub(t, older(a, b))
           fresh == age <= max_price_age
           way    == evaluate(Enough, a, b, FALSE, t)
           around == evaluate(Enough, b, a, FALSE, t)
<1>1. /\ Entry(a, T) /\ Entry(b, T)
      /\ x.gap_bps = gap_bps(a, b)
      /\ x.needs_bps = fee_bps(a) + fee_bps(b) + margin_bps
      /\ x.short_by_bps = saturating_sub(x.needs_bps, x.gap_bps)
      /\ x.best.age_ms = as_millis(age)
      /\ x.stale <=> stale(x.best.age_ms)
  BY RowParts
<1> HIDE DEF a, b
<1>2. IsPriced(a) /\ IsPriced(b)
  BY <1>1 DEF Entry
<1>3. /\ age \in Nat /\ max_price_age \in Nat
      /\ fresh_enough(a, b, t) <=> fresh
      /\ fresh_enough(b, a, t) <=> fresh
  BY <1>2, FreshIsYoung, ArbAssumption
<1>4. BotSays(x, t) = {way, around}
  BY DEF BotSays, a, b
<1>5. BotStale(x, t) <=> (~way.ok /\ way.why = "Stale") /\ (~around.ok /\ around.why = "Stale")
  BY <1>4, Zenon DEF BotStale
<1>6. BotOpen(x, t) <=> way.ok \/ around.ok
  BY <1>4, Zenon DEF BotOpen
<1>7. /\ (~way.ok /\ way.why = "Stale") <=> ~fresh_enough(a, b, t)
      /\ (~around.ok /\ around.why = "Stale") <=> ~fresh_enough(b, a, t)
  BY StaleIsStale
<1> HIDE DEF way, around, age, fresh
<1>8. BotStale(x, t) <=> ~fresh
  BY <1>3, <1>5, <1>7, Zenon
<1>9. BotStale(x, t) => ~BotOpen(x, t)
  BY <1>5, <1>6, Zenon
<1>10. x.stale <=> as_millis(age) > as_millis(max_price_age)
  BY <1>1 DEF stale
<1>11. x.stale => ~fresh
  <2> SUFFICES ASSUME fresh PROVE ~(as_millis(age) > as_millis(max_price_age))
    BY <1>10
  <2>1. age <= max_price_age BY DEF fresh
  <2>2. /\ as_millis(age) \in Nat /\ as_millis(max_price_age) \in Nat
        /\ as_millis(age) <= as_millis(max_price_age)
    BY <1>3, <2>1, MillisMonotone
  <2> QED BY <2>2
<1>12. ~fresh => x.stale \/ as_millis(age) = as_millis(max_price_age)
  <2> SUFFICES ASSUME ~fresh
               PROVE  \/ as_millis(age) > as_millis(max_price_age)
                      \/ as_millis(age) = as_millis(max_price_age)
    BY <1>10
  <2>1. max_price_age <= age BY <1>3 DEF fresh
  <2>2. /\ as_millis(age) \in Nat /\ as_millis(max_price_age) \in Nat
        /\ as_millis(max_price_age) <= as_millis(age)
    BY <1>3, <2>1, MillisMonotone
  <2> QED BY <2>2
<1>13. ASSUME fresh
       PROVE  BotOpen(x, t) <=> /\ x.gap_bps <= IMPLAUSIBLE_BPS /\ x.short_by_bps = 0
                                /\ x.gap_bps > x.needs_bps - margin_bps
  <2>1. way.ok \/ around.ok <=>
           /\ gap_bps(a, b) <= IMPLAUSIBLE_BPS
           /\ gap_bps(a, b) >= fee_bps(a) + fee_bps(b) + margin_bps
           /\ gap_bps(a, b) > fee_bps(a) + fee_bps(b)
    BY <1>2, <1>3, <1>13, OpenWhenItPays DEF way, around
  <2>2. gap_bps(a, b) \in Nat /\ fee_bps(a) \in Nat /\ fee_bps(b) \in Nat /\ margin_bps \in Nat
    BY <1>2, GapIsNat, ArbAssumption
  <2>3. /\ gap_bps(a, b) >= fee_bps(a) + fee_bps(b) + margin_bps <=> x.short_by_bps = 0
        /\ gap_bps(a, b) > fee_bps(a) + fee_bps(b) <=> x.gap_bps > x.needs_bps - margin_bps
    BY <1>1, <2>2 DEF saturating_sub
  <2> QED BY <1>1, <1>6, <2>1, <2>3, Zenon
<1> QED BY <1>8, <1>9, <1>11, <1>12, <1>13 DEF age, a, b

\* market::snapshot and evaluate: for any prices, fees, margin and network fee,
\* and whatever the feed does while the rows are read, the screen calls a row
\* short of nothing, or stale, when the bot would take it, or call it stale.
THEOREM SessionScreenAgreesWithBot == Spec => []ScreenAgreesWithBot
<1>1. ScreenInv => ScreenAgreesWithBot
  <2> SUFFICES ASSUME ScreenInv, NEW i \in DOMAIN rows, rows[i].priced
               PROVE  LET r    == rows[i]
                          says == BotSays(r, begun.now)
                          open == \E v \in says : v.ok
                          old  == \A v \in says : ~v.ok /\ v.why = "Stale"
                      IN /\ r.stale => old
                         /\ old => r.stale \/ JustTooOld(r)
                         /\ ~old /\ r.gap_bps <= IMPLAUSIBLE_BPS =>
                              (open <=> r.short_by_bps = 0 /\ r.gap_bps > r.needs_bps - margin_bps)
                         /\ r.gap_bps > IMPLAUSIBLE_BPS => ~open
    BY DEF ScreenAgreesWithBot
  <2> DEFINE r == rows[i]
             t == begun.now
  <2>1. t \in Nat
    BY DEF ScreenInv, ReadingInv
  <2>2. RowOk(r, t, Dates)
    <3>1. PICK S : rows \in Seq(S) /\ \A x \in S : RowOk(x, t, Dates)
      BY DEF ScreenInv, RowList
    <3>2. r \in S BY <3>1
    <3> QED BY <3>1, <3>2
  <2>3. /\ r.gap_bps \in Nat /\ IMPLAUSIBLE_BPS \in Nat
    <3>1. r.gap_bps = gap_bps(r.best.a, r.best.b) /\ IsPriced(r.best.a) /\ IsPriced(r.best.b)
      BY <2>1, <2>2, RowParts DEF Entry
    <3> QED BY <3>1, GapIsNat, ArbAssumption
  <2>4. r.gap_bps > IMPLAUSIBLE_BPS => ~(r.gap_bps <= IMPLAUSIBLE_BPS)
    BY <2>3
  <2> HIDE DEF r, t
  <2>5. /\ r.stale => BotStale(r, t)
        /\ BotStale(r, t) => r.stale \/ JustTooOld(r)
        /\ ~BotStale(r, t) =>
              (BotOpen(r, t) <=> /\ r.gap_bps <= IMPLAUSIBLE_BPS /\ r.short_by_bps = 0
                                 /\ r.gap_bps > r.needs_bps - margin_bps)
        /\ BotStale(r, t) => ~BotOpen(r, t)
    <3>1. r.priced BY DEF r
    <3> QED BY <2>1, <2>2, <3>1, RowAndBot DEF JustTooOld, t
  <2>6. /\ r.stale => BotStale(r, t)
        /\ BotStale(r, t) => r.stale \/ JustTooOld(r)
        /\ ~BotStale(r, t) /\ r.gap_bps <= IMPLAUSIBLE_BPS =>
             (BotOpen(r, t) <=> r.short_by_bps = 0 /\ r.gap_bps > r.needs_bps - margin_bps)
        /\ r.gap_bps > IMPLAUSIBLE_BPS => ~BotOpen(r, t)
    BY <2>4, <2>5, Zenon
  <2> QED BY <2>6, Zenon DEF BotOpen, BotStale, r, t
<1> QED BY SessionScreenInvariant, <1>1, PTL

\* market::snapshot, sort_by_key: with a margin, the rows above one whose widest
\* route is open to the bot are open in the same sense, too wide to be believed
\* or less than a millisecond too old.
THEOREM SessionOpenRowsOnTop == Spec => []OpenRowsOnTop
<1>1. ScreenInv => OpenRowsOnTop
  <2> SUFFICES ASSUME ScreenInv, margin_bps > 0, NEW k \in DOMAIN rows, NEW i \in DOMAIN rows,
                      k < i, rows[i].priced, BotOpen(rows[i], begun.now)
               PROVE  \/ rows[k].priced /\ BotOpen(rows[k], begun.now)
                      \/ rows[k].gap_bps > IMPLAUSIBLE_BPS
                      \/ rows[k].priced /\ JustTooOld(rows[k])
    BY Zenon DEF OpenRowsOnTop, BotOpen
  <2> DEFINE top == rows[k]
             low == rows[i]
             t   == begun.now
  <2>1. t \in Nat
    BY DEF ScreenInv, ReadingInv
  <2>2. PICK S : rows \in Seq(S) /\ \A x \in S : RowOk(x, t, Dates)
    BY DEF ScreenInv, RowList
  <2>3. low \in S /\ top \in S
    BY <2>2
  <2>4. RowOk(low, t, Dates) /\ RowOk(top, t, Dates)
    BY <2>2, <2>3
  <2>5. Before(top, low)
    BY DEF ScreenInv, InRowOrder
  <2>6. ~low.stale /\ low.short_by_bps = 0
    BY <2>1, <2>4, RowAndBot
  <2>8. ~top.stale /\ top.short_by_bps = 0
    <3>1. top.short_by_bps \in Nat
      <4>1. CASE ~top.priced
        BY <4>1, <2>4, MarketAssumption DEF RowOk
      <4>2. CASE top.priced
        <5>1. /\ top.short_by_bps = saturating_sub(top.needs_bps, top.gap_bps)
              /\ top.best # Missing /\ RouteOk(top.best, t, Dates)
              /\ top.needs_bps = top.best.needs_bps /\ top.gap_bps = top.best.gap_bps
          BY <2>4, <4>2 DEF RowOk
        <5>2. top.needs_bps \in Nat /\ top.gap_bps \in Nat
          BY <2>1, <5>1, RouteTypes
        <5> QED BY <5>1, <5>2 DEF saturating_sub
      <4> QED BY <4>1, <4>2
    <3>2. ~(top.short_by_bps < 0) BY <3>1
    <3> QED BY <2>5, <2>6, <3>2 DEF Before
  <2>9. top.priced
    BY <2>4, <2>8, MarketAssumption DEF RowOk
  <2>10. top.gap_bps \in Nat /\ top.needs_bps \in Nat /\ margin_bps \in Nat
         /\ IMPLAUSIBLE_BPS \in Nat /\ top.short_by_bps = saturating_sub(top.needs_bps, top.gap_bps)
    <3>1. /\ top.short_by_bps = saturating_sub(top.needs_bps, top.gap_bps)
          /\ top.best # Missing /\ RouteOk(top.best, t, Dates)
          /\ top.needs_bps = top.best.needs_bps /\ top.gap_bps = top.best.gap_bps
      BY <2>4, <2>9 DEF RowOk
    <3> QED BY <2>1, <3>1, RouteTypes, ArbAssumption
  <2>11. top.gap_bps > top.needs_bps - margin_bps
    BY <2>8, <2>10 DEF saturating_sub
  <2>12. top.gap_bps <= IMPLAUSIBLE_BPS \/ top.gap_bps > IMPLAUSIBLE_BPS
    BY <2>10
  <2>13. /\ BotStale(top, t) => top.stale \/ JustTooOld(top)
         /\ ~BotStale(top, t) =>
              (BotOpen(top, t) <=> /\ top.gap_bps <= IMPLAUSIBLE_BPS /\ top.short_by_bps = 0
                                   /\ top.gap_bps > top.needs_bps - margin_bps)
    BY <2>1, <2>4, <2>9, RowAndBot DEF JustTooOld
  <2> QED BY <2>8, <2>9, <2>11, <2>12, <2>13, Zenon
<1> QED BY SessionScreenInvariant, <1>1, PTL
-----------------------------------------------------------------------------
(* The rehearsal *)

\* A row that may be rolled: rehearsals only, and of prices set this instant.
LEMMA RowToRoll ==
  ASSUME ScreenInv, to_roll # <<>>
  PROVE  /\ command = "rehearse" /\ CanRehearse /\ Dates = {now} /\ now \in Nat
         /\ RowOk(Head(to_roll), now, {now}) /\ reading = NotReading
         /\ Len(Tail(to_roll)) = Len(to_roll) - 1 /\ Len(to_roll) \in Nat
<1>1. command = "rehearse" /\ CanRehearse /\ now \in Nat /\ reading = NotReading
  BY DEF ScreenInv, BookInv
<1>2. Dates = {now} /\ begun.now = now
  BY <1>1 DEF Dates, ScreenInv
<1>3. PICK S : to_roll \in Seq(S) /\ \A x \in S : RowOk(x, begun.now, Dates)
  BY DEF ScreenInv, RowList
<1>4. Head(to_roll) \in S /\ Len(Tail(to_roll)) = Len(to_roll) - 1 /\ Len(to_roll) \in Nat
  BY <1>3
<1> QED BY <1>1, <1>2, <1>3, <1>4

\* Rounding a size down before it is multiplied earns no more than after.
LEMMA EarnsNoMore ==
  ASSUME NEW n \in Nat, NEW m \in Nat, NEW k \in Nat, m <= k
  PROVE  /\ (n \div 10000) * m \in Nat /\ (n * k) \div 10000 \in Nat
         /\ (n \div 10000) * m <= (n * k) \div 10000
<1> DEFINE q == n \div 10000
<1>1. q \in Nat /\ 10000 * q <= n
  OBVIOUS
<1> HIDE DEF q
<1>2. q * m \in Nat /\ n * k \in Nat /\ n * m \in Nat
  BY <1>1
<1>3. (10000 * q) * m <= n * m
  BY <1>1
<1>4. n * m <= n * k
  OBVIOUS
<1>5. (10000 * q) * m = 10000 * (q * m)
  BY <1>1
<1>6. 10000 * (q * m) <= n * k
  BY <1>2, <1>3, <1>4, <1>5
<1> DEFINE x == q * m
           y == n * k
<1> HIDE DEF x, y
<1>7. x \in Nat /\ y \in Nat /\ 10000 * x <= y
  BY <1>2, <1>6 DEF x, y
<1>8. y \div 10000 \in Nat /\ x <= y \div 10000
  BY <1>7
<1> QED BY <1>7, <1>8 DEF x, y, q

\* What a trade of n lamports earns on m basis points, rounded down first.
Least(n, m) == (n \div 10000) * m

\* A trade the right way round that carries the network fee over its margin is
\* taken, and earns at least that.
LEMMA TakenAtItsSize ==
  ASSUME NEW sell, NEW buy, IsPriced(sell), IsPriced(buy), NEW t,
         fresh_enough(sell, buy, t), sell.price > buy.price,
         NEW n \in Nat, NEW m \in Nat, m > 0,
         gap_bps(sell, buy) <= IMPLAUSIBLE_BPS,
         gap_bps(sell, buy) = fee_bps(sell) + fee_bps(buy) + margin_bps + m,
         Least(n, m) > network_fee_lamports
  PROVE  /\ evaluate(n, sell, buy, FALSE, t).ok
         /\ saturating_sub(Least(n, m), network_fee_lamports)
              <= evaluate(n, sell, buy, FALSE, t).net_lamports
<1> DEFINE gross == ratio_bps(sell.price, buy.price)
           k     == net_bps(sell, buy)
           earns == (n * k) \div 10000
           least == Least(n, m)
<1>1. gap_bps(sell, buy) = gross
  BY DEF gap_bps
<1>2. fee_bps(sell) \in Nat /\ fee_bps(buy) \in Nat /\ gross \in Nat
  BY <1>1, GapIsNat
<1>3. margin_bps \in Nat /\ network_fee_lamports \in Nat /\ IMPLAUSIBLE_BPS \in Nat
  BY ArbAssumption
<1>4. k = gross - (fee_bps(sell) + fee_bps(buy))
  BY DEF net_bps
<1> HIDE DEF gross, k
<1>5. k = margin_bps + m /\ k \in Nat /\ m <= k /\ gross # 0 /\ ~(gross > IMPLAUSIBLE_BPS)
      /\ ~(k < 0) /\ ~(k < margin_bps)
  BY <1>1, <1>2, <1>3, <1>4
<1>6. least \in Nat /\ earns \in Nat /\ least <= earns
  BY <1>5, EarnsNoMore DEF Least
<1>7. least > network_fee_lamports
  OBVIOUS
<1>8. n # 0
  <2> SUFFICES ASSUME n = 0 PROVE FALSE OBVIOUS
  <2>1. n \div 10000 = 0 OBVIOUS
  <2>2. least = 0 BY <2>1 DEF Least
  <2> QED BY <1>3, <1>7, <2>2
<1>9. net_lamports(n, sell, buy) = saturating_sub(earns, network_fee_lamports)
  BY DEF net_lamports, k
<1> HIDE DEF earns, least
<1>10. /\ net_lamports(n, sell, buy) # 0
       /\ saturating_sub(least, network_fee_lamports) <= net_lamports(n, sell, buy)
  BY <1>3, <1>6, <1>7, <1>9 DEF saturating_sub
<1>11. ~(sell.price <= buy.price)
  BY DEF IsPriced
<1>12. decline(n, sell, buy, FALSE, t) = "none"
  BY <1>5, <1>8, <1>10, <1>11 DEF decline, WrongWay, gross, k
<1>13. evaluate(n, sell, buy, FALSE, t).ok
  BY <1>12 DEF evaluate
<1>14. evaluate(n, sell, buy, FALSE, t).net_lamports = net_lamports(n, sell, buy)
  BY <1>12 DEF evaluate
<1>15. saturating_sub(least, network_fee_lamports) <= evaluate(n, sell, buy, FALSE, t).net_lamports
  BY <1>10, <1>14, Zenon
<1> QED BY <1>13, <1>15, Zenon DEF least

\* Either way round.
LEMMA EitherWayAtItsSize ==
  ASSUME NEW a, NEW b, IsPriced(a), IsPriced(b), NEW t, fresh_enough(a, b, t),
         fresh_enough(b, a, t), NEW n \in Nat, NEW m \in Nat, m > 0,
         gap_bps(a, b) <= IMPLAUSIBLE_BPS,
         gap_bps(a, b) = fee_bps(a) + fee_bps(b) + margin_bps + m,
         Least(n, m) > network_fee_lamports
  PROVE  \E v \in {evaluate(n, a, b, FALSE, t), evaluate(n, b, a, FALSE, t)} :
           v.ok /\ saturating_sub(Least(n, m), network_fee_lamports) <= v.net_lamports
<1> DEFINE way    == evaluate(n, a, b, FALSE, t)
           around == evaluate(n, b, a, FALSE, t)
           least  == saturating_sub(Least(n, m), network_fee_lamports)
<1>1. a.price \in Nat /\ b.price \in Nat
  BY DEF IsPriced
<1>2. fee_bps(a) \in Nat /\ fee_bps(b) \in Nat /\ margin_bps \in Nat /\ gap_bps(a, b) \in Nat
  BY GapIsNat, ArbAssumption
<1>3. a.price > b.price => way.ok /\ least <= way.net_lamports
  BY TakenAtItsSize
<1>4. b.price > a.price => around.ok /\ least <= around.net_lamports
  <2> SUFFICES ASSUME b.price > a.price PROVE around.ok /\ least <= around.net_lamports
    OBVIOUS
  <2>1. gap_bps(b, a) = gap_bps(a, b)
    BY <1>1 DEF gap_bps
  <2>2. fee_bps(a) + fee_bps(b) + margin_bps + m = fee_bps(b) + fee_bps(a) + margin_bps + m
    BY <1>2
  <2>3. gap_bps(b, a) = fee_bps(b) + fee_bps(a) + margin_bps + m
    BY <2>1, <2>2, Zenon
  <2>4. gap_bps(b, a) <= IMPLAUSIBLE_BPS
    BY <2>1, Zenon
  <2> QED BY <2>3, <2>4, TakenAtItsSize
<1>5. a.price # b.price
  <2> SUFFICES ASSUME a.price = b.price PROVE FALSE
    OBVIOUS
  <2>1. gap_bps(a, b) = 0 BY NoGap
  <2> QED BY <1>2, <2>1
<1>6. a.price > b.price \/ b.price > a.price
  BY <1>1, <1>5
<1> HIDE DEF way, around, least
<1>7. \E v \in {way, around} : v.ok /\ least <= v.net_lamports
  BY <1>3, <1>4, <1>6, Zenon
<1> QED BY <1>7, Zenon DEF way, around, least

\* Rehearsal::step: for any prices and fees, a row with a gap the bot believes
\* books nothing unless the bot would take the same two prices, and no more than
\* evaluate says they earn; what is booked for a wider gap is booked although
\* evaluate declines it both ways round.
THEOREM SessionEarningsWithinTheTrade == Spec => []EarningsWithinTheTrade
<1>1. ScreenInv => EarningsWithinTheTrade
  <2> DEFINE r == Head(to_roll)
             a == r.best.a
             b == r.best.b
             way    == evaluate(RehearsalSize, a, b, FALSE, now)
             around == evaluate(RehearsalSize, b, a, FALSE, now)
             m == saturating_sub(r.gap_bps, r.needs_bps)
  <2> SUFFICES ASSUME ScreenInv, to_roll # <<>>, r.priced, ~r.stale
               PROVE  /\ net(r) > 0 /\ r.gap_bps <= IMPLAUSIBLE_BPS =>
                           \E v \in {way, around} : v.ok /\ net(r) <= v.net_lamports
                      /\ ~(r.gap_bps <= IMPLAUSIBLE_BPS) => ~way.ok /\ ~around.ok
                      /\ took(r) /\ r.gap_bps > r.needs_bps => net(r) > 0
    BY DEF EarningsWithinTheTrade
  <2>1. CanRehearse /\ RowOk(r, now, {now}) /\ now \in Nat
    BY RowToRoll
  <2>2. /\ Entry(a, {now}) /\ Entry(b, {now}) /\ r.gap_bps = gap_bps(a, b)
        /\ r.needs_bps = fee_bps(a) + fee_bps(b) + margin_bps
    BY <2>1, RowParts
  <2> HIDE DEF r, a, b
  <2>3. IsPriced(a) /\ IsPriced(b) /\ fresh_enough(a, b, now) /\ fresh_enough(b, a, now)
    BY <2>1, <2>2, ArbAssumption DEF Entry, IsPriced, fresh_enough, saturating_sub
  <2>4. fee_bps(a) \in Nat /\ fee_bps(b) \in Nat /\ gap_bps(a, b) \in Nat
    BY <2>3, GapIsNat
  <2>5. /\ RehearsalSize \in Nat /\ network_fee_lamports \in Nat /\ margin_bps \in Nat
    BY RehearsalAssumption, ArbAssumption
  <2>6. m \in Nat
    BY <2>2, <2>4, <2>5 DEF saturating_sub
  <2>7. /\ Least(RehearsalSize, m) \in Nat
        /\ m = 0 => Least(RehearsalSize, m) = 0
        /\ m > 0 => Least(RehearsalSize, m) > network_fee_lamports
    <3> DEFINE q == RehearsalSize \div 10000
    <3>1. q \in Nat /\ q > network_fee_lamports /\ Least(RehearsalSize, m) = q * m
      BY <2>1, <2>5 DEF CanRehearse, Least
    <3> HIDE DEF q, m
    <3>2. q * m \in Nat /\ (m = 0 => q * m = 0) /\ (m > 0 => q * m >= q)
      BY <2>6, <3>1
    <3> QED BY <2>5, <3>1, <3>2
  <2>8. net(r) = IF took(r) THEN saturating_sub(Least(RehearsalSize, m), network_fee_lamports) ELSE 0
    BY DEF net, Least
  <2>9. m > 0 => r.gap_bps = r.needs_bps + m
    BY <2>2, <2>4, <2>5 DEF saturating_sub
  <2>10. r.gap_bps > r.needs_bps => m > 0
    BY <2>2, <2>4, <2>5 DEF saturating_sub
  <2>10a. ASSUME ~(r.gap_bps <= IMPLAUSIBLE_BPS) PROVE ~way.ok /\ ~around.ok
    <3>1. a.price \in Nat /\ b.price \in Nat /\ gap_bps(b, a) = gap_bps(a, b)
      BY <2>3 DEF IsPriced, gap_bps
    <3>2. r.gap_bps \in Nat /\ IMPLAUSIBLE_BPS \in Nat
      BY <2>2, <2>4, ArbAssumption
    <3>3. ~way.ok
      <4> SUFFICES ASSUME way.ok PROVE FALSE
        OBVIOUS
      <4>1. TradeAddsUp(RehearsalSize, gap_bps(a, b), fee_bps(a) + fee_bps(b), way)
        BY <2>1, <2>3, <2>5, AcceptedTradeAddsUp
      <4>2. gap_bps(a, b) \in 1 .. IMPLAUSIBLE_BPS
        <5> HIDE DEF way
        <5> QED BY <4>1 DEF TradeAddsUp
      <4> QED BY <2>2, <2>10a, <3>2, <4>2
    <3>4. ~around.ok
      <4> SUFFICES ASSUME around.ok PROVE FALSE
        OBVIOUS
      <4>1. TradeAddsUp(RehearsalSize, gap_bps(b, a), fee_bps(b) + fee_bps(a), around)
        BY <2>1, <2>3, <2>5, AcceptedTradeAddsUp
      <4>2. gap_bps(b, a) \in 1 .. IMPLAUSIBLE_BPS
        <5> HIDE DEF around
        <5> QED BY <4>1 DEF TradeAddsUp
      <4> QED BY <2>2, <2>10a, <3>1, <3>2, <4>2
    <3> QED BY <3>3, <3>4
  <2> HIDE DEF m, way, around
  <2>11. ASSUME net(r) > 0, r.gap_bps <= IMPLAUSIBLE_BPS
         PROVE \E v \in {way, around} : v.ok /\ net(r) <= v.net_lamports
    <3>1. /\ net(r) = saturating_sub(Least(RehearsalSize, m), network_fee_lamports)
          /\ Least(RehearsalSize, m) > network_fee_lamports
      BY <2>5, <2>7, <2>8, <2>11 DEF saturating_sub
    <3>2. m > 0
      BY <2>5, <2>6, <2>7, <3>1
    <3>3. r.gap_bps = r.needs_bps + m BY <2>9, <3>2
    <3>4. gap_bps(a, b) = fee_bps(a) + fee_bps(b) + margin_bps + m
      BY <2>2, <3>3
    <3>5. gap_bps(a, b) <= IMPLAUSIBLE_BPS
      BY <2>2, <2>11
    <3>6. \E v \in {way, around} :
            v.ok /\ saturating_sub(Least(RehearsalSize, m), network_fee_lamports) <= v.net_lamports
      BY <2>3, <2>5, <2>6, <3>1, <3>2, <3>4, <3>5, EitherWayAtItsSize DEF way, around
    <3> QED BY <3>1, <3>6, Zenon
  <2>12. ASSUME took(r), r.gap_bps > r.needs_bps PROVE net(r) > 0
    <3>1. m > 0 BY <2>10, <2>12
    <3> QED BY <2>5, <2>7, <2>8, <2>12, <3>1 DEF saturating_sub
  <2> QED BY <2>10a, <2>11, <2>12
<1> QED BY SessionScreenInvariant, <1>1, PTL
\* The two views of a rehearsed duel differ by what was lost.
DuelOk(d) == d.fast.gap_bps = d.slow.gap_bps + d.gap_lost_bps

DuelTape(q) == \E S : q \in Seq(S) /\ \A d \in S : DuelOk(d)

\* No more is taken than there were rows, and no more rows than triggers.
TallyInv ==
  /\ tick \in Nat /\ taken \in Nat /\ wallet \in Nat
  /\ wallet = totals.realised_lamports /\ totals.sent = taken
  /\ spent = taken * network_fee_lamports
  /\ DuelTape(duels)
  /\ command = "rehearse" =>
       IF reading = NotReading THEN taken + Len(to_roll) <= 9 * tick
                               ELSE taken <= 9 * (tick - 1)
  /\ command = "race" => taken = 0

LEMMA TallyInit == Init => TallyInv
<1> SUFFICES ASSUME Init PROVE TallyInv
  OBVIOUS
<1>1. /\ tick = 0 /\ taken = 0 /\ wallet = 0 /\ spent = 0 /\ duels = <<>> /\ to_roll = <<>>
      /\ totals.realised_lamports = 0 /\ totals.sent = 0
      /\ reading = NotReading
  BY DEF Init, RehearsalInit, LedgerInit, MarketInit
<1>2. DuelTape(duels)
  <2>1. PICK S : S = {} OBVIOUS
  <2>2. duels \in Seq(S) /\ \A d \in S : DuelOk(d) BY <1>1, <2>1
  <2> QED BY <2>2 DEF DuelTape
<1>3. Len(<<>>) = 0 OBVIOUS
<1>4. network_fee_lamports \in Nat BY ArbAssumption
<1> QED BY <1>1, <1>2, <1>3, <1>4 DEF TallyInv

\* The tape with one more duel, cut to its length.
LEMMA TapeGrows ==
  ASSUME NEW q, DuelTape(q), NEW d, DuelOk(d)
  PROVE  DuelTape(cut(<<d>> \o q))
<1>1. PICK S : q \in Seq(S) /\ \A x \in S : DuelOk(x)
  BY DEF DuelTape
<1> DEFINE U == S \cup {d}
           z == <<d>> \o q
<1>2. z \in Seq(U)
  <2>1. <<d>> \in Seq(U) /\ q \in Seq(U)
    BY <1>1
  <2> QED BY <2>1, ConcatProperties
<1>3. \A x \in U : DuelOk(x)
  BY <1>1
<1> HIDE DEF U, z
<1>4. cut(z) \in Seq(U)
  <2>1. CASE Len(z) > DuelsKept
    <3>1. DuelsKept \in Nat BY RehearsalAssumption
    <3>2. \A i \in 1 .. DuelsKept : z[i] \in U
      BY <1>2, <2>1, <3>1
    <3>3. SubSeq(z, 1, DuelsKept) \in Seq(U)
      BY <1>2, <3>1, <3>2, <2>1, SubSeqProperties
    <3> QED BY <2>1, <3>3 DEF cut
  <2>2. CASE ~(Len(z) > DuelsKept)
    BY <1>2, <2>2 DEF cut
  <2> QED BY <2>1, <2>2
<1>5. DuelTape(cut(z))
  BY <1>3, <1>4 DEF DuelTape
<1> QED BY <1>5 DEF z

\* What a row that is rolled books.
LEMMA RolledRow ==
  ASSUME NEW r, NEW t \in Nat, NEW T, RowOk(r, t, T), r.priced, CanRehearse,
         NEW lost \in lost_by(r)
  PROVE  /\ net(r) \in Nat /\ (~took(r) => net(r) = 0)
         /\ r.gap_bps = saturating_sub(r.gap_bps, lost) + lost
<1>1. /\ r.gap_bps \in Nat /\ r.needs_bps \in Nat /\ r.needs_bps >= margin_bps
      /\ margin_bps \in Nat /\ margin_bps > 1
      /\ r.short_by_bps = saturating_sub(r.needs_bps, r.gap_bps)
  <2>1. /\ Entry(r.best.a, T) /\ Entry(r.best.b, T)
        /\ r.gap_bps = gap_bps(r.best.a, r.best.b)
        /\ r.needs_bps = fee_bps(r.best.a) + fee_bps(r.best.b) + margin_bps
        /\ r.short_by_bps = saturating_sub(r.needs_bps, r.gap_bps)
    BY RowParts
  <2>2. /\ gap_bps(r.best.a, r.best.b) \in Nat
        /\ fee_bps(r.best.a) \in Nat /\ fee_bps(r.best.b) \in Nat
    BY <2>1, GapIsNat DEF Entry
  <2> QED BY <2>1, <2>2, ArbAssumption DEF CanRehearse
<1>2. took(r) => r.gap_bps >= 2
  BY <1>1 DEF took, saturating_sub
<1>3. lost \in Nat /\ lost <= r.gap_bps
  BY <1>1, <1>2 DEF lost_by, Larger
<1>4. r.gap_bps = saturating_sub(r.gap_bps, lost) + lost
  BY <1>1, <1>3 DEF saturating_sub
<1>5. net(r) \in Nat
  <2> DEFINE m == saturating_sub(r.gap_bps, r.needs_bps)
  <2>1. m \in Nat BY <1>1 DEF saturating_sub
  <2>2. (RehearsalSize \div 10000) * m \in Nat /\ network_fee_lamports \in Nat
    <3>1. RehearsalSize \div 10000 \in Nat BY RehearsalAssumption
    <3> HIDE DEF m
    <3> QED BY <2>1, <3>1, ArbAssumption
  <2> HIDE DEF m
  <2>3. saturating_sub((RehearsalSize \div 10000) * m, network_fee_lamports) \in Nat
    BY <2>2 DEF saturating_sub
  <2> QED BY <2>3 DEF net, m
<1>6. ~took(r) => net(r) = 0
  BY DEF net
<1> QED BY <1>4, <1>5, <1>6

LEMMA TallyStep == ScreenInv /\ ScreenInv' /\ TallyInv /\ [Next]_vars => TallyInv'
<1> SUFFICES ASSUME ScreenInv, ScreenInv', TallyInv, [Next]_vars PROVE TallyInv'
  OBVIOUS
<1>1. command' = command /\ command \in {"race", "rehearse"}
  BY SessionFrame DEF ScreenInv, BookInv
<1>2. /\ tick \in Nat /\ taken \in Nat /\ wallet \in Nat /\ network_fee_lamports \in Nat
  BY ArbAssumption DEF TallyInv
\* A step that does not touch the numbers.
<1>3. ASSUME UNCHANGED <<ledger, tick, taken, spent, wallet, duels>>,
             command = "rehearse" =>
               IF reading' = NotReading THEN taken + Len(to_roll') <= 9 * tick
                                        ELSE taken <= 9 * (tick - 1)
      PROVE  TallyInv'
  BY <1>1, <1>3 DEF TallyInv, ledger
<1>4. CASE Feed
  <2>1. command = "race" /\ UNCHANGED <<ledger, tick, taken, spent, wallet, duels>>
    BY <1>4 DEF Feed, session_vars
  <2> QED BY <1>3, <2>1
<1>5. CASE Ticker
  <2>1. command = "race" /\ UNCHANGED <<ledger, tick, taken, spent, wallet, duels>>
    BY <1>5 DEF Ticker, session_vars
  <2> QED BY <1>3, <2>1
<1>6. CASE Read
  <2>1. UNCHANGED <<ledger, tick, taken, spent, wallet, duels>>
    BY <1>6 DEF Read
  <2>2. CASE Get /\ UNCHANGED to_roll
    <3>1. reading # NotReading /\ reading'.stage = reading.stage /\ reading.stage # "none"
      <4>1. /\ reading # NotReading
            /\ reading' = After(reading, first(reading.todo), lookup(pool(first(reading.todo))))
        BY <2>2 DEF Get
      <4>2. ReadingOk(reading, begun.now, Dates)
        BY <4>1 DEF ScreenInv, ReadingInv
      <4>3. Shape(reading) /\ reading.stage \in {"snapshot", "pool_rows"}
        BY <4>2 DEF ReadingOk
      <4>4. IsAfter(reading', reading, first(reading.todo), lookup(pool(first(reading.todo))))
        BY <4>1, <4>3, AfterFields
      <4> QED BY <4>1, <4>3, <4>4 DEF IsAfter
    <3>2. reading' # NotReading
      BY <3>1 DEF NotReading
    <3> QED BY <1>3, <2>1, <3>1, <3>2 DEF TallyInv
  <2>3. CASE SnapshotReturns /\ UNCHANGED to_roll
    <3>1. /\ reading.stage = "snapshot"
          /\ reading' = [reading EXCEPT !.stage = "pool_rows", !.now = now, !.todo = pool_gets]
      BY <2>3 DEF SnapshotReturns
    <3>2. reading # NotReading
      BY <3>1 DEF NotReading
    <3>3. Shape(reading)
      BY <3>2 DEF ScreenInv, ReadingInv, ReadingOk
    <3>4. reading' # NotReading
      BY <3>1, <3>3 DEF Shape, NotReading
    <3> QED BY <1>3, <2>1, <3>2, <3>4 DEF TallyInv
  <2>4. CASE PoolRowsReturns /\ to_roll' = IF command = "rehearse" THEN rows ELSE to_roll
    <3>1. reading.stage = "pool_rows" /\ reading' = NotReading
      BY <2>4 DEF PoolRowsReturns
    <3>2. reading # NotReading
      BY <3>1 DEF NotReading
    <3>3. ASSUME command = "rehearse" PROVE taken + Len(to_roll') <= 9 * tick
      <4>1. taken <= 9 * (tick - 1)
        BY <3>2, <3>3 DEF TallyInv
      <4>2. Len(to_roll') <= Cardinality(Pairs) /\ Cardinality(Pairs) <= 9
        BY <2>4, <3>3 DEF ScreenInv, BookInv, CanRehearse
      <4>3. Len(to_roll') \in Nat /\ Cardinality(Pairs) \in Nat
        BY PairsFinite DEF ScreenInv, RowList
      <4> QED BY <1>2, <4>1, <4>2, <4>3
    <3> QED BY <1>3, <2>1, <3>1, <3>3
  <2> QED BY <1>6, <2>2, <2>3, <2>4 DEF Read
<1>7. CASE Rehearse
  <2>1. command = "rehearse"
    BY <1>7 DEF Rehearse
  <2>2. ASSUME NEW price, StepBegins(price) PROVE TallyInv'
    <3>1. /\ UNCHANGED <<ledger, taken, spent, wallet, duels>> /\ tick' = tick + 1
          /\ reading = NotReading /\ reading' = Reading(now) /\ to_roll = <<>>
      BY <2>2 DEF StepBegins, BeginReading
    <3>2. reading' # NotReading
      BY <3>1 DEF Reading, NotReading
    <3>3. taken <= 9 * tick
      <4>1. Len(to_roll) = 0 BY <3>1
      <4> QED BY <1>2, <2>1, <3>1, <4>1 DEF TallyInv
    <3>4. tick' \in Nat /\ taken' <= 9 * (tick' - 1)
      BY <1>2, <3>1, <3>3
    <3> QED BY <1>1, <2>1, <3>1, <3>2, <3>4 DEF TallyInv, ledger
  <2>3. ASSUME NEW lost \in lost_by(Head(to_roll)), RowRolled(lost) PROVE TallyInv'
    <3> DEFINE r == Head(to_roll)
               d == [gap_lost_bps |-> lost,
                     fast |-> [gap_bps |-> r.gap_bps, tradeable |-> took(r)],
                     slow |-> [gap_bps |-> saturating_sub(r.gap_bps, lost), tradeable |-> FALSE]]
               trade == [net_lamports |-> net(r), booking |-> booking(r)]
    <3>1. /\ to_roll # <<>> /\ r.priced /\ to_roll' = Tail(to_roll)
          /\ reading' = reading /\ tick' = tick
          /\ taken' = IF took(r) THEN taken + 1 ELSE taken
          /\ spent' = IF took(r) THEN spent + network_fee_lamports ELSE spent
          /\ wallet' = wallet + net(r)
          /\ totals' = totals_with(trade)
          /\ duels' = cut(<<d>> \o duels)
      BY <2>3 DEF RowRolled, record, Earned
    <3>2. /\ CanRehearse /\ RowOk(r, now, {now}) /\ now \in Nat /\ reading = NotReading
          /\ Len(Tail(to_roll)) = Len(to_roll) - 1 /\ Len(to_roll) \in Nat
      BY <3>1, RowToRoll
    <3>3. /\ net(r) \in Nat /\ (~took(r) => net(r) = 0)
          /\ r.gap_bps = saturating_sub(r.gap_bps, lost) + lost
      BY <2>3, <3>1, <3>2, RolledRow
    <3>4. DuelOk(d)
      BY <3>3 DEF DuelOk
    <3>5. trade.net_lamports = net(r) /\ trade.booking = booking(r)
      OBVIOUS
    <3> HIDE DEF r, d, trade
    <3>6. DuelTape(duels')
      BY <3>1, <3>4, TapeGrows DEF TallyInv
    <3>7. /\ totals'.sent = totals.sent + (IF booking(r) = "Realised" THEN 1 ELSE 0)
          /\ totals'.realised_lamports
               = totals.realised_lamports + (IF booking(r) = "Realised" THEN net(r) ELSE 0)
      BY <3>1, <3>5 DEF totals_with
    <3>8. /\ booking(r) = IF took(r) THEN "Realised" ELSE "None"
      BY DEF booking
    <3>9. taken' + Len(to_roll') <= 9 * tick'
      <4>1. taken + Len(to_roll) <= 9 * tick
        BY <2>1, <3>2 DEF TallyInv
      <4>2. taken' <= taken + 1 /\ taken' \in Nat
        BY <1>2, <3>1
      <4> QED BY <1>2, <3>1, <3>2, <4>1, <4>2
    <3>10. /\ wallet' = totals'.realised_lamports /\ totals'.sent = taken'
           /\ wallet' \in Nat /\ taken' \in Nat
      BY <1>2, <3>1, <3>3, <3>7, <3>8 DEF TallyInv
    <3>11. spent' = taken' * network_fee_lamports
      <4>1. spent = taken * network_fee_lamports BY DEF TallyInv
      <4>2. (taken + 1) * network_fee_lamports = taken * network_fee_lamports + network_fee_lamports
        BY <1>2
      <4> QED BY <3>1, <4>1, <4>2
    <3>12. tick' \in Nat /\ reading' = NotReading
      BY <1>2, <3>1, <3>2
    <3> QED BY <1>1, <2>1, <3>6, <3>9, <3>10, <3>11, <3>12 DEF TallyInv
  <2>4. ASSUME RowSkipped PROVE TallyInv'
    <3>1. /\ to_roll # <<>> /\ to_roll' = Tail(to_roll) /\ reading' = reading
          /\ UNCHANGED <<ledger, tick, taken, spent, wallet, duels>>
      BY <2>4 DEF RowSkipped
    <3>2. reading = NotReading /\ Len(to_roll') = Len(to_roll) - 1 /\ Len(to_roll) \in Nat
      BY <3>1, RowToRoll
    <3>3. taken + Len(to_roll) <= 9 * tick
      BY <2>1, <3>2 DEF TallyInv
    <3>4. taken + Len(to_roll') <= 9 * tick
      BY <1>2, <3>2, <3>3
    <3> QED BY <1>3, <3>1, <3>2, <3>4
  <2> QED BY <1>7, <2>2, <2>3, <2>4 DEF Rehearse
<1>8. CASE Tick
  <2>1. command = "race" /\ UNCHANGED <<ledger, tick, taken, spent, wallet, duels>>
    BY <1>8 DEF Tick, session_vars
  <2> QED BY <1>3, <2>1
<1>9. CASE UNCHANGED vars
  <2>1. UNCHANGED <<ledger, tick, taken, spent, wallet, duels>>
        /\ reading' = reading /\ to_roll' = to_roll
    BY <1>9 DEF vars, session_vars
  <2> QED BY <1>3, <2>1 DEF TallyInv
<1> QED BY <1>4, <1>5, <1>6, <1>7, <1>8, <1>9 DEF Next

\* Rehearsal::step: balance, ledger, fees and counters agree after any number
\* of steps, what one lane saw less what it took never wraps, and the two views
\* of every duel on the tape differ by what it says was lost.
THEOREM SessionRehearsalAddsUp == Spec => []RehearsalAddsUp
<1>1. ScreenInv /\ TallyInv => RehearsalAddsUp
  <2> SUFFICES ASSUME ScreenInv, TallyInv PROVE RehearsalAddsUp
    OBVIOUS
  <2>1. fast_bot.below_cost = tick * 9 - taken
    BY DEF fast_bot, seen_fast
  <2>2. taken <= 9 * tick
    <3>1. Len(to_roll) \in Nat /\ tick \in Nat /\ taken \in Nat
      BY DEF ScreenInv, RowList, TallyInv
    <3>2. command = "race" \/ command = "rehearse"
      BY DEF ScreenInv, BookInv
    <3>3. CASE command = "race"
      BY <3>1, <3>3 DEF TallyInv
    <3>4. CASE command = "rehearse" /\ reading = NotReading
      BY <3>1, <3>4 DEF TallyInv
    <3>5. CASE command = "rehearse" /\ reading # NotReading
      BY <3>1, <3>5 DEF TallyInv
    <3> QED BY <3>2, <3>3, <3>4, <3>5
  <2>3. tick * 9 - taken >= 0
    <3>1. tick \in Nat /\ taken \in Nat BY DEF TallyInv
    <3> QED BY <2>2, <3>1
  <2>4. ASSUME NEW i \in DOMAIN duels PROVE DuelOk(duels[i])
    <3>1. PICK S : duels \in Seq(S) /\ \A d \in S : DuelOk(d)
      BY DEF TallyInv, DuelTape
    <3>2. duels[i] \in S BY <3>1
    <3> QED BY <3>1, <3>2
  <2> QED BY <2>1, <2>3, <2>4 DEF RehearsalAddsUp, TallyInv, DuelOk
<1> QED BY ScreenInit, ScreenStep, TallyInit, TallyStep, <1>1, PTL DEF Spec
-----------------------------------------------------------------------------
(* A reading of a book that stands still *)

\* What a lookup finds in a book.
Found(book, p) == IF p \in DOMAIN book THEN book[p] ELSE Missing

\* x shows the widest of the routes D.
Widest(x, D, book, t) ==
  /\ x = Missing <=> D = {}
  /\ x # Missing =>
       /\ x.route \in D
       /\ x = Route(x.route, book[x.route[1]], book[x.route[2]], t)
       /\ \A o \in D : gap_bps(book[o[1]], book[o[2]]) <= x.gap_bps

\* The pools and the routes of a pair that a reading has been through.
Counted(r, book, pair)  == {p \in DOMAIN book : PoolBook[p] = pair /\ Count(p) \notin r.todo}
Measured(r, book, pair) == {o \in OpenRoutes(book, pair) : Other(o) \notin r.todo}

\* Between the two lookups of a route no other lookup is made.
HalfWay(r, book) ==
  \A o \in Routes : One(o) \notin r.todo /\ Other(o) \in r.todo =>
    /\ \A h \in r.todo : h = Other(o) \/ Sooner(Other(o), h)
    /\ r.one = Found(book, o[1])

StillSnapshot(r, book, t) ==
  /\ \A pair \in Pairs : r.reporting[pair] = Cardinality(Counted(r, book, pair))
  /\ \A pair \in Pairs : Widest(r.best[pair], Measured(r, book, pair), book, t)
  /\ HalfWay(r, book)
  /\ DOMAIN r.listed = {}

StillPools(r, book) ==
  /\ DOMAIN r.listed = {p \in DOMAIN book : Row(p) \notin r.todo}
  /\ \A p \in DOMAIN r.listed : r.listed[p] = book[p]

StillReading(r, book, t) ==
  /\ r.stage = "snapshot" => StillSnapshot(r, book, t)
  /\ r.stage = "pool_rows" => StillPools(r, book)

\* A row of the whole market of its pair.
RowStill(x, book, t) ==
  /\ x.priced <=> x.best # Missing
  /\ x.priced => x.gap_bps = x.best.gap_bps /\ x.needs_bps = x.best.needs_bps
  /\ x.pools_priced = Cardinality({p \in DOMAIN book : PoolBook[p] = x.pair})
  /\ Widest(x.best, OpenRoutes(book, x.pair), book, t)

IsBook(book) == \A p \in DOMAIN book : p \in Pools /\ IsPriced(book[p])

\* One more route.
LEMMA WiderIsWidest ==
  ASSUME NEW book, IsBook(book), NEW t, NEW x, NEW D, Widest(x, D, book, t),
         \A o \in D : o[1] \in DOMAIN book /\ o[2] \in DOMAIN book,
         NEW o, o[1] \in DOMAIN book, o[2] \in DOMAIN book
  PROVE  Widest(Wider(x, Route(o, book[o[1]], book[o[2]], t)), D \cup {o}, book, t)
<1> DEFINE y == Route(o, book[o[1]], book[o[2]], t)
           w == Wider(x, y)
<1>1. /\ y.route = o /\ y.gap_bps = gap_bps(book[o[1]], book[o[2]]) /\ y.price = 1
  BY DEF Route
<1>2. y = Route(y.route, book[y.route[1]], book[y.route[2]], t)
  BY <1>1
<1> HIDE DEF y
<1>3. y # Missing
  BY <1>1 DEF Missing
<1>4. y.gap_bps \in Nat
  BY <1>1, GapIsNat DEF IsBook
<1>5. ASSUME x # Missing PROVE x.gap_bps \in Nat
  <2>1. x.route \in D /\ x = Route(x.route, book[x.route[1]], book[x.route[2]], t)
    BY <1>5 DEF Widest
  <2>2. x.gap_bps = gap_bps(book[x.route[1]], book[x.route[2]])
    BY <2>1 DEF Route
  <2>3. IsPriced(book[x.route[1]]) /\ IsPriced(book[x.route[2]])
    BY <2>1 DEF IsBook
  <2> QED BY <2>2, <2>3, GapIsNat
<1>6. \A d \in D : gap_bps(book[d[1]], book[d[2]]) \in Nat
  BY GapIsNat DEF IsBook
<1>7. CASE x = Missing
  <2>1. D = {} /\ w = y
    BY <1>7 DEF Widest, Wider
  <2>2. w.route \in D \cup {o} /\ w # Missing
        /\ w = Route(w.route, book[w.route[1]], book[w.route[2]], t)
    BY <1>1, <1>2, <1>3, <2>1
  <2>3. \A d \in D \cup {o} : gap_bps(book[d[1]], book[d[2]]) <= w.gap_bps
    BY <1>1, <1>4, <2>1
  <2> HIDE DEF w
  <2> QED BY <2>2, <2>3 DEF Widest, w, y
<1>8. CASE x # Missing /\ y.gap_bps > x.gap_bps
  <2>1. w = y
    BY <1>8 DEF Wider
  <2>2. w.route \in D \cup {o} /\ w # Missing
        /\ w = Route(w.route, book[w.route[1]], book[w.route[2]], t)
    BY <1>1, <1>2, <1>3, <2>1
  <2>3. \A d \in D \cup {o} : gap_bps(book[d[1]], book[d[2]]) <= w.gap_bps
    <3>1. \A d \in D : gap_bps(book[d[1]], book[d[2]]) <= x.gap_bps
      BY <1>8 DEF Widest
    <3> QED BY <1>1, <1>4, <1>5, <1>6, <1>8, <2>1, <3>1
  <2> HIDE DEF w
  <2> QED BY <2>2, <2>3 DEF Widest, w, y
<1>9. CASE x # Missing /\ ~(y.gap_bps > x.gap_bps)
  <2>1. w = x
    BY <1>9 DEF Wider
  <2>2. w.route \in D \cup {o} /\ w # Missing
        /\ w = Route(w.route, book[w.route[1]], book[w.route[2]], t)
    BY <1>9, <2>1 DEF Widest
  <2>3. \A d \in D \cup {o} : gap_bps(book[d[1]], book[d[2]]) <= w.gap_bps
    <3>1. \A d \in D : gap_bps(book[d[1]], book[d[2]]) <= x.gap_bps
      BY <1>9 DEF Widest
    <3> QED BY <1>1, <1>4, <1>5, <1>6, <1>9, <2>1, <3>1
  <2> HIDE DEF w
  <2> QED BY <2>2, <2>3 DEF Widest, w, y
<1> QED BY <1>7, <1>8, <1>9

\* The lookups tell apart what they are for.
LEMMA LookupsApart ==
  /\ \A p \in Pools : Count(p).side = 0 /\ Count(p).other = p /\ Count(p).pair = PoolBook[p]
  /\ \A o \in Routes : /\ One(o).side = 1 /\ Other(o).side = 2
                       /\ One(o).pair = Other(o).pair /\ One(o).one = Other(o).one
                       /\ One(o).other = Other(o).other
                       /\ Other(o).one = o[1] /\ Other(o).other = o[2]
                       /\ Other(o).pair = PoolBook[o[1]]
                       /\ One(o) \in GetType /\ Other(o) \in GetType
  /\ \A p \in Pools : Row(p).side = 3 /\ Row(p).other = p
  /\ \A o, d \in Routes : (Other(o) = Other(d) => o = d) /\ (One(o) = One(d) => o = d)
<1>1. ASSUME NEW o \in Routes PROVE o = <<o[1], o[2]>> /\ o[1] \in Pools /\ o[2] \in Pools
  BY DEF Routes
<1>2. ASSUME NEW o \in Routes
      PROVE  /\ One(o).side = 1 /\ Other(o).side = 2
             /\ One(o).pair = Other(o).pair /\ One(o).one = Other(o).one
             /\ One(o).other = Other(o).other
             /\ Other(o).one = o[1] /\ Other(o).other = o[2] /\ One(o).one = o[1]
             /\ One(o).other = o[2] /\ Other(o).pair = PoolBook[o[1]]
             /\ One(o) \in GetType /\ Other(o) \in GetType
  BY <1>1, PairsFinite DEF One, Other, GetType
<1>3. ASSUME NEW o \in Routes, NEW d \in Routes
      PROVE  (Other(o) = Other(d) => o = d) /\ (One(o) = One(d) => o = d)
  BY <1>1, <1>2
<1>4. ASSUME NEW p \in Pools
      PROVE  /\ Count(p).side = 0 /\ Count(p).other = p /\ Count(p).pair = PoolBook[p]
             /\ Row(p).side = 3 /\ Row(p).other = p
  BY DEF Count, Row
<1> QED BY <1>2, <1>3, <1>4

\* A lookup finds what is in the book.
LEMMA FoundInBook ==
  ASSUME NEW book, IsBook(book), NEW p
  PROVE  Found(book, p) # Missing <=> p \in DOMAIN book
<1>1. ASSUME p \in DOMAIN book PROVE book[p] # Missing
  BY <1>1 DEF IsBook, IsPriced, Missing
<1> QED BY <1>1 DEF Found

\* The reading s is the reading r after its first lookup, g.
StillLookup(s, r, g, book, t) ==
  /\ r.stage = "snapshot" /\ r.now = t /\ r.todo \subseteq snapshot_gets
  /\ r.reporting \in [Pairs -> Nat] /\ r.best = [pair \in Pairs |-> r.best[pair]]
  /\ g \in r.todo /\ \A h \in r.todo : h = g \/ Sooner(g, h)
  /\ IsAfter(s, r, g, Found(book, pool(g)))

\* Every pool that was looked up is counted, and only once.
LEMMA StillCounts ==
  ASSUME NEW book, IsBook(book), NEW t, NEW r, NEW g, NEW s, StillLookup(s, r, g, book, t),
         NEW pair \in Pairs, r.reporting[pair] = Cardinality(Counted(r, book, pair))
  PROVE  s.reporting[pair] = Cardinality(Counted(s, book, pair))
<1> DEFINE e == Found(book, pool(g))
           A == Counted(r, book, pair)
           B == Counted(s, book, pair)
<1>1. /\ g \in snapshot_gets /\ g \in r.todo /\ s.todo = r.todo \ {g}
      /\ r.reporting \in [Pairs -> Nat]
      /\ s.reporting = IF g.side = 0 /\ e # Missing
                         THEN [r.reporting EXCEPT ![g.pair] = r.reporting[g.pair] + 1]
                         ELSE r.reporting
  BY DEF StillLookup, IsAfter
<1>2. \A p \in DOMAIN book : p \in Pools
  BY DEF IsBook
<1>3. IsFiniteSet(A)
  <2>1. A \in SUBSET Pools BY <1>2 DEF Counted
  <2> QED BY <2>1, PairsFinite, FS_Subset
<1>4. e # Missing <=> pool(g) \in DOMAIN book
  BY FoundInBook
<1>5. CASE g.side = 0 /\ e # Missing /\ g.pair = pair
  <2>1. pool(g) = g.other /\ g.other \in DOMAIN book /\ g = Count(g.other)
    <3>1. pool(g) = g.other BY <1>5 DEF pool
    <3>2. g = Count(g.other) BY <1>1, <1>5, LookupKinds
    <3> QED BY <1>4, <1>5, <3>1, <3>2
  <2>2. PoolBook[g.other] = pair
    BY <1>2, <1>5, <2>1, LookupsApart
  <2>3. \A p \in DOMAIN book : Count(p) = g => p = g.other
    BY <1>2, LookupsApart
  <2>4. B = A \cup {g.other} /\ g.other \notin A
    BY <1>1, <2>1, <2>2, <2>3 DEF Counted
  <2> HIDE DEF A, B, e
  <2>5. Cardinality(B) = Cardinality(A) + 1
    BY <1>3, <2>4, FS_AddElement
  <2>6. s.reporting[pair] = r.reporting[pair] + 1
    BY <1>1, <1>5
  <2>7. r.reporting[pair] = Cardinality(A) BY DEF A
  <2>8. s.reporting[pair] = Cardinality(B) BY <2>5, <2>6, <2>7
  <2> QED BY <2>8 DEF B
<1>6. CASE ~(g.side = 0 /\ e # Missing /\ g.pair = pair)
  <2>1. ASSUME NEW p \in DOMAIN book, PoolBook[p] = pair, Count(p) = g PROVE FALSE
    <3>1. g.side = 0 /\ g.other = p /\ g.pair = pair
      BY <1>2, <2>1, LookupsApart
    <3>2. pool(g) = p BY <3>1 DEF pool
    <3> QED BY <1>4, <1>6, <3>1, <3>2
  <2>2. B = A
    BY <1>1, <2>1 DEF Counted
  <2>3. s.reporting[pair] = r.reporting[pair]
    BY <1>1, <1>6
  <2> QED BY <2>2, <2>3
<1> QED BY <1>5, <1>6

\* Between the two lookups of a route nothing else is looked up.
LEMMA StillHalfWay ==
  ASSUME NEW book, NEW t, NEW r, NEW g, NEW s, StillLookup(s, r, g, book, t), HalfWay(r, book)
  PROVE  HalfWay(s, book)
<1> SUFFICES ASSUME NEW o \in Routes, One(o) \notin s.todo, Other(o) \in s.todo
             PROVE  /\ \A h \in s.todo : h = Other(o) \/ Sooner(Other(o), h)
                    /\ s.one = Found(book, o[1])
  BY DEF HalfWay
<1>1. /\ g \in snapshot_gets /\ g \in r.todo /\ s.todo = r.todo \ {g}
      /\ r.todo \subseteq GetType
      /\ \A h \in r.todo : h = g \/ Sooner(g, h)
      /\ s.one = IF g.side = 1 THEN Found(book, pool(g)) ELSE r.one
  BY LookupKinds DEF StillLookup, IsAfter
<1>2. Other(o) # g /\ Other(o) \in r.todo
  BY <1>1
<1>3. g = One(o)
  <2> SUFFICES ASSUME g # One(o) PROVE FALSE
    OBVIOUS
  <2>1. One(o) \notin r.todo
    BY <1>1
  <2>2. Sooner(Other(o), g)
    BY <1>1, <1>2, <2>1 DEF HalfWay
  <2>3. Sooner(g, Other(o))
    BY <1>1, <1>2
  <2>4. g \in GetType /\ Other(o) \in GetType
    BY <1>1, <1>2
  <2> QED BY <2>2, <2>3, <2>4 DEF Sooner, GetType
<1>4. g.side = 1 /\ g.one = o[1]
  BY <1>3, LookupsApart
<1>5. s.one = Found(book, o[1])
  BY <1>1, <1>4 DEF pool
<1>6. ASSUME NEW h \in s.todo, h # Other(o) PROVE Sooner(Other(o), h)
  <2>1. Sooner(g, h) /\ h \in GetType /\ h # g
    BY <1>1
  <2> DEFINE f == Other(o)
  <2>2. /\ f.pair = g.pair /\ f.one = g.one /\ f.other = g.other /\ f.side = 2 /\ g.side = 1
        /\ f \in GetType /\ g \in GetType
    BY <1>1, <1>3, LookupsApart
  <2> HIDE DEF f
  <2>3. h # f BY <1>6 DEF f
  <2>4. ~(h.pair = f.pair /\ h.one = f.one /\ h.other = f.other /\ h.side = f.side)
    BY <2>1, <2>2, <2>3 DEF GetType
  <2>5. /\ f.pair \in Nat /\ f.one \in Nat /\ f.other \in Nat /\ f.side \in Nat
        /\ h.pair \in Nat /\ h.one \in Nat /\ h.other \in Nat /\ h.side \in Nat
    BY <2>1, <2>2 DEF GetType
  <2>6. Sooner(f, h)
    BY <2>1, <2>2, <2>4, <2>5 DEF Sooner
  <2> QED BY <2>6 DEF f
<1> QED BY <1>5, <1>6

\* The route kept is the widest of those measured.
LEMMA StillWidest ==
  ASSUME NEW book, IsBook(book), NEW t, NEW r, NEW g, NEW s, StillLookup(s, r, g, book, t),
         HalfWay(r, book), NEW pair \in Pairs,
         Widest(r.best[pair], Measured(r, book, pair), book, t)
  PROVE  Widest(s.best[pair], Measured(s, book, pair), book, t)
<1> DEFINE e == Found(book, pool(g))
           A == Measured(r, book, pair)
           B == Measured(s, book, pair)
           o == <<g.one, g.other>>
           y == Route(o, r.one, e, t)
<1>1. /\ g \in snapshot_gets /\ g \in r.todo /\ s.todo = r.todo \ {g}
      /\ r.todo \subseteq GetType
      /\ \A h \in r.todo : h = g \/ Sooner(g, h)
      /\ r.best = [p \in Pairs |-> r.best[p]]
      /\ s.best = IF g.side = 2 /\ e # Missing /\ r.one # Missing
                    THEN [r.best EXCEPT ![g.pair] = Wider(r.best[g.pair], y)]
                    ELSE r.best
  BY LookupKinds DEF StillLookup, IsAfter
<1>2. \A d \in OpenRoutes(book, pair) :
        d \in Routes /\ d[1] \in DOMAIN book /\ d[2] \in DOMAIN book /\ PoolBook[d[1]] = pair
  BY DEF OpenRoutes, Routes, IsBook
<1>3. ASSUME g.side = 2
      PROVE  /\ o \in Routes /\ g = Other(o) /\ g.pair = PoolBook[o[1]]
             /\ r.one = Found(book, o[1]) /\ e = Found(book, o[2])
  <2>1. o \in Routes /\ g = Other(o)
    BY <1>1, <1>3, LookupKinds
  <2>2. One(o) \notin r.todo
    <3> SUFFICES ASSUME One(o) \in r.todo PROVE FALSE
      OBVIOUS
    <3>1. One(o).side = 1 /\ One(o).pair = g.pair /\ One(o).one = g.one /\ One(o).other = g.other
      BY <2>1, LookupsApart
    <3>2. Sooner(g, One(o))
      BY <1>1, <1>3, <3>1
    <3>3. g \in GetType
      BY <1>1
    <3> QED BY <1>3, <3>1, <3>2, <3>3 DEF Sooner, GetType
  <2>3. r.one = Found(book, o[1])
    BY <1>1, <2>1, <2>2 DEF HalfWay
  <2>4. g.pair = PoolBook[o[1]]
    BY <2>1, LookupsApart
  <2>5. e = Found(book, o[2])
    BY <1>3 DEF pool
  <2> QED BY <2>1, <2>3, <2>4, <2>5
<1> HIDE DEF o, e, y
<1>4. CASE g.side = 2 /\ e # Missing /\ r.one # Missing /\ g.pair = pair
  <2>1. /\ o \in Routes /\ g = Other(o) /\ PoolBook[o[1]] = pair
        /\ r.one = Found(book, o[1]) /\ e = Found(book, o[2])
    BY <1>3, <1>4
  <2>2. o[1] \in DOMAIN book /\ o[2] \in DOMAIN book
    BY <1>4, <2>1, FoundInBook
  <2>3. r.one = book[o[1]] /\ e = book[o[2]]
    BY <2>1, <2>2 DEF Found
  <2>4. o \in OpenRoutes(book, pair)
    BY <2>1, <2>2 DEF OpenRoutes, Routes
  <2>5. \A d \in OpenRoutes(book, pair) : Other(d) = g => d = o
    BY <1>2, <2>1, LookupsApart
  <2>6. B = A \cup {o}
    BY <1>1, <2>1, <2>4, <2>5 DEF Measured
  <2>7. s.best[pair] = Wider(r.best[pair], y)
    BY <1>1, <1>4
  <2>8. y = Route(o, book[o[1]], book[o[2]], t)
    BY <2>3 DEF y
  <2>9. \A d \in A : d[1] \in DOMAIN book /\ d[2] \in DOMAIN book
    BY <1>2 DEF Measured
  <2> HIDE DEF A, B
  <2>10. Widest(r.best[pair], A, book, t)
    BY DEF A
  <2>11. Widest(Wider(r.best[pair], Route(o, book[o[1]], book[o[2]], t)), A \cup {o}, book, t)
    BY <2>2, <2>9, <2>10, WiderIsWidest
  <2> QED BY <2>6, <2>7, <2>8, <2>11, Zenon DEF B
<1>5. CASE ~(g.side = 2 /\ e # Missing /\ r.one # Missing /\ g.pair = pair)
  <2>1. ASSUME NEW d \in OpenRoutes(book, pair), Other(d) = g PROVE FALSE
    <3>1. g.side = 2 /\ d \in Routes /\ g.pair = pair
      BY <1>2, <2>1, LookupsApart
    <3>2. d = o
      BY <1>3, <2>1, <3>1, LookupsApart
    <3>3. r.one = Found(book, d[1]) /\ e = Found(book, d[2])
      BY <1>3, <3>1, <3>2
    <3>4. r.one # Missing /\ e # Missing
      BY <1>2, <3>3, FoundInBook
    <3> QED BY <1>5, <3>1, <3>4
  <2>2. B = A
    BY <1>1, <2>1 DEF Measured
  <2>3. s.best[pair] = r.best[pair]
    BY <1>1, <1>5
  <2> QED BY <2>2, <2>3
<1> QED BY <1>4, <1>5
\* A reading begins with nothing counted and no route measured.
LEMMA StillBegins ==
  ASSUME NEW book, IsBook(book), NEW t
  PROVE  StillReading(Reading(t), book, t)
<1> DEFINE r == Reading(t)
<1>1. /\ r.stage = "snapshot" /\ r.todo = snapshot_gets
      /\ r.reporting = [pair \in Pairs |-> 0] /\ r.best = [pair \in Pairs |-> Missing]
      /\ r.listed = EmptyBook
  BY DEF Reading
<1> HIDE DEF r
<1>2. \A p \in DOMAIN book : Count(p) \in r.todo
  BY <1>1 DEF IsBook, snapshot_gets
<1>3. \A o \in Routes : One(o) \in r.todo /\ Other(o) \in r.todo
  BY <1>1 DEF snapshot_gets
<1>4. ASSUME NEW pair \in Pairs PROVE r.reporting[pair] = Cardinality(Counted(r, book, pair))
  <2>1. Counted(r, book, pair) = {} BY <1>2 DEF Counted
  <2> QED BY <1>1, <2>1, FS_EmptySet
<1>5. ASSUME NEW pair \in Pairs PROVE Widest(r.best[pair], Measured(r, book, pair), book, t)
  <2>1. \A o \in OpenRoutes(book, pair) : o \in Routes
    BY DEF OpenRoutes, Routes, IsBook
  <2>2. Measured(r, book, pair) = {} BY <1>3, <2>1 DEF Measured
  <2>3. r.best[pair] = Missing BY <1>1
  <2> QED BY <2>2, <2>3 DEF Widest
<1>6. HalfWay(r, book)
  BY <1>3 DEF HalfWay
<1>7. DOMAIN r.listed = {}
  BY <1>1 DEF EmptyBook
<1>8. StillReading(r, book, t)
  BY <1>1, <1>4, <1>5, <1>6, <1>7 DEF StillReading, StillSnapshot
<1> QED BY <1>8 DEF r

\* One more lookup of the same book.
LEMMA StillGoesOn ==
  ASSUME NEW book, IsBook(book), NEW t, NEW T, NEW r, ReadingOk(r, t, T),
         StillReading(r, book, t), r.todo # {},
         NEW s, IsAfter(s, r, first(r.todo), Found(book, pool(first(r.todo))))
  PROVE  StillReading(s, book, t)
<1> DEFINE g == first(r.todo)
           e == Found(book, pool(g))
<1>1. /\ g \in r.todo /\ \A h \in r.todo : h = g \/ Sooner(g, h)
      /\ g \in IF r.stage = "snapshot" THEN snapshot_gets ELSE pool_gets
  BY FirstOfReading
<1>2. IsAfter(s, r, g, e)
  OBVIOUS
<1>3. e # Missing <=> pool(g) \in DOMAIN book
  BY FoundInBook
<1> HIDE DEF g
<1>4. CASE r.stage = "snapshot"
  <2>1. StillSnapshot(r, book, t) /\ s.stage = "snapshot"
    BY <1>2, <1>4 DEF StillReading, IsAfter
  <2>2. StillLookup(s, r, g, book, t)
    BY <1>1, <1>2, <1>4 DEF StillLookup, ReadingOk
  <2>3. ASSUME NEW pair \in Pairs PROVE s.reporting[pair] = Cardinality(Counted(s, book, pair))
    BY <2>1, <2>2, StillCounts DEF StillSnapshot
  <2>4. ASSUME NEW pair \in Pairs PROVE Widest(s.best[pair], Measured(s, book, pair), book, t)
    BY <2>1, <2>2, StillWidest DEF StillSnapshot
  <2>5. HalfWay(s, book)
    BY <2>1, <2>2, StillHalfWay DEF StillSnapshot
  <2>6. g.side # 3
    <3>1. g \in snapshot_gets BY <1>1, <1>4
    <3>2. g.side \in {0, 1, 2} BY <3>1, LookupKinds
    <3> QED BY <3>2
  <2>7. s.listed = r.listed
    BY <1>2, <2>6 DEF IsAfter
  <2>8. DOMAIN s.listed = {}
    BY <2>1, <2>7 DEF StillSnapshot
  <2> QED BY <2>1, <2>3, <2>4, <2>5, <2>8 DEF StillReading, StillSnapshot
<1>5. CASE r.stage = "pool_rows"
  <2>1. /\ StillPools(r, book) /\ s.stage = "pool_rows" /\ s.todo = r.todo \ {g}
    BY <1>2, <1>5 DEF StillReading, IsAfter
  <2>2. g.side = 3 /\ g = Row(g.other) /\ pool(g) = g.other
    <3>1. g.side = 3 /\ g = Row(g.other) BY <1>1, <1>5, LookupKinds
    <3> QED BY <3>1 DEF pool
  <2>3. \A p \in DOMAIN book : Row(p) = g => p = g.other
    BY LookupsApart DEF IsBook
  <2>4. /\ DOMAIN s.listed = IF e # Missing THEN DOMAIN r.listed \cup {g.other} ELSE DOMAIN r.listed
        /\ \A p \in DOMAIN s.listed :
             s.listed[p] = IF e # Missing /\ p = g.other THEN e ELSE r.listed[p]
    <3> HIDE DEF e
    <3>1. s.listed = IF e # Missing
                       THEN [p \in DOMAIN r.listed \cup {g.other} |->
                               IF p = g.other THEN e ELSE r.listed[p]]
                       ELSE r.listed
      BY <1>2, <2>2 DEF IsAfter
    <3> QED BY <3>1
  <2>5. /\ DOMAIN r.listed = {p \in DOMAIN book : Row(p) \notin r.todo}
        /\ \A p \in DOMAIN r.listed : r.listed[p] = book[p]
    BY <2>1 DEF StillPools
  <2>5a. e # Missing => e = book[g.other]
    BY <1>3, <2>2 DEF Found
  <2> HIDE DEF e
  <2>6. DOMAIN s.listed = {p \in DOMAIN book : Row(p) \notin s.todo}
    <3>1. CASE e # Missing
      <4>1. g.other \in DOMAIN book BY <1>3, <2>2, <3>1
      <4> QED BY <1>1, <2>1, <2>2, <2>3, <2>4, <2>5, <3>1, <4>1
    <3>2. CASE e = Missing
      <4>1. g.other \notin DOMAIN book BY <1>3, <2>2, <3>2
      <4> QED BY <1>1, <2>1, <2>2, <2>3, <2>4, <2>5, <3>2, <4>1
    <3> QED BY <3>1, <3>2
  <2>7. \A p \in DOMAIN s.listed : s.listed[p] = book[p]
    BY <2>4, <2>5, <2>5a
  <2> QED BY <2>1, <2>6, <2>7 DEF StillReading, StillPools
<1> QED BY <1>4, <1>5 DEF ReadingOk

\* When every lookup is made the rows are the market.
LEMMA StillRows ==
  ASSUME NEW book, NEW t \in Nat, NEW T, NEW r, ReadingOk(r, t, T),
         StillSnapshot(r, book, t), r.todo = {}
  PROVE  \A i \in DOMAIN sorted_rows(r) : RowStill(sorted_rows(r)[i], book, t)
<1>1. ASSUME NEW pair \in Pairs PROVE RowStill(row(r, pair), book, t)
  <2> DEFINE x == row(r, pair)
  <2>1. /\ x.pair = pair /\ x.best = r.best[pair] /\ x.pools_priced = r.reporting[pair]
        /\ x.priced <=> x.best # Missing
        /\ x.priced => x.gap_bps = x.best.gap_bps /\ x.needs_bps = x.best.needs_bps
    BY DEF row
  <2> HIDE DEF x
  <2>2. Counted(r, book, pair) = {p \in DOMAIN book : PoolBook[p] = pair}
    BY DEF Counted
  <2>3. Measured(r, book, pair) = OpenRoutes(book, pair)
    BY DEF Measured
  <2>4. x.pools_priced = Cardinality({p \in DOMAIN book : PoolBook[p] = x.pair})
    BY <2>1, <2>2 DEF StillSnapshot
  <2>5. Widest(x.best, OpenRoutes(book, x.pair), book, t)
    BY <2>1, <2>3 DEF StillSnapshot
  <2>6. RowStill(x, book, t)
    BY <2>1, <2>4, <2>5 DEF RowStill
  <2> QED BY <2>6 DEF x
<1> DEFINE q == sorted_rows(r)
           n == Cardinality(Pairs)
<1>2. q \in [1 .. n -> {row(r, pair) : pair \in Pairs}]
  BY SortedRows
<1> HIDE DEF q, n
<1>3. ASSUME NEW i \in DOMAIN q PROVE RowStill(q[i], book, t)
  <2>1. q[i] \in {row(r, pair) : pair \in Pairs} BY <1>2
  <2> QED BY <1>1, <2>1
<1> QED BY <1>3 DEF q
\* While the book b stands still.
Stands(b, t) ==
  /\ prices = b
  /\ reading # NotReading => StillReading(reading, b, t)
  /\ \A i \in DOMAIN rows : RowStill(rows[i], b, t)
  /\ rows # <<>> /\ reading = NotReading =>
       DOMAIN pool_rows = DOMAIN b /\ \A p \in DOMAIN b : pool_rows[p].price = b[p].price

StillInv ==
  /\ version \in Nat /\ begun.version \in Nat /\ begun.version <= version
  /\ version = begun.version => Stands(begun.book, begun.now)

LEMMA StillInit == Init => StillInv
<1> SUFFICES ASSUME Init PROVE StillInv
  OBVIOUS
<1>1. /\ reading = NotReading /\ rows = <<>> /\ version = 0
      /\ begun = [n |-> 0, book |-> prices, version |-> 0, now |-> StartTime]
  BY DEF Init, MarketInit
<1>2. begun.version = 0 /\ begun.book = prices
  BY <1>1
<1>3. Stands(begun.book, begun.now)
  BY <1>1, <1>2 DEF Stands
<1> QED BY <1>1, <1>2, <1>3 DEF StillInv

\* Every step keeps what was read in line with the book, or changes the book.
LEMMA StillStep == ScreenInv /\ ScreenInv' /\ StillInv /\ [Next]_vars => StillInv'
<1> SUFFICES ASSUME ScreenInv, ScreenInv', StillInv, [Next]_vars PROVE StillInv'
  OBVIOUS
<1>1. IsBook(prices) /\ IsBook(prices') /\ begun.now \in Nat /\ now \in Nat
  <2>1. BookInv /\ BookInv' BY DEF ScreenInv
  <2>2. IsBook(prices) BY <2>1 DEF BookInv, IsBook, Entry
  <2>3. IsBook(prices') BY <2>1 DEF BookInv, IsBook, Entry
  <2> QED BY <2>1, <2>2, <2>3 DEF BookInv, ScreenInv, ReadingInv
<1>2. /\ version \in Nat /\ begun.version \in Nat /\ begun.version <= version
      /\ version = begun.version => Stands(begun.book, begun.now)
  BY DEF StillInv
\* Steps that leave the book, and what was read of it, alone.
<1>3. ASSUME UNCHANGED <<prices, reading, rows, pool_rows, version, begun>> PROVE StillInv'
  BY <1>3 DEF StillInv, Stands
\* Steps that begin a reading.
<1>4. ASSUME BeginReading, Begins, version' = version PROVE StillInv'
  <2>1. reading' = Reading(now) /\ rows' = <<>>
    BY <1>4 DEF BeginReading
  <2>2. begun'.book = prices' /\ begun'.version = version /\ begun'.now = now
    BY <1>4 DEF Begins
  <2>3. StillReading(reading', prices', now)
    BY <1>1, <2>1, StillBegins
  <2>4. reading' # NotReading
    BY <2>1 DEF Reading, NotReading
  <2>5. Stands(begun.book, begun.now)'
    BY <2>1, <2>2, <2>3, <2>4 DEF Stands
  <2> QED BY <1>2, <1>4, <2>2, <2>5 DEF StillInv
<1>5. CASE Feed
  <2>1. version' = version + 1 /\ begun' = begun
    BY <1>5 DEF Feed
  <2> QED BY <1>2, <2>1 DEF StillInv
<1>6. CASE Ticker
  BY <1>4, <1>6 DEF Ticker
<1>7. CASE Read
  <2>1. begun' = begun /\ version' = version /\ prices' = prices
    BY <1>7 DEF Read
  <2> SUFFICES ASSUME version = begun.version PROVE Stands(begun.book, begun.now)'
    BY <1>2, <2>1 DEF StillInv
  <2> DEFINE b == begun.book
             t == begun.now
  <2>2. /\ prices = b /\ IsBook(b) /\ t \in Nat
        /\ reading # NotReading => StillReading(reading, b, t)
        /\ \A i \in DOMAIN rows : RowStill(rows[i], b, t)
    BY <1>1, <1>2 DEF Stands
  <2>3. reading # NotReading => ReadingOk(reading, t, Dates)
    BY DEF ScreenInv, ReadingInv
  <2>4. b' = b /\ t' = t
    BY <2>1
  <2> HIDE DEF b, t
  <2>5. ASSUME StillReading(reading', b, t), reading' # NotReading,
               \A i \in DOMAIN rows' : RowStill(rows'[i], b, t)
        PROVE  Stands(begun.book, begun.now)'
    BY <2>1, <2>2, <2>5 DEF Stands, b, t
  <2>6. CASE Get
    <3>1. /\ reading # NotReading /\ reading.todo # {} /\ rows' = rows
          /\ reading' = After(reading, first(reading.todo), lookup(pool(first(reading.todo))))
      BY <2>6 DEF Get
    <3>2. \A p : lookup(p) = Found(b, p)
      BY <2>2 DEF lookup, Found
    <3>3. Shape(reading)
      BY <2>3, <3>1 DEF ReadingOk
    <3>4. IsAfter(reading', reading, first(reading.todo), Found(b, pool(first(reading.todo))))
      BY <3>1, <3>2, <3>3, AfterFields
    <3>5. StillReading(reading', b, t)
      BY <2>2, <2>3, <3>1, <3>4, StillGoesOn
    <3>6. reading' # NotReading
      BY <3>4 DEF IsAfter, Shape, NotReading
    <3> QED BY <2>2, <2>5, <3>1, <3>5, <3>6
  <2>7. CASE SnapshotReturns
    <3>1. /\ reading.stage = "snapshot" /\ reading.todo = {} /\ rows' = sorted_rows(reading)
          /\ reading' = [reading EXCEPT !.stage = "pool_rows", !.now = now, !.todo = pool_gets]
      BY <2>7 DEF SnapshotReturns
    <3>2. reading # NotReading
      BY <3>1 DEF NotReading
    <3>3. ReadingOk(reading, t, Dates) /\ StillSnapshot(reading, b, t)
      BY <2>2, <2>3, <3>1, <3>2 DEF StillReading
    <3>4. \A i \in DOMAIN rows' : RowStill(rows'[i], b, t)
      BY <2>2, <3>1, <3>3, StillRows
    <3>5. Shape(reading) BY <3>3 DEF ReadingOk
    <3>6. /\ reading'.stage = "pool_rows" /\ reading'.todo = pool_gets
          /\ reading'.listed = reading.listed
      BY <3>1, <3>5 DEF Shape
    <3>7. DOMAIN reading'.listed = {p \in DOMAIN b : Row(p) \notin reading'.todo}
      <4>1. \A p \in DOMAIN b : Row(p) \in pool_gets BY <2>2 DEF IsBook, pool_gets
      <4>2. DOMAIN reading.listed = {} BY <3>3 DEF StillSnapshot
      <4> QED BY <3>6, <4>1, <4>2
    <3>7a. DOMAIN reading'.listed = {}
      BY <3>3, <3>6 DEF StillSnapshot
    <3>8. StillReading(reading', b, t)
      BY <3>6, <3>7, <3>7a DEF StillReading, StillPools
    <3>9. reading' # NotReading
      BY <3>6 DEF NotReading
    <3> QED BY <2>5, <3>4, <3>8, <3>9
  <2>8. CASE PoolRowsReturns
    <3>1. /\ reading.stage = "pool_rows" /\ reading.todo = {} /\ rows' = rows
          /\ reading' = NotReading /\ pool_rows' = listing(reading.listed, reading.now)
      BY <2>8 DEF PoolRowsReturns
    <3>2. reading # NotReading
      BY <3>1 DEF NotReading
    <3>3. DOMAIN reading.listed = DOMAIN b /\ \A p \in DOMAIN b : reading.listed[p] = b[p]
      BY <2>2, <3>1, <3>2 DEF StillReading, StillPools
    <3>4. DOMAIN pool_rows' = DOMAIN b /\ \A p \in DOMAIN b : pool_rows'[p].price = b[p].price
      BY <3>1, <3>3 DEF listing
    <3> QED BY <2>1, <2>2, <3>1, <3>4 DEF Stands, b, t
  <2> QED BY <1>7, <2>6, <2>7, <2>8 DEF Read
<1>8. CASE Rehearse
  <2>1. ASSUME NEW price, StepBegins(price), Begins PROVE StillInv'
    <3>1. BeginReading /\ version' = version
      BY <1>8, <2>1 DEF Rehearse, StepBegins
    <3> QED BY <1>4, <2>1, <3>1
  <2>2. ASSUME NEW lost, RowRolled(lost), UNCHANGED begun PROVE StillInv'
    BY <1>3, <1>8, <2>2 DEF Rehearse, RowRolled
  <2>3. ASSUME RowSkipped, UNCHANGED begun PROVE StillInv'
    BY <1>3, <1>8, <2>3 DEF Rehearse, RowSkipped
  <2> QED BY <1>8, <2>1, <2>2, <2>3 DEF Rehearse
<1>9. CASE Tick
  BY <1>3, <1>9 DEF Tick
<1>10. CASE UNCHANGED vars
  BY <1>3, <1>10 DEF vars
<1> QED BY <1>5, <1>6, <1>7, <1>8, <1>9, <1>10 DEF Next

\* What is shown of the widest route is its gap, its cost and the age of the
\* older of its two prices.
LEMMA RouteShown ==
  ASSUME NEW book, IsBook(book), NEW t \in Nat, NEW x, NEW D,
         \A o \in D : o[1] \in DOMAIN book /\ o[2] \in DOMAIN book,
         Widest(x, D, book, t), x # Missing
  PROVE  /\ x.gap_bps = gap_bps(book[x.route[1]], book[x.route[2]])
         /\ x.needs_bps = fee_bps(book[x.route[1]]) + fee_bps(book[x.route[2]]) + margin_bps
         /\ x.age_ms = as_millis(saturating_sub(t, older(book[x.route[1]], book[x.route[2]])))
<1> DEFINE a == book[x.route[1]]
           b == book[x.route[2]]
<1>1. x.route \in D /\ x = Route(x.route, a, b, t)
  BY DEF Widest
<1> HIDE DEF a, b
<1>2. /\ x.gap_bps = gap_bps(a, b) /\ x.needs_bps = fee_bps(a) + fee_bps(b) + margin_bps
      /\ x.age_ms = as_millis(saturating_sub(t, older(a, b)))
  BY <1>1 DEF Route
<1> QED BY <1>2 DEF a, b

\* market::snapshot, market::pool_rows: between two changes of the book the
\* rows are the market of their pairs, however many lookups were made to work
\* them out and whichever pools answered.
THEOREM SessionRowIsTheMarket == Spec => []RowIsTheMarket
<1>1. ScreenInv /\ StillInv => RowIsTheMarket
  <2> SUFFICES ASSUME ScreenInv, StillInv, rows # <<>>, reading = NotReading,
                      version = begun.version, NEW i \in DOMAIN rows
               PROVE
      LET r      == rows[i]
          book   == begun.book
          open   == OpenRoutes(book, r.pair)
          gap(o) == gap_bps(book[o[1]], book[o[2]])
      IN /\ r.priced <=> open # {}
         /\ r.pools_priced = Cardinality({p \in DOMAIN book : PoolBook[p] = r.pair})
         /\ DOMAIN pool_rows = DOMAIN book
         /\ \A p \in DOMAIN book : pool_rows[p].price = book[p].price
         /\ r.priced =>
              LET one   == book[r.best.route[1]]
                  other == book[r.best.route[2]]
              IN /\ r.best.route \in open
                 /\ r.gap_bps = gap(r.best.route)
                 /\ \A o \in open : gap(o) <= r.gap_bps
                 /\ r.needs_bps = fee_bps(one) + fee_bps(other) + margin_bps
                 /\ r.best.age_ms = as_millis(saturating_sub(begun.now, older(one, other)))
    BY DEF RowIsTheMarket
  <2> DEFINE x == rows[i]
             b == begun.book
             t == begun.now
             D == OpenRoutes(b, x.pair)
  <2>1. /\ prices = b /\ RowStill(x, b, t) /\ DOMAIN pool_rows = DOMAIN b
        /\ \A p \in DOMAIN b : pool_rows[p].price = b[p].price
    BY DEF StillInv, Stands
  <2>2. IsBook(b) /\ t \in Nat
    BY <2>1 DEF ScreenInv, BookInv, ReadingInv, IsBook, Entry
  <2>3. \A o \in D : o[1] \in DOMAIN b /\ o[2] \in DOMAIN b
    BY DEF OpenRoutes
  <2> HIDE DEF x, b, t
  <2>4. /\ x.priced <=> x.best # Missing
        /\ x.priced => x.gap_bps = x.best.gap_bps /\ x.needs_bps = x.best.needs_bps
        /\ x.pools_priced = Cardinality({p \in DOMAIN b : PoolBook[p] = x.pair})
        /\ Widest(x.best, D, b, t)
    BY <2>1 DEF RowStill
  <2> HIDE DEF D
  <2>5. x.priced <=> D # {}
    BY <2>4 DEF Widest
  <2>6. ASSUME x.priced
        PROVE  /\ x.best.route \in D
               /\ x.gap_bps = gap_bps(b[x.best.route[1]], b[x.best.route[2]])
               /\ \A o \in D : gap_bps(b[o[1]], b[o[2]]) <= x.gap_bps
               /\ x.needs_bps = fee_bps(b[x.best.route[1]]) + fee_bps(b[x.best.route[2]])
                                  + margin_bps
               /\ x.best.age_ms = as_millis(saturating_sub(t, older(b[x.best.route[1]],
                                                                  b[x.best.route[2]])))
    <3>1. x.best # Missing /\ x.gap_bps = x.best.gap_bps /\ x.needs_bps = x.best.needs_bps
      BY <2>4, <2>6
    <3>2. /\ x.best.route \in D
          /\ \A o \in D : gap_bps(b[o[1]], b[o[2]]) <= x.gap_bps
      BY <2>4, <3>1 DEF Widest
    <3>3. /\ x.best.gap_bps = gap_bps(b[x.best.route[1]], b[x.best.route[2]])
          /\ x.best.needs_bps = fee_bps(b[x.best.route[1]]) + fee_bps(b[x.best.route[2]])
                                  + margin_bps
          /\ x.best.age_ms = as_millis(saturating_sub(t, older(b[x.best.route[1]],
                                                             b[x.best.route[2]])))
      BY <2>2, <2>3, <2>4, <3>1, RouteShown
    <3> QED BY <3>1, <3>2, <3>3, Zenon
  <2> QED BY <2>1, <2>4, <2>5, <2>6, Zenon DEF x, b, t, D
<1> QED BY ScreenInit, ScreenStep, StillInit, StillStep, <1>1, PTL DEF Spec
=============================================================================
