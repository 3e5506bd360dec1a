-------------------------------- MODULE Arb --------------------------------
(***************************************************************************)
(* The decision (src/bot/arb.rs): given the prices of two pools, is there  *)
(* a round trip worth making, and if not, why not.  The functions are pure *)
(* and so are the operators.                                               *)
(*                                                                         *)
(* A priced pool is [price, fee_rate, at].  Prices are positive integers   *)
(* in some unit, since decode lets only positive finite prices into the    *)
(* book; the ratio of two of them is exact where the code rounds an f64.   *)
(***************************************************************************)
EXTENDS Integers

CONSTANTS
  IMPLAUSIBLE_BPS,        \* 500 in the code
  margin_bps,             \* Costs.margin_bps
  network_fee_lamports,   \* Costs.network_fee_lamports
  max_price_age           \* Costs.max_price_age

ASSUME ArbAssumption ==
  /\ IMPLAUSIBLE_BPS \in Nat \ {0}
  /\ margin_bps \in Nat /\ network_fee_lamports \in Nat /\ max_price_age \in Nat

\* PoolState::fee_bps: hundredths of a basis point, rounded up.
fee_bps(p) == (p.fee_rate + 99) \div 100

saturating_sub(a, b) == IF a >= b THEN a - b ELSE 0

\* floor((dear / cheap - 1) * 10000)
ratio_bps(dear, cheap) == ((dear - cheap) * 10000) \div cheap

gap_bps(one, other) ==
  IF one.price > other.price THEN ratio_bps(one.price, other.price)
                             ELSE ratio_bps(other.price, one.price)

fresh_enough(one, other, now) ==
  /\ saturating_sub(now, one.at) <= max_price_age
  /\ saturating_sub(now, other.at) <= max_price_age

Declines == {"NotATrade", "Stale", "WrongWayRound", "Implausible", "UnderFees",
             "UnderMargin", "TooSmallForTheFee"}

WrongWay(sell, buy) ==
  \/ sell.price <= buy.price
  \/ ratio_bps(sell.price, buy.price) = 0

\* Mutant: only the first leg pays its pool.
net_bps_OneFee(sell, buy) == ratio_bps(sell.price, buy.price) - fee_bps(sell)

\* What the gap leaves once both pools are paid; only when it covers them.
net_bps(sell, buy) == ratio_bps(sell.price, buy.price) - (fee_bps(sell) + fee_bps(buy))

net_lamports(in_lamports, sell, buy) ==
  saturating_sub((in_lamports * net_bps(sell, buy)) \div 10000, network_fee_lamports)

\* Mutant: the gap is what counts, whichever way round it is.
decline_EitherWay(in_lamports, sell, buy, same, now) ==
  IF in_lamports = 0 \/ same THEN "NotATrade"
  ELSE IF ~fresh_enough(sell, buy, now) THEN "Stale"
  ELSE IF gap_bps(sell, buy) = 0 THEN "WrongWayRound"
  ELSE IF gap_bps(sell, buy) > IMPLAUSIBLE_BPS THEN "Implausible"
  ELSE IF gap_bps(sell, buy) < fee_bps(sell) + fee_bps(buy) THEN "UnderFees"
  ELSE "none"

\* Mutant: a trade that does not carry the network fee is put down to the fees.
decline_FeesForSize(in_lamports, sell, buy, same, now) ==
  IF in_lamports = 0 \/ same THEN "NotATrade"
  ELSE IF ~fresh_enough(sell, buy, now) THEN "Stale"
  ELSE IF WrongWay(sell, buy) THEN "WrongWayRound"
  ELSE IF ratio_bps(sell.price, buy.price) > IMPLAUSIBLE_BPS THEN "Implausible"
  ELSE IF net_bps(sell, buy) < 0 THEN "UnderFees"
  ELSE IF net_bps(sell, buy) < margin_bps THEN "UnderMargin"
  ELSE IF net_lamports(in_lamports, sell, buy) = 0 THEN "UnderFees"
  ELSE "none"

\* The first test of evaluate that fails, or "none".  `same` says that both
\* sides carry the same label.
decline(in_lamports, sell, buy, same, now) ==
  IF in_lamports = 0 \/ same THEN "NotATrade"
  ELSE IF ~fresh_enough(sell, buy, now) THEN "Stale"
  ELSE IF WrongWay(sell, buy) THEN "WrongWayRound"
  ELSE IF ratio_bps(sell.price, buy.price) > IMPLAUSIBLE_BPS THEN "Implausible"
  ELSE IF net_bps(sell, buy) < 0 THEN "UnderFees"
  ELSE IF net_bps(sell, buy) < margin_bps THEN "UnderMargin"
  ELSE IF net_lamports(in_lamports, sell, buy) = 0 THEN "TooSmallForTheFee"
  ELSE "none"

\* The opportunity, or why there is none.
evaluate(in_lamports, sell, buy, same, now) ==
  LET why == decline(in_lamports, sell, buy, same, now)
  IN IF why # "none" THEN [ok |-> FALSE, why |-> why]
     ELSE [ok           |-> TRUE,
           gross_bps    |-> ratio_bps(sell.price, buy.price),
           net_lamports |-> net_lamports(in_lamports, sell, buy),
           staleness    |-> saturating_sub(now, IF sell.at <= buy.at THEN sell.at
                                                                    ELSE buy.at)]
=============================================================================
