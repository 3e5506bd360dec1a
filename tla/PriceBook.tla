----------------------------- MODULE PriceBook -----------------------------
(***************************************************************************)
(* The price book (src/bot/prices.rs) over the watched pools               *)
(* (src/bot/pools.rs): the last price of each pool, set by the task that   *)
(* follows the pools' accounts and read by the main loop.  Every set,      *)
(* clear and get takes the lock on its own.                                *)
(*                                                                         *)
(* BookSpec is what a reader may rely on: prices come one pool at a time,  *)
(* each from that pool's account, and go all at once.  LaneBot and Market  *)
(* read a book that behaves like this; PriceFeed is shown to provide it.   *)
(***************************************************************************)
EXTENDS Integers, Sequences

CONSTANTS
  PoolBook,        \* the pair of each watched pool, as the rank of its name
  fee_rate,        \* the fee of each pool
  Quotes           \* the prices each pool's account may hold

ASSUME PriceBookAssumption ==
  /\ PoolBook \in Seq(Nat)
  /\ fee_rate \in [DOMAIN PoolBook -> Nat]
  /\ Quotes \in [DOMAIN PoolBook -> SUBSET (Nat \ {0})]

VARIABLES
  now,             \* Instant::now()
  prices           \* pool -> [price, fee_rate, at], for those priced

Pools == DOMAIN PoolBook

siblings(pool) == {p \in Pools : PoolBook[p] = PoolBook[pool] /\ p # pool}

EmptyBook == [p \in {} |-> 0]

\* PriceBook::set
Quote(pool, price) ==
  prices' = [p \in DOMAIN prices \cup {pool} |->
               IF p = pool THEN [price |-> price, fee_rate |-> fee_rate[pool], at |-> now]
                           ELSE prices[p]]

\* PriceBook::clear
Clear == prices' = EmptyBook

BookNext == Clear \/ \E p \in Pools : \E price \in Quotes[p] : Quote(p, price)

BookSpec == prices = EmptyBook /\ [][BookNext]_prices
=============================================================================
