----------------------------- MODULE MCSession -----------------------------
(* Instances of Session for TLC. *)
EXTENDS Session

\* A pair of three pools and a pair of two.
FivePools  == <<1, 1, 1, 2, 2>>
FiveFees   == <<200, 401, 100, 1600, 3000>>
FiveQuotes == <<{1000}, {1001, 1051}, {1010}, {1000}, {1000, 1030}>>

\* Every pool is priced, or all but one; the pools of a pair at one instant.
MarketBooks ==
  LET Known == {Pools} \cup {Pools \ {p} : p \in Pools}
  IN UNION {{[p \in known |-> [price |-> price[p], fee_rate |-> fee_rate[p],
                               at |-> at[PoolBook[p]]]] :
               price \in {f \in [Pools -> {1000, 1001, 1010, 1030, 1051}] :
                            \A p \in Pools : f[p] \in Quotes[p]},
               at \in [{1, 2} -> {0, 2}]} : known \in Known}

TwoPools   == <<1, 1>>
WholeFees  == <<1600, 20000>>
WideQuotes == [p \in 1 .. 2 |-> {1000, 1021, 1050}]
NoBook     == {EmptyBook}
=============================================================================
