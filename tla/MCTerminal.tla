----------------------------- MODULE MCTerminal -----------------------------
(* Instances of Terminal for TLC. *)
EXTENDS Terminal

OneSig      == {"s1"}
BothLanes   == {"doublezero", "public"}
ThreePools  == <<1, 1, 1>>
ThreeFees   == <<100, 16000, 3000>>
JudgeQuotes == [p \in 1 .. 3 |-> {1000, 1020, 1030, 1100}]
TouchesTwo  == [s \in OneSig |-> <<1, 2>>]
BothOrFirst == [s \in OneSig |-> {<<1, 2>>, <<1>>}]

TwoPools    == <<1, 1>>
TwoFees     == <<100, 16000>>
TwoQuotes   == [p \in 1 .. 2 |-> {1000, 1030}]
TouchesOne  == [s \in OneSig |-> <<1>>]
OnlyThat    == [s \in OneSig |-> {<<1>>}]
=============================================================================
