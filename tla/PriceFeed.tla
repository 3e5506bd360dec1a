----------------------------- MODULE PriceFeed -----------------------------
(***************************************************************************)
(* The task that keeps the price book fresh (src/bot/prices.rs,            *)
(* subscribe_pools and stream_once): connect, subscribe to every pool's    *)
(* account, file each notification under the pool its subscription stands  *)
(* for, and start over when the stream ends.                               *)
(*                                                                         *)
(* A pool is its place in the pool book, which is also the number of its   *)
(* request.  A price is represented by where it came from: the pool whose  *)
(* account it was decoded from and the connection it arrived on.           *)
(***************************************************************************)
EXTENDS RpcClient

CONSTANT
  SILENCE_LIMIT    \* 45 s in the code

ASSUME PriceFeedAssumption == SILENCE_LIMIT \in Nat \ {0}

VARIABLES
  silence,           \* time since the last frame
  prices             \* the price book: pool -> [of, conn]

vars == <<client, silence, prices>>

Init ==
  /\ ClientInit
  /\ silence = 0
  /\ prices = [p \in {} |-> 0]

\* Mutant: the map of subscriptions outlives its connection.
NewMap_Kept == by_subscription

\* The map of subscriptions a connection starts with.
NewMap == [i \in {} |-> 0]

\* stream_once connects and subscribes.
Connect ==
  /\ phase = "connecting"
  /\ Opened
  /\ phase' = "streaming"
  /\ by_subscription' = NewMap
  /\ silence' = 0
  /\ UNCHANGED <<backoff, prices>>

\* Mutant: prices outlive the connection they came from.
Cleared_Never == prices

\* Mutant: the first pool is left out when the book is cleared.
Cleared_ButFirst == [p \in DOMAIN prices \cap {1} |-> prices[p]]

\* book.clear()
Cleared == [p \in {} |-> 0]

\* stream_once returned: the book is cleared whatever ended it, and the sleep
\* starts over at a second after a close from the far side only.
Ended(outcome) ==
  /\ prices' = Cleared
  /\ backoff' = IF outcome = "Ok" THEN 1 ELSE backoff
  /\ phase' = "sleeping"
  /\ Dropped
  /\ UNCHANGED <<by_subscription, silence>>

\* connect_async, or the sending of a request, fails.
ConnectFails ==
  /\ phase = "connecting"
  /\ Ended("Err")

Wake == Woken /\ UNCHANGED <<silence, prices>>

\* A frame ends the silence.
NextFrame(kind) == FrameTaken(kind) /\ silence' = 0

\* parse_ack: from now on the subscription id stands for the pool.
OnAck ==
  /\ NextFrame("ack")
  /\ LET m == Head(wire)
     IN by_subscription' = [i \in DOMAIN by_subscription \cup {m.sub} |->
                              IF i = m.sub THEN m.id ELSE by_subscription[i]]
  /\ UNCHANGED <<phase, backoff, prices>>

\* absorb: a price that decodes is filed under the pool of its subscription;
\* one nobody subscribed to, or that does not decode, is passed over.
OnNotification ==
  /\ NextFrame("note")
  /\ LET m == Head(wire)
     IN prices' = IF m.sub \notin DOMAIN by_subscription \/ ~m.good THEN prices
                  ELSE [p \in DOMAIN prices \cup {by_subscription[m.sub]} |->
                          IF p = by_subscription[m.sub]
                            THEN [of |-> m.about, conn |-> conn] ELSE prices[p]]
  /\ UNCHANGED <<phase, backoff, by_subscription>>

\* A ping is answered and anything else is ignored.
OnOther ==
  /\ NextFrame("ping") \/ NextFrame("other")
  /\ UNCHANGED <<phase, backoff, by_subscription, prices>>

OnClose ==
  /\ phase = "streaming"
  /\ wire # <<>> /\ Head(wire).kind = "close"
  /\ Ended("Ok")

\* The socket reports an error, or its end, on a read or on a pong.
OnError ==
  /\ phase = "streaming" /\ link = "up"
  /\ Ended("Err")

\* Mutant: a read that timed out is tried again.
OnSilence_Retries ==
  /\ phase = "streaming" /\ wire = <<>>
  /\ silence >= SILENCE_LIMIT
  /\ silence' = 0
  /\ UNCHANGED <<socket, phase, backoff, by_subscription, prices>>

\* The read timed out.
OnSilence ==
  /\ phase = "streaming" /\ wire = <<>>
  /\ silence >= SILENCE_LIMIT
  /\ Ended("Err")

\* A unit of time passes with nothing to read.
Quiet ==
  /\ phase = "streaming" /\ wire = <<>>
  /\ silence < SILENCE_LIMIT
  /\ silence' = silence + 1
  /\ UNCHANGED <<socket, phase, backoff, by_subscription, prices>>

FromRemote ==
  /\ Remote
  /\ UNCHANGED <<phase, backoff, by_subscription, silence, prices>>

Handle == OnAck \/ OnNotification \/ OnOther \/ OnClose \/ OnSilence

Next ==
  \/ Connect
  \/ ConnectFails
  \/ Wake
  \/ Handle
  \/ OnError
  \/ Quiet
  \/ FromRemote

\* The runtime polls a task whose frame, timer or sleep is ready, and time
\* passes.  Nothing is assumed of the server: it may never say anything.
Fairness == WF_vars(Handle) /\ WF_vars(Quiet) /\ WF_vars(Wake)

Spec == Init /\ [][Next]_vars /\ Fairness

\* The book a reader sees: the price of an account is known by its pool.
Book == INSTANCE PriceBook WITH
          PoolBook <- [p \in Requests |-> p], fee_rate <- [p \in Requests |-> 0],
          Quotes <- [p \in Requests |-> {p}], now <- 0,
          prices <- [p \in DOMAIN prices |->
                       [price |-> prices[p].of, fee_rate |-> 0, at |-> 0]]

-----------------------------------------------------------------------------
(* Properties *)

\* Every variable holds a value of its type.
TypeOK ==
  /\ ClientTypeOK
  /\ silence \in 0 .. SILENCE_LIMIT
  /\ DOMAIN prices \subseteq Requests
  /\ \A p \in DOMAIN prices : prices[p] \in [of : Requests, conn : 1 .. MaxConns]

\* No price is filed under the wrong pool, however often the connection is
\* made anew and whatever ids the server gives out on the next one:
\* "attributing a price to the wrong pool would invent a gap out of two
\* unrelated markets".
PricesAreAttributed == \A p \in DOMAIN prices : prices[p].of = p

\* No price in the book is older than the connection it is read under, and
\* between connections there is none: "a price from before an outage is not a
\* price".
NoPriceSurvivesAnOutage ==
  /\ phase # "streaming" => DOMAIN prices = {}
  /\ \A p \in DOMAIN prices : prices[p].conn = conn

\* The feed provides the book LaneBot and Market read: every change of it is
\* one pool's price, read from that pool's account, or the loss of all prices
\* together, across reconnections, late acknowledgements and frames nobody
\* asked for.  No reader ever meets a book that lost the prices of some pools
\* and kept others of the same connection.
FeedProvidesBook == Book!BookSpec

\* A socket that dies without a FIN does not leave the book frozen: its prices
\* are dropped and the task starts over.
DeadSocketIsNoticed == link = "dead" ~> phase = "sleeping" /\ DOMAIN prices = {}
=============================================================================
