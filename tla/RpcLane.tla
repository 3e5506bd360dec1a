------------------------------ MODULE RpcLane ------------------------------
(***************************************************************************)
(* One RPC lane (src/rpc_lane.rs, run and connect_and_stream): connect,    *)
(* subscribe to the logs that mention each watched account, or to all of   *)
(* them, and send every notification to the main loop with the account its *)
(* subscription stands for.  The loop outlives its lanes, so the channel's *)
(* receiver is never gone.  The steps are named as in PriceFeed, with Lane *)
(* in front, since the proofs speak of both clients.                       *)
(***************************************************************************)
EXTENDS RpcClient

CONSTANT
  Mentions           \* accounts watched: Watching, or 0 for the firehose

ASSUME RpcLaneAssumption == Mentions \in {0, Watching} /\ Watching > 0

VARIABLE
  sent               \* the last message sent to the loop: [about, account_keys]

lane_vars == <<client, sent>>

NoMessage == [about |-> 0, account_keys |-> {}]

LaneInit ==
  /\ ClientInit
  /\ sent = NoMessage

\* Mutant: the map of subscriptions outlives its connection.
NewWatched_Kept == by_subscription

\* Watched::default()
NewWatched == [i \in {} |-> 0]

LaneConnect ==
  /\ phase = "connecting"
  /\ Opened
  /\ phase' = "streaming"
  /\ by_subscription' = NewWatched
  /\ UNCHANGED <<backoff, sent>>

\* connect_and_stream returned.
LaneEnded(outcome) ==
  /\ backoff' = IF outcome = "Ok" THEN 1 ELSE backoff
  /\ phase' = "sleeping"
  /\ Dropped
  /\ UNCHANGED <<by_subscription, sent>>

LaneConnectFails ==
  /\ phase = "connecting"
  /\ LaneEnded("Err")

LaneWake == Woken /\ UNCHANGED sent

\* absorb_ack: the firehose's subscription stands for no account.
LaneOnAck ==
  /\ FrameTaken("ack")
  /\ LET m == Head(wire)
     IN by_subscription' = IF m.id > Mentions THEN by_subscription
                           ELSE [i \in DOMAIN by_subscription \cup {m.sub} |->
                                   IF i = m.sub THEN m.id ELSE by_subscription[i]]
  /\ UNCHANGED <<phase, backoff, sent>>

accounts_for(sub) ==
  IF sub \in DOMAIN by_subscription THEN {by_subscription[sub]} ELSE {}

\* A logs notification is sent on, with its account if that is known; a frame
\* that does not parse is passed over.
LaneOnNotification ==
  /\ FrameTaken("note")
  /\ LET m == Head(wire)
     IN sent' = IF m.good THEN [about |-> m.about, account_keys |-> accounts_for(m.sub)]
                          ELSE sent
  /\ UNCHANGED <<phase, backoff, by_subscription>>

\* A ping is answered and anything else is ignored.
LaneOnOther ==
  /\ FrameTaken("ping") \/ FrameTaken("other")
  /\ UNCHANGED <<phase, backoff, by_subscription, sent>>

\* Mutant: a close is taken for one more frame to ignore.
LaneOnClose_Ignored ==
  /\ FrameTaken("close")
  /\ UNCHANGED <<phase, backoff, by_subscription, sent>>

LaneOnClose ==
  /\ phase = "streaming"
  /\ wire # <<>> /\ Head(wire).kind = "close"
  /\ LaneEnded("Ok")

\* The socket reports an error (Err), or its end (Ok).
LaneOnError ==
  /\ phase = "streaming" /\ link = "up"
  /\ LaneEnded("Err") \/ LaneEnded("Ok")

LaneFromRemote ==
  /\ Remote
  /\ UNCHANGED <<phase, backoff, by_subscription, sent>>

LaneHandle == LaneOnAck \/ LaneOnNotification \/ LaneOnOther \/ LaneOnClose

LaneNext ==
  \/ LaneConnect
  \/ LaneConnectFails
  \/ LaneWake
  \/ LaneHandle
  \/ LaneOnError
  \/ LaneFromRemote

\* The runtime polls a task whose frame or sleep is ready.
LaneFairness == WF_lane_vars(LaneHandle) /\ WF_lane_vars(LaneWake)

LaneSpec == LaneInit /\ [][LaneNext]_lane_vars /\ LaneFairness

-----------------------------------------------------------------------------
(* Properties *)

\* Every variable holds a value of its type.
LaneTypeOK ==
  /\ ClientTypeOK
  /\ sent \in [about : Requests, account_keys : SUBSET Requests] \cup {NoMessage}

\* No trigger is credited to the wrong pool, however often the connection is
\* made anew: a message names the account it is about or none at all.
TriggersAreAttributed == sent.account_keys \subseteq {sent.about}

\* A lane whose connection the far side closes goes back to connecting.
ClosedLaneReconnects ==
  (\E i \in DOMAIN wire : wire[i].kind = "close") ~> phase = "connecting"

\* What run promises: "Run until cancelled, reconnecting on failure", also
\* when the failure is a socket that dies without a FIN.
DeadLaneReconnects == link = "dead" ~> phase = "connecting"
=============================================================================
