---------------------------- MODULE SocketProofs ----------------------------
(***************************************************************************)
(* The two clients of an RPC WebSocket, for any number of accounts, any    *)
(* ids the server may draw from and any bounds.  First what both rely on   *)
(* of the socket: the frames in flight agree with the subscriptions the    *)
(* server has on file, and those only grow while a connection lasts.  Then *)
(* the price feed: it files every price under the right pool, keeps none   *)
(* past the connection it came from, and provides the book its readers     *)
(* assume.  Then the RPC lane, which never credits a trigger to the wrong  *)
(* account.                                                                *)
(***************************************************************************)
EXTENDS PriceFeed, RpcLane, SequenceTheorems, TLAPS

\* An acknowledgement or a notification says of a subscription what the server
\* has on file for it.
FrameAgrees(m) ==
  /\ m.kind = "ack" => m.sub \in DOMAIN subs /\ m.id = subs[m.sub]
  /\ m.kind = "note" => m.sub \in DOMAIN subs /\ m.about = subs[m.sub]

WireAgrees == \A i \in DOMAIN wire : FrameAgrees(wire[i])

\* A client's map of subscriptions holds nothing the server does not have.
MapAgrees(map) == \A i \in DOMAIN map : i \in DOMAIN subs /\ map[i] = subs[i]

SocketInv == SocketTypeOK /\ WireAgrees

\* A frame appended to the wire is the only new one.
LEMMA SendStep ==
  ASSUME SocketInv, NEW frame \in Frames, Send(frame), FrameAgrees(frame),
         UNCHANGED <<conn, link, asked, subs>>, owed' \subseteq owed
  PROVE  SocketInv'
<1> USE DEF SocketInv, SocketTypeOK
<1>1. wire' \in Seq(Frames) /\ Len(wire') <= MaxWire
  BY RpcSocketAssumption DEF Send
<1>2. WireAgrees'
  <2> SUFFICES ASSUME NEW i \in 1 .. Len(wire) + 1
               PROVE  FrameAgrees(Append(wire, frame)[i])
    BY DEF WireAgrees, FrameAgrees, Send
  <2>1. CASE i = Len(wire) + 1
    BY <2>1
  <2>2. CASE i \in 1 .. Len(wire)
    <3>1. Append(wire, frame)[i] = wire[i]
      BY <2>2
    <3> QED BY <2>2, <3>1 DEF WireAgrees
  <2> QED BY <2>1, <2>2
<1> QED BY <1>1, <1>2

\* Registering a request keeps every subscription the server had.
LEMMA RegisterStep ==
  ASSUME SocketInv, NEW id \in Requests, NEW sub \in SubIds, Register(id, sub)
  PROVE  /\ SocketInv'
         /\ \A i \in DOMAIN subs : i \in DOMAIN subs' /\ subs'[i] = subs[i]
<1> USE DEF SocketInv, SocketTypeOK, Register
<1>1. \A i \in DOMAIN subs : i \in DOMAIN subs' /\ subs'[i] = subs[i]
  OBVIOUS
<1>2. SocketTypeOK'
  OBVIOUS
<1>3. WireAgrees'
  BY <1>1 DEF WireAgrees, FrameAgrees
<1> QED BY <1>1, <1>2, <1>3

\* Whatever the far side does, the frames in flight agree with its
\* subscriptions, none of which is lost, and it is only ever at work on a
\* connection that is up.
LEMMA RemoteStep ==
  ASSUME SocketInv, Remote
  PROVE  /\ SocketInv'
         /\ \A i \in DOMAIN subs : i \in DOMAIN subs' /\ subs'[i] = subs[i]
         /\ link = "up" /\ conn' = conn /\ link' # "down"
<1>1. ASSUME NEW id \in Requests, NEW sub \in SubIds, Register(id, sub)
      PROVE  /\ SocketInv'
             /\ \A i \in DOMAIN subs : i \in DOMAIN subs' /\ subs'[i] = subs[i]
             /\ link = "up" /\ conn' = conn /\ link' # "down"
  BY <1>1, RegisterStep DEF Register
<1>2. ASSUME NEW sub \in SubIds, Acknowledge(sub)
      PROVE  SocketInv' /\ subs' = subs /\ link = "up" /\ conn' = conn /\ link' # "down"
  <2> DEFINE frame == [kind |-> "ack", id |-> subs[sub], sub |-> sub]
  <2>1. frame \in Frames /\ FrameAgrees(frame)
    BY <1>2 DEF Acknowledge, Frames, FrameAgrees, SocketInv, SocketTypeOK
  <2>2. Send(frame) /\ UNCHANGED <<conn, link, asked, subs>> /\ owed' \subseteq owed
    BY <1>2 DEF Acknowledge
  <2> QED BY <1>2, <2>1, <2>2, SendStep DEF Acknowledge
<1>3. ASSUME NEW id \in Requests, RefuseRequest(id)
      PROVE  SocketInv' /\ subs' = subs /\ link = "up" /\ conn' = conn /\ link' # "down"
  <2>1. wire' \in Seq(Frames) /\ Len(wire') <= MaxWire
    BY <1>3, RpcSocketAssumption DEF RefuseRequest, Send, Frames, SocketInv, SocketTypeOK
  <2>2. WireAgrees'
    <3> SUFFICES ASSUME NEW i \in 1 .. Len(wire) + 1
                 PROVE  FrameAgrees(Append(wire, [kind |-> "other"])[i])
      BY <1>3 DEF WireAgrees, FrameAgrees, RefuseRequest, Send, SocketInv, SocketTypeOK
    <3>1. CASE i = Len(wire) + 1
      BY <3>1 DEF SocketInv, SocketTypeOK, FrameAgrees
    <3>2. CASE i \in 1 .. Len(wire)
      <4>1. Append(wire, [kind |-> "other"])[i] = wire[i]
        BY <3>2 DEF SocketInv, SocketTypeOK
      <4> QED BY <3>2, <4>1 DEF WireAgrees, SocketInv, SocketTypeOK
    <3> QED BY <3>1, <3>2
  <2> QED BY <1>3, <2>1, <2>2 DEF RefuseRequest, SocketInv, SocketTypeOK
<1>4. ASSUME NEW sub \in SubIds, NEW good \in BOOLEAN, Notify(sub, good)
      PROVE  SocketInv' /\ subs' = subs /\ link = "up" /\ conn' = conn /\ link' # "down"
  <2> DEFINE frame == [kind |-> "note", sub |-> sub, about |-> subs[sub], good |-> good]
  <2>1. frame \in Frames /\ FrameAgrees(frame)
    BY <1>4 DEF Notify, Frames, FrameAgrees, SocketInv, SocketTypeOK
  <2>2. Send(frame) /\ UNCHANGED <<conn, link, asked, subs>> /\ owed' \subseteq owed
    BY <1>4 DEF Notify
  <2> QED BY <1>4, <2>1, <2>2, SendStep DEF Notify
<1>5. ASSUME NEW kind \in {"ping", "close"}, Say(kind)
      PROVE  SocketInv' /\ subs' = subs /\ link = "up" /\ conn' = conn /\ link' # "down"
  <2> DEFINE frame == [kind |-> kind]
  <2>1. frame \in Frames /\ FrameAgrees(frame)
    BY <1>5 DEF Say, Frames, FrameAgrees
  <2>2. Send(frame) /\ UNCHANGED <<conn, link, asked, subs>> /\ owed' \subseteq owed
    BY <1>5 DEF Say
  <2> QED BY <1>5, <2>1, <2>2, SendStep DEF Say
<1>6. CASE Die
  BY <1>6 DEF Die, SocketInv, SocketTypeOK, WireAgrees, FrameAgrees
<1> QED BY <1>1, <1>2, <1>3, <1>4, <1>5, <1>6 DEF Remote

\* A connection starts, and ends, with nothing in flight and no subscription.
LEMMA OpenedStep == SocketInv /\ Opened => SocketInv' /\ conn' \in 1 .. MaxConns
<1> SUFFICES ASSUME SocketInv, Opened PROVE SocketInv' /\ conn' \in 1 .. MaxConns
  OBVIOUS
<1>1. conn' \in 1 .. MaxConns
  BY RpcSocketAssumption DEF SocketInv, SocketTypeOK, Opened
<1>2. WireAgrees'
  BY DEF WireAgrees, Opened
<1>3. SocketTypeOK'
  BY <1>1, RpcSocketAssumption DEF SocketTypeOK, Opened
<1> QED BY <1>1, <1>2, <1>3 DEF SocketInv

\* So does the loss of the connection, which forgets what was in flight.
LEMMA DroppedStep == SocketInv /\ Dropped => SocketInv'
  BY RpcSocketAssumption DEF SocketInv, SocketTypeOK, WireAgrees, Dropped

\* The frame a client takes off the wire agrees with the subscriptions, and
\* so do those it leaves.
LEMMA TakeStep ==
  ASSUME SocketInv, wire # <<>>, wire' = Tail(wire),
         UNCHANGED <<conn, link, asked, subs, owed>>
  PROVE  SocketInv' /\ Head(wire) \in Frames /\ FrameAgrees(Head(wire))
<1> USE DEF SocketInv, SocketTypeOK
<1>1. Head(wire) = wire[1] /\ 1 \in DOMAIN wire /\ Len(wire) >= 1
  OBVIOUS
<1>2. /\ wire' \in Seq(Frames) /\ Len(wire') = Len(wire) - 1
      /\ \A i \in 1 .. Len(wire) - 1 : wire'[i] = wire[i + 1]
  BY <1>1
<1>3. Len(wire') <= MaxWire
  BY <1>2, RpcSocketAssumption
<1>4. WireAgrees'
  <2> SUFFICES ASSUME NEW i \in DOMAIN wire' PROVE FrameAgrees(wire'[i])
    BY DEF WireAgrees, FrameAgrees
  <2>1. i + 1 \in DOMAIN wire /\ wire'[i] = wire[i + 1]
    BY <1>2
  <2>2. FrameAgrees(wire[i + 1])
    BY <2>1 DEF WireAgrees
  <2> QED BY <2>1, <2>2
<1>5. Head(wire) \in Frames /\ FrameAgrees(Head(wire))
  BY <1>1 DEF WireAgrees
<1> QED BY <1>2, <1>3, <1>4, <1>5

-----------------------------------------------------------------------------
(* The price feed *)

\* The inductive invariant.  PricesAreAttributed alone is not preserved: a
\* notification is filed under what the map says, so the map must agree with
\* the server's subscriptions, and an acknowledgement changes the map, so the
\* frames in flight must agree with them too (SocketInv).  After the stream
\* has ended the map is stale until Connect replaces it; that no frame is read
\* meanwhile is what makes this harmless.
FeedInv ==
  /\ TypeOK
  /\ WireAgrees
  /\ phase = "streaming" => MapAgrees(by_subscription)
  /\ phase = "streaming" <=> link # "down"
  /\ phase = "streaming" => conn \in 1 .. MaxConns
  /\ PricesAreAttributed
  /\ NoPriceSurvivesAnOutage

\* The feed starts in the invariant.
LEMMA FeedInit == Init => FeedInv
  BY RpcSocketAssumption, PriceFeedAssumption, RpcClientAssumption
  DEF Init, SocketInit, FeedInv, TypeOK, SocketTypeOK, WireAgrees,
      PricesAreAttributed, NoPriceSurvivesAnOutage, ClientTypeOK, ClientInit

\* However the stream ends, the book is empty and the socket gone.
LEMMA EndedStep ==
  ASSUME FeedInv, NEW outcome, Ended(outcome)
  PROVE  FeedInv' /\ DOMAIN prices' = {}
<1>1. SocketInv'
  BY DroppedStep DEF FeedInv, TypeOK, Ended, SocketInv, ClientTypeOK
<1>2. TypeOK'
  BY <1>1, RpcClientAssumption
  DEF FeedInv, TypeOK, Ended, SocketInv, Cleared, ClientTypeOK
<1>3. PricesAreAttributed' /\ NoPriceSurvivesAnOutage' /\ DOMAIN prices' = {}
  BY DEF Ended, Cleared, PricesAreAttributed, NoPriceSurvivesAnOutage
<1> QED BY <1>1, <1>2, <1>3 DEF FeedInv, Ended, Dropped, SocketInv

\* Taking a frame off the wire.
LEMMA NextFrameStep ==
  ASSUME FeedInv, NEW kind, NextFrame(kind)
  PROVE  /\ SocketInv' /\ silence' \in 0 .. SILENCE_LIMIT
         /\ Head(wire) \in Frames /\ Head(wire).kind = kind
         /\ FrameAgrees(Head(wire))
         /\ phase = "streaming" /\ subs' = subs /\ link' = link /\ conn' = conn
<1>1. SocketInv /\ wire # <<>> /\ wire' = Tail(wire) /\ UNCHANGED <<conn, link, asked, subs, owed>>
  BY DEF FeedInv, TypeOK, SocketInv, NextFrame, ClientTypeOK, FrameTaken
<1>2. SocketInv' /\ Head(wire) \in Frames /\ FrameAgrees(Head(wire))
  BY <1>1, TakeStep
<1> QED BY <1>2, PriceFeedAssumption, RpcClientAssumption DEF NextFrame, FrameTaken

\* An acknowledgement adds to the map what the server has on file.
LEMMA OnAckStep == FeedInv /\ OnAck => FeedInv' /\ UNCHANGED prices
<1> SUFFICES ASSUME FeedInv, OnAck PROVE FeedInv' /\ UNCHANGED prices
  OBVIOUS
<1> DEFINE m == Head(wire)
<1>1. /\ SocketInv' /\ silence' \in 0 .. SILENCE_LIMIT
      /\ m \in Frames /\ m.kind = "ack" /\ FrameAgrees(m)
      /\ phase = "streaming" /\ subs' = subs /\ link' = link /\ conn' = conn
  BY NextFrameStep DEF OnAck
<1>2. m.sub \in DOMAIN subs /\ m.id = subs[m.sub] /\ m.sub \in SubIds /\ m.id \in Requests
  BY <1>1 DEF FrameAgrees, FeedInv, TypeOK, SocketTypeOK, ClientTypeOK
<1> HIDE DEF m
<1>3. by_subscription' = [i \in DOMAIN by_subscription \cup {m.sub} |->
                            IF i = m.sub THEN m.id ELSE by_subscription[i]]
  BY DEF OnAck, m
<1>4. MapAgrees(by_subscription)'
  BY <1>1, <1>2, <1>3 DEF MapAgrees, FeedInv
<1>5. TypeOK'
  BY <1>1, <1>2, <1>3 DEF TypeOK, FeedInv, OnAck, SocketInv, ClientTypeOK
<1>6. PricesAreAttributed' /\ NoPriceSurvivesAnOutage'
  BY <1>1 DEF OnAck, FeedInv, PricesAreAttributed, NoPriceSurvivesAnOutage
<1> QED BY <1>1, <1>4, <1>5, <1>6 DEF FeedInv, OnAck, SocketInv

\* What a notification does to the book: nothing, or it files the price of one
\* pool under that pool, as of this connection.
LEMMA OnNotificationEffect ==
  ASSUME FeedInv, OnNotification
  PROVE  \/ prices' = prices
         \/ \E p \in Requests :
              prices' = [q \in DOMAIN prices \cup {p} |->
                           IF q = p THEN [of |-> p, conn |-> conn] ELSE prices[q]]
<1> DEFINE m == Head(wire)
<1>1. FrameAgrees(m) /\ m.kind = "note" /\ phase = "streaming"
  BY NextFrameStep DEF OnNotification
<1>2. m.sub \in DOMAIN subs /\ m.about = subs[m.sub]
  BY <1>1 DEF FrameAgrees
<1> HIDE DEF m
<1>3. CASE m.sub \notin DOMAIN by_subscription \/ ~m.good
  BY <1>3 DEF OnNotification, m
<1>4. CASE m.sub \in DOMAIN by_subscription /\ m.good
  <2>1. by_subscription[m.sub] = m.about /\ m.about \in Requests
    BY <1>1, <1>2, <1>4 DEF FeedInv, MapAgrees, TypeOK, SocketTypeOK, ClientTypeOK
  <2>2. prices' = [q \in DOMAIN prices \cup {by_subscription[m.sub]} |->
                     IF q = by_subscription[m.sub]
                       THEN [of |-> m.about, conn |-> conn] ELSE prices[q]]
    BY <1>4 DEF OnNotification, m
  <2> QED BY <2>1, <2>2
<1> QED BY <1>3, <1>4

\* A notification that is absorbed keeps the feed's invariant.
LEMMA OnNotificationStep == FeedInv /\ OnNotification => FeedInv'
<1> SUFFICES ASSUME FeedInv, OnNotification PROVE FeedInv'
  OBVIOUS
<1>1. /\ SocketInv' /\ silence' \in 0 .. SILENCE_LIMIT
      /\ phase = "streaming" /\ subs' = subs /\ link' = link /\ conn' = conn
  BY NextFrameStep DEF OnNotification
<1>2. conn \in 1 .. MaxConns
  BY <1>1 DEF FeedInv
<1>3. /\ DOMAIN prices' \subseteq Requests
      /\ \A p \in DOMAIN prices' : /\ prices'[p] \in [of : Requests, conn : 1 .. MaxConns]
                                   /\ prices'[p].of = p
                                   /\ prices'[p].conn = conn
  <2>1. CASE prices' = prices
    BY <2>1 DEF FeedInv, TypeOK, PricesAreAttributed, NoPriceSurvivesAnOutage, ClientTypeOK
  <2>2. ASSUME NEW p \in Requests,
               prices' = [q \in DOMAIN prices \cup {p} |->
                            IF q = p THEN [of |-> p, conn |-> conn] ELSE prices[q]]
        PROVE  /\ DOMAIN prices' \subseteq Requests
               /\ \A q \in DOMAIN prices' :
                    /\ prices'[q] \in [of : Requests, conn : 1 .. MaxConns]
                    /\ prices'[q].of = q
                    /\ prices'[q].conn = conn
    BY <1>2, <2>2 DEF FeedInv, TypeOK, PricesAreAttributed, NoPriceSurvivesAnOutage, ClientTypeOK
  <2> QED BY <2>1, <2>2, OnNotificationEffect
<1>4. TypeOK'
  BY <1>1, <1>3 DEF TypeOK, FeedInv, OnNotification, SocketInv, ClientTypeOK
<1>5. PricesAreAttributed' /\ NoPriceSurvivesAnOutage'
  BY <1>1, <1>3 DEF PricesAreAttributed, NoPriceSurvivesAnOutage, OnNotification
<1>6. MapAgrees(by_subscription)'
  BY <1>1 DEF FeedInv, MapAgrees, OnNotification
<1> QED BY <1>1, <1>4, <1>5, <1>6 DEF FeedInv, OnNotification, SocketInv

\* Every step keeps the invariant and, as a reader of the book sees it, either
\* leaves the book alone, empties it, or sets the price of one pool from that
\* pool's account.
LEMMA FeedStep ==
  ASSUME FeedInv, [Next]_vars
  PROVE  /\ FeedInv'
         /\ \/ prices' = prices
            \/ DOMAIN prices' = {}
            \/ \E p \in Requests :
                 prices' = [q \in DOMAIN prices \cup {p} |->
                              IF q = p THEN [of |-> p, conn |-> conn] ELSE prices[q]]
<1>1. CASE Connect
  <2>1. SocketInv' /\ conn' \in 1 .. MaxConns
    BY <1>1, OpenedStep DEF FeedInv, TypeOK, SocketInv, Connect, ClientTypeOK
  <2>2. by_subscription' = [i \in {} |-> 0] /\ DOMAIN prices = {}
    BY <1>1 DEF Connect, NewMap, FeedInv, NoPriceSurvivesAnOutage
  <2>3. MapAgrees(by_subscription)'
    BY <2>2 DEF MapAgrees
  <2>4. TypeOK'
    BY <1>1, <2>1, <2>2, PriceFeedAssumption
    DEF TypeOK, FeedInv, Connect, SocketInv, ClientTypeOK
  <2>5. PricesAreAttributed' /\ NoPriceSurvivesAnOutage'
    BY <1>1, <2>2 DEF PricesAreAttributed, NoPriceSurvivesAnOutage, Connect
  <2> QED BY <1>1, <2>1, <2>3, <2>4, <2>5 DEF FeedInv, Connect, Opened, SocketInv
<1>2. CASE ConnectFails
  BY <1>2, EndedStep DEF ConnectFails
<1>3. CASE Wake
  <2>1. Doubled(backoff) \in 1 .. MaxBackoff
    BY RpcClientAssumption DEF FeedInv, TypeOK, Doubled, ClientTypeOK
  <2>2. TypeOK'
    BY <1>3, <2>1
    DEF FeedInv, TypeOK, Wake, SocketTypeOK, socket, Requests, Frames, ClientTypeOK, Woken
  <2> QED
    BY <1>3, <2>2 DEF FeedInv, Wake, WireAgrees, FrameAgrees, socket,
                      PricesAreAttributed, NoPriceSurvivesAnOutage, Woken
<1>4. CASE OnAck
  BY <1>4, OnAckStep
<1>5. CASE OnNotification
  BY <1>5, OnNotificationStep, OnNotificationEffect
<1>6. CASE OnOther
  <2>1. /\ SocketInv' /\ silence' \in 0 .. SILENCE_LIMIT
        /\ phase = "streaming" /\ subs' = subs /\ link' = link /\ conn' = conn
    BY <1>6, NextFrameStep DEF OnOther
  <2>2. TypeOK'
    BY <1>6, <2>1 DEF TypeOK, FeedInv, OnOther, SocketInv, ClientTypeOK
  <2> QED
    BY <1>6, <2>1, <2>2 DEF FeedInv, OnOther, SocketInv, MapAgrees,
                            PricesAreAttributed, NoPriceSurvivesAnOutage
<1>7. CASE OnClose \/ OnError \/ OnSilence
  BY <1>7, EndedStep DEF OnClose, OnError, OnSilence
<1>8. CASE Quiet
  <2>1. TypeOK'
    BY <1>8, PriceFeedAssumption
    DEF TypeOK, FeedInv, Quiet, socket, SocketTypeOK, Requests, Frames, ClientTypeOK
  <2> QED
    BY <1>8, <2>1 DEF FeedInv, Quiet, WireAgrees, FrameAgrees, MapAgrees, socket,
                      PricesAreAttributed, NoPriceSurvivesAnOutage
<1>9. CASE FromRemote
  <2>1. /\ SocketInv'
        /\ \A i \in DOMAIN subs : i \in DOMAIN subs' /\ subs'[i] = subs[i]
        /\ link = "up" /\ conn' = conn /\ link' # "down"
    BY <1>9, RemoteStep DEF FromRemote, FeedInv, TypeOK, SocketInv, ClientTypeOK
  <2>2. TypeOK'
    BY <1>9, <2>1 DEF TypeOK, FeedInv, FromRemote, SocketInv, ClientTypeOK
  <2>3. MapAgrees(by_subscription)'
    BY <1>9, <2>1 DEF FromRemote, FeedInv, MapAgrees
  <2> QED
    BY <1>9, <2>1, <2>2, <2>3 DEF FeedInv, FromRemote, SocketInv,
                                  PricesAreAttributed, NoPriceSurvivesAnOutage
<1>10. CASE UNCHANGED vars
  BY <1>10 DEF vars, socket, FeedInv, TypeOK, SocketTypeOK, WireAgrees, FrameAgrees,
               MapAgrees, PricesAreAttributed, NoPriceSurvivesAnOutage, Requests, Frames,
               ClientTypeOK, client
<1> QED
  BY <1>1, <1>2, <1>3, <1>4, <1>5, <1>6, <1>7, <1>8, <1>9, <1>10 DEF Next, Handle

\* The invariant holds in every state the feed reaches.
THEOREM FeedInvariant == Spec => []FeedInv
<1>1. FeedInv /\ [Next]_vars => FeedInv'
  BY FeedStep
<1> QED BY FeedInit, <1>1, PTL DEF Spec

\* Every variable keeps its type.
THEOREM FeedTypeCorrect == Spec => []TypeOK
<1>1. FeedInv => TypeOK
  BY DEF FeedInv
<1> QED BY FeedInvariant, <1>1, PTL

\* absorb and parse_ack: no price is ever filed under the wrong pool, whatever
\* ids the server gives out on this connection and gave out on earlier ones,
\* and in whatever order acknowledgements and notifications arrive.
THEOREM FeedPricesAreAttributed == Spec => []PricesAreAttributed
<1>1. FeedInv => PricesAreAttributed
  BY DEF FeedInv
<1> QED BY FeedInvariant, <1>1, PTL

\* subscribe_pools: whatever ends a stream, no price from it is in the book
\* between connections or under the next one.
THEOREM FeedNoPriceSurvivesAnOutage == Spec => []NoPriceSurvivesAnOutage
<1>1. FeedInv => NoPriceSurvivesAnOutage
  BY DEF FeedInv
<1> QED BY FeedInvariant, <1>1, PTL

\* The feed implements the book its readers are modelled against: seen through
\* the mapping that forgets which connection a price came on, it starts empty
\* and every step sets one pool's price, empties the book or leaves it alone.
THEOREM FeedImplementsBook == Spec => FeedProvidesBook
<1> DEFINE shown == [p \in DOMAIN prices |->
                       [price |-> prices[p].of, fee_rate |-> 0, at |-> 0]]
<1>1. Init => shown = Book!EmptyBook
  BY DEF Init, Book!EmptyBook, ClientInit
<1>2. ASSUME FeedInv, [Next]_vars
      PROVE  [Book!BookNext]_shown
  <2>1. CASE prices' = prices
    BY <2>1
  <2>2. CASE DOMAIN prices' = {}
    <3>1. shown' = [p \in {} |-> 0]
      BY <2>2
    <3> QED BY <3>1 DEF Book!BookNext, Book!Clear, Book!EmptyBook
  <2>3. ASSUME NEW p \in Requests,
               prices' = [q \in DOMAIN prices \cup {p} |->
                            IF q = p THEN [of |-> p, conn |-> conn] ELSE prices[q]]
        PROVE  Book!BookNext
    <3>1. DOMAIN prices' = DOMAIN prices \cup {p}
      BY <2>3
    <3>2. \A q \in DOMAIN prices' :
            [price |-> prices'[q].of, fee_rate |-> 0, at |-> 0]
              = IF q = p THEN [price |-> p, fee_rate |-> 0, at |-> 0] ELSE shown[q]
      BY <2>3
    <3>3. shown' = [q \in DOMAIN shown \cup {p} |->
                      IF q = p THEN [price |-> p, fee_rate |-> 0, at |-> 0] ELSE shown[q]]
      BY <3>1, <3>2
    <3>4. Book!Quote(p, p)
      BY <3>3 DEF Book!Quote
    <3>5. p \in Book!Pools /\ p \in [q \in Requests |-> {q}][p]
      BY DEF Book!Pools
    <3> QED BY <3>4, <3>5 DEF Book!BookNext
  <2> QED BY <1>2, <2>1, <2>2, <2>3, FeedStep
<1> QED BY FeedInvariant, <1>1, <1>2, PTL DEF Spec, FeedProvidesBook, Book!BookSpec

-----------------------------------------------------------------------------
(* The RPC lane *)

\* The inductive invariant: as for the price feed, what is sent follows the
\* map, the map follows the acknowledgements, and both must agree with what
\* the server has on file while a connection lasts.
LaneInv ==
  /\ LaneTypeOK
  /\ WireAgrees
  /\ phase = "streaming" => MapAgrees(by_subscription)
  /\ phase = "streaming" <=> link # "down"
  /\ TriggersAreAttributed

\* The lane starts in the invariant.
LEMMA LaneBegins == LaneInit => LaneInv
  BY RpcSocketAssumption, RpcClientAssumption
  DEF LaneInit, SocketInit, LaneInv, LaneTypeOK, Requests, SocketTypeOK, WireAgrees, NoMessage,
      TriggersAreAttributed, ClientTypeOK, ClientInit

\* However the stream ends, the socket is gone and nothing is sent.
LEMMA LaneEndedStep ==
  ASSUME LaneInv, NEW outcome, LaneEnded(outcome)
  PROVE  LaneInv'
<1>1. SocketInv'
  BY DroppedStep
  DEF LaneInv, LaneTypeOK, Requests, LaneEnded, SocketInv, ClientTypeOK
<1>2. LaneTypeOK'
  BY <1>1, RpcClientAssumption
  DEF LaneInv, LaneTypeOK, Requests, LaneEnded, SocketInv, NoMessage, ClientTypeOK
<1> QED
  BY <1>1, <1>2 DEF LaneInv, LaneEnded, Dropped, SocketInv, TriggersAreAttributed

\* Taking a frame off the wire.
LEMMA LaneTakesFrame ==
  ASSUME LaneInv, NEW kind, FrameTaken(kind)
  PROVE  /\ SocketInv'
         /\ Head(wire) \in Frames /\ Head(wire).kind = kind
         /\ FrameAgrees(Head(wire))
         /\ phase = "streaming" /\ subs' = subs /\ link' = link
<1>1. /\ SocketInv /\ wire # <<>> /\ wire' = Tail(wire)
      /\ UNCHANGED <<conn, link, asked, subs, owed>>
  BY DEF LaneInv, LaneTypeOK, Requests, SocketInv, FrameTaken, ClientTypeOK
<1>2. SocketInv' /\ Head(wire) \in Frames /\ FrameAgrees(Head(wire))
  BY <1>1, TakeStep
<1> QED BY <1>2 DEF FrameTaken

\* absorb_ack: the map gains what the server has on file, or, for the
\* firehose's own subscription, nothing.
LEMMA LaneAckStep == LaneInv /\ LaneOnAck => LaneInv'
<1> SUFFICES ASSUME LaneInv, LaneOnAck PROVE LaneInv'
  OBVIOUS
<1> DEFINE m == Head(wire)
<1>1. /\ SocketInv' /\ m.kind = "ack" /\ FrameAgrees(m)
      /\ phase = "streaming" /\ subs' = subs /\ link' = link
  BY LaneTakesFrame DEF LaneOnAck
<1>2. m.sub \in DOMAIN subs /\ m.id = subs[m.sub] /\ m.sub \in SubIds /\ m.id \in Requests
  BY <1>1 DEF FrameAgrees, LaneInv, LaneTypeOK, Requests, SocketTypeOK, ClientTypeOK
<1> HIDE DEF m
<1>3. \/ by_subscription' = by_subscription
      \/ by_subscription' = [i \in DOMAIN by_subscription \cup {m.sub} |->
                               IF i = m.sub THEN m.id ELSE by_subscription[i]]
  BY DEF LaneOnAck, m
<1>4. MapAgrees(by_subscription)'
  BY <1>1, <1>2, <1>3 DEF MapAgrees, LaneInv
<1>5. /\ DOMAIN by_subscription' \subseteq SubIds
      /\ \A i \in DOMAIN by_subscription' : by_subscription'[i] \in Requests
  BY <1>2, <1>3 DEF LaneTypeOK, Requests, LaneInv, ClientTypeOK
<1>6. LaneTypeOK' /\ TriggersAreAttributed'
  BY <1>1, <1>5
  DEF LaneTypeOK, Requests, LaneInv, LaneOnAck, SocketInv, NoMessage,
                    TriggersAreAttributed, ClientTypeOK
<1> QED BY <1>1, <1>4, <1>6 DEF LaneInv, LaneOnAck, SocketInv

\* A notification is sent on with the account the server has on file for its
\* subscription, or with none.
LEMMA LaneNoteStep == LaneInv /\ LaneOnNotification => LaneInv'
<1> SUFFICES ASSUME LaneInv, LaneOnNotification PROVE LaneInv'
  OBVIOUS
<1> DEFINE m == Head(wire)
<1>1. /\ SocketInv' /\ m.kind = "note" /\ FrameAgrees(m)
      /\ phase = "streaming" /\ subs' = subs /\ link' = link
  BY LaneTakesFrame DEF LaneOnNotification
<1>2. m.sub \in DOMAIN subs /\ m.about = subs[m.sub] /\ m.about \in Requests
  BY <1>1 DEF FrameAgrees, LaneInv, LaneTypeOK, Requests, SocketTypeOK, ClientTypeOK
<1> HIDE DEF m
<1>3. accounts_for(m.sub) \subseteq {m.about}
  BY <1>1, <1>2 DEF accounts_for, LaneInv, MapAgrees
<1>4. sent' = sent \/ sent' = [about |-> m.about, account_keys |-> accounts_for(m.sub)]
  BY DEF LaneOnNotification, m
<1>5. /\ sent' \in [about : Requests, account_keys : SUBSET Requests] \cup {NoMessage}
      /\ TriggersAreAttributed'
  BY <1>2, <1>3, <1>4 DEF LaneInv, LaneTypeOK, Requests, TriggersAreAttributed, ClientTypeOK
<1>6. LaneTypeOK'
  BY <1>1, <1>5
  DEF LaneTypeOK, Requests, LaneInv, LaneOnNotification, SocketInv, NoMessage, ClientTypeOK
<1>7. MapAgrees(by_subscription)'
  BY <1>1 DEF LaneInv, MapAgrees, LaneOnNotification
<1> QED BY <1>1, <1>5, <1>6, <1>7 DEF LaneInv, LaneOnNotification, SocketInv

\* Every step keeps the invariant.
LEMMA LaneStep == LaneInv /\ [LaneNext]_lane_vars => LaneInv'
<1> SUFFICES ASSUME LaneInv, [LaneNext]_lane_vars PROVE LaneInv'
  OBVIOUS
<1>1. CASE LaneConnect
  <2>1. SocketInv'
    BY <1>1, OpenedStep
    DEF LaneInv, LaneTypeOK, Requests, SocketInv, LaneConnect, ClientTypeOK
  <2>2. by_subscription' = [i \in {} |-> 0]
    BY <1>1 DEF LaneConnect, NewWatched
  <2>3. MapAgrees(by_subscription)'
    BY <2>2 DEF MapAgrees
  <2>4. LaneTypeOK'
    BY <1>1, <2>1, <2>2
    DEF LaneTypeOK, Requests, LaneInv, LaneConnect, SocketInv, NoMessage, ClientTypeOK
  <2> QED
    BY <1>1, <2>1, <2>3, <2>4
    DEF LaneInv, LaneConnect, Opened, SocketInv, TriggersAreAttributed
<1>2. CASE LaneConnectFails \/ LaneOnClose \/ LaneOnError
  BY <1>2, LaneEndedStep DEF LaneConnectFails, LaneOnClose, LaneOnError
<1>3. CASE LaneWake
  <2>1. Doubled(backoff) \in 1 .. MaxBackoff
    BY RpcClientAssumption DEF LaneInv, LaneTypeOK, Requests, Doubled, ClientTypeOK
  <2>2. LaneTypeOK'
    BY <1>3, <2>1 DEF LaneInv, LaneTypeOK, LaneWake, SocketTypeOK, Requests,
                      Frames, socket, NoMessage, ClientTypeOK, Woken
  <2> QED
    BY <1>3, <2>2 DEF LaneInv, LaneWake, WireAgrees, FrameAgrees, socket,
                      TriggersAreAttributed, Woken
<1>4. CASE LaneOnAck
  BY <1>4, LaneAckStep
<1>5. CASE LaneOnNotification
  BY <1>5, LaneNoteStep
<1>6. CASE LaneOnOther
  <2>1. /\ SocketInv' /\ phase = "streaming" /\ subs' = subs /\ link' = link
    BY <1>6, LaneTakesFrame DEF LaneOnOther
  <2>2. LaneTypeOK'
    BY <1>6, <2>1
    DEF LaneTypeOK, Requests, LaneInv, LaneOnOther, SocketInv, NoMessage, ClientTypeOK
  <2> QED
    BY <1>6, <2>1, <2>2 DEF LaneInv, LaneOnOther, SocketInv, MapAgrees, TriggersAreAttributed
<1>7. CASE LaneFromRemote
  <2>1. /\ SocketInv'
        /\ \A i \in DOMAIN subs : i \in DOMAIN subs' /\ subs'[i] = subs[i]
        /\ link = "up" /\ link' # "down"
    BY <1>7, RemoteStep
    DEF LaneFromRemote, LaneInv, LaneTypeOK, Requests, SocketInv, ClientTypeOK
  <2>2. LaneTypeOK'
    BY <1>7, <2>1
    DEF LaneTypeOK, Requests, LaneInv, LaneFromRemote, SocketInv, NoMessage, ClientTypeOK
  <2>3. MapAgrees(by_subscription)'
    BY <1>7, <2>1 DEF LaneFromRemote, LaneInv, MapAgrees
  <2> QED
    BY <1>7, <2>1, <2>2, <2>3 DEF LaneInv, LaneFromRemote, SocketInv, TriggersAreAttributed
<1>8. CASE UNCHANGED lane_vars
  BY <1>8 DEF lane_vars, socket, LaneInv, LaneTypeOK, Requests, Frames,
              SocketTypeOK, WireAgrees, FrameAgrees, MapAgrees,
              TriggersAreAttributed, NoMessage, ClientTypeOK, client
<1> QED BY <1>1, <1>2, <1>3, <1>4, <1>5, <1>6, <1>7, <1>8 DEF LaneNext, LaneHandle

\* The invariant holds in every state the lane reaches.
THEOREM LaneInvariant == LaneSpec => []LaneInv
  BY LaneBegins, LaneStep, PTL DEF LaneSpec

\* Every variable keeps its type.
THEOREM LaneTypeCorrect == LaneSpec => []LaneTypeOK
<1>1. LaneInv => LaneTypeOK
  BY DEF LaneInv
<1> QED BY LaneInvariant, <1>1, PTL

\* Watched: a message sent to the loop names the account it is about or none
\* at all, across reconnections and however acknowledgements and
\* notifications overtake each other.
THEOREM LaneTriggersAreAttributed == LaneSpec => []TriggersAreAttributed
<1>1. LaneInv => TriggersAreAttributed
  BY DEF LaneInv
<1> QED BY LaneInvariant, <1>1, PTL
=============================================================================
