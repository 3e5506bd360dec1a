---------------------------- MODULE ShredsProofs ----------------------------
(***************************************************************************)
(* Theorems about Shreds: for any datagrams, any number of packets and any *)
(* outcome of the decoder.                                                 *)
(***************************************************************************)
EXTENDS Shreds, DataProofs

Received == [datagram : Datagrams, at : Nat]
Packet   == [payload : [from : Nat, to : Nat], at : Nat, id : Nat]
Taken    == [id : Nat, outcome : Outcomes]
Fields   == {"packets", "shreds", "batches_ready", "deshred_errors", "entries",
             "transactions", "panics"}

ShredsTypes ==
  /\ command \in {"race", "probe"}
  /\ main \in {"starting", "running", "ended", "failed"}
  /\ capture \in {"none", "reading", "stopped"}
  /\ now \in Nat
  /\ received \in Seq(Received)
  /\ packet_rx \in Seq(Packet)
  /\ handled \in Seq(Taken)
  /\ seen \in Seq([id : Nat, at : Nat])
  /\ counts \in [Fields -> Nat]

\* Nothing is read before the socket is open.
ClosedInv ==
  /\ main = "starting" => capture = "none"
  /\ capture = "none" => received = <<>> /\ packet_rx = <<>> /\ handled = <<>>

\* A packet that waits is a datagram parse_udp accepted, as it was read.
WaitingInv ==
  \A i \in DOMAIN packet_rx :
    /\ packet_rx[i].id \in DOMAIN received
    /\ packet_rx[i].at = received[packet_rx[i].id].at
    /\ packet_rx[i].payload = payload(received[packet_rx[i].id].datagram)
    /\ Accepts(received[packet_rx[i].id].datagram)

\* Packets wait, and were handled, in the order they were read.
OrderInv ==
  /\ \A i, j \in DOMAIN packet_rx : i < j => packet_rx[i].id < packet_rx[j].id
  /\ \A i, j \in DOMAIN handled : i < j => handled[i].id < handled[j].id
  /\ \A i \in DOMAIN handled, j \in DOMAIN packet_rx : handled[i].id < packet_rx[j].id
  /\ \A i \in DOMAIN handled : handled[i].id \in DOMAIN received

\* Every datagram accepted while the race runs waits or was handled.
KeptInv ==
  command = "race" /\ main = "running" =>
    \A n \in DOMAIN received :
      Accepts(received[n].datagram) <=>
        \/ \E i \in DOMAIN handled : handled[i].id = n
        \/ \E i \in DOMAIN packet_rx : packet_rx[i].id = n

ArrivalInv == ShredsTypes /\ ClosedInv /\ WaitingInv /\ OrderInv /\ KeptInv

\* parse_udp passes every whole datagram for us, and otherwise only the
\* beginning of one; the payload ends where the header says, or the read does.
LEMMA AcceptsMeans ==
  ASSUME NEW d \in Datagrams
  PROVE  /\ ForUs(d) /\ Whole(d) => Accepts(d)
         /\ Accepts(d) => ForUs(d) /\ (Whole(d) \/ Beginning(d))
         /\ payload(d).from = d.ihl + 8
         /\ payload(d).to = IF d.total_len <= d.len THEN d.total_len ELSE d.len
         /\ Accepts(d) => payload(d) \in [from : Nat, to : Nat]
BY ShredsAssumption DEF Accepts, ForUs, Whole, Beginning, payload, end, Least

\* A packet comes out of the decoder as one of the outcomes listed.
LEMMA OutcomeTypes ==
  ASSUME NEW o \in Outcomes
  PROVE  /\ o.stage \in {"decode", "insert", "deshred", "done"}
         /\ o.panics \in BOOLEAN /\ o.entries \in Nat /\ o.txs \in Nat
         /\ o.stage = "done" => o.panics = FALSE
<1> DEFINE short == [stage : {"decode", "insert", "deshred"}, panics : BOOLEAN,
                     entries : {0}, txs : {0}]
           whole == [stage : {"done"}, panics : {FALSE}, entries : {1, 2}, txs : {0, 2}]
<1>1. o \in short \/ o \in whole BY DEF Outcomes
<1>2. CASE o \in short
  <2>1. o.stage \in {"decode", "insert", "deshred"} /\ o.entries \in {0} /\ o.txs \in {0}
    BY <1>2
  <2>2. o.panics \in BOOLEAN
    BY <1>2, Zenon
  <2>3. o.stage # "done" /\ o.stage \in {"decode", "insert", "deshred", "done"}
        /\ o.entries \in Nat /\ o.txs \in Nat
    BY <2>1
  <2> QED BY <2>2, <2>3, Zenon
<1>3. CASE o \in whole
  <2>1. o.stage \in {"done"} /\ o.entries \in {1, 2} /\ o.txs \in {0, 2}
    BY <1>3
  <2>2. o.panics = FALSE
    BY <1>3, Zenon
  <2>3. o.stage \in {"decode", "insert", "deshred", "done"}
        /\ o.entries \in Nat /\ o.txs \in Nat
    BY <2>1
  <2> QED BY <2>2, <2>3, Zenon
<1> QED BY <1>1, <1>2, <1>3

LEMMA ArrivalInit == Init => ArrivalInv
BY DEF Init, ArrivalInv, ShredsTypes, ClosedInv, WaitingInv, OrderInv, KeptInv, Fields

\* recv: the number a new packet gets is larger than all before it.
LEMMA RecvKeeps ==
  ASSUME ArrivalInv, NEW d \in Datagrams, Recv(d)
  PROVE  ArrivalInv'
<1> USE DEF ArrivalInv
<1> DEFINE rec == [datagram |-> d, at |-> now]
           pkt == [payload |-> payload(d), at |-> now, id |-> Len(received) + 1]
<1>1. rec \in Received /\ received' = Append(received, rec)
  BY DEF Recv, ShredsTypes, Received
<1>2. /\ received' \in Seq(Received) /\ Len(received') = Len(received) + 1
      /\ DOMAIN received' = DOMAIN received \cup {Len(received) + 1}
      /\ Len(received) + 1 \notin DOMAIN received
      /\ received'[Len(received) + 1] = rec
      /\ \A i \in DOMAIN received : received'[i] = received[i] /\ i < Len(received) + 1
  <2> HIDE DEF rec
  <2> QED BY <1>1, PutLast DEF ShredsTypes
<1>3. /\ UNCHANGED <<command, main, counts, seen, probe, now, handled>>
      /\ capture = "reading"
  BY DEF Recv
<1>4. \A i \in DOMAIN packet_rx : packet_rx[i].id \in DOMAIN received
  BY DEF WaitingInv
<1>5. \A i \in DOMAIN handled : handled[i].id \in DOMAIN received
  BY DEF OrderInv
<1>6. CASE packet_rx' = packet_rx /\ (Accepts(d) => main # "running")
           /\ capture' \in {"reading", "stopped"}
  <2>1. ShredsTypes' /\ ClosedInv'
    BY <1>2, <1>3, <1>6 DEF ShredsTypes, ClosedInv
  <2>2. WaitingInv'
    BY <1>2, <1>4, <1>6 DEF WaitingInv, Accepts, payload, end
  <2>3. OrderInv'
    BY <1>2, <1>3, <1>5, <1>6 DEF OrderInv
  <2>4. KeptInv'
    <3> SUFFICES ASSUME command' = "race", main' = "running", NEW n \in DOMAIN received'
                 PROVE  Accepts(received'[n].datagram) <=>
                          \/ \E i \in DOMAIN handled' : handled'[i].id = n
                          \/ \E i \in DOMAIN packet_rx' : packet_rx'[i].id = n
      BY DEF KeptInv, Accepts, end
    <3>1. CASE n \in DOMAIN received
      BY <3>1, <1>2, <1>3, <1>6 DEF KeptInv
    <3>2. CASE n = Len(received) + 1
      <4>1. received'[n].datagram = d BY <3>2, <1>2
      <4> QED BY <4>1, <3>2, <1>2, <1>3, <1>4, <1>5, <1>6
    <3> QED BY <3>1, <3>2, <1>2
  <2> QED BY <2>1, <2>2, <2>3, <2>4
<1>7. CASE packet_rx' = Append(packet_rx, pkt) /\ Accepts(d) /\ main = "running"
           /\ capture' = "reading"
  <2>1. pkt \in Packet
    BY <1>7, AcceptsMeans DEF ShredsTypes, Packet
  <2>2. /\ packet_rx' \in Seq(Packet)
        /\ DOMAIN packet_rx' = DOMAIN packet_rx \cup {Len(packet_rx) + 1}
        /\ packet_rx'[Len(packet_rx) + 1] = pkt
        /\ \A i \in DOMAIN packet_rx : packet_rx'[i] = packet_rx[i] /\ i < Len(packet_rx) + 1
        /\ \A i \in DOMAIN packet_rx : i \in Nat
    <3> HIDE DEF pkt
    <3> QED BY <2>1, <1>7, PutLast DEF ShredsTypes
  <2>3. ShredsTypes' /\ ClosedInv'
    BY <1>2, <1>3, <1>7, <2>2 DEF ShredsTypes, ClosedInv
  <2>4. WaitingInv'
    <3> SUFFICES ASSUME NEW i \in DOMAIN packet_rx'
                 PROVE  /\ packet_rx'[i].id \in DOMAIN received'
                        /\ packet_rx'[i].at = received'[packet_rx'[i].id].at
                        /\ packet_rx'[i].payload = payload(received'[packet_rx'[i].id].datagram)
                        /\ Accepts(received'[packet_rx'[i].id].datagram)
      BY DEF WaitingInv, Accepts, payload, end
    <3>1. CASE i \in DOMAIN packet_rx
      BY <3>1, <2>2, <1>2 DEF WaitingInv
    <3>2. CASE i = Len(packet_rx) + 1
      <4>1. packet_rx'[i] = pkt /\ pkt.id = Len(received) + 1 BY <3>2, <2>2
      <4>2. received'[packet_rx'[i].id] = rec BY <4>1, <1>2
      <4> QED BY <4>1, <4>2, <1>2, <1>7
    <3> QED BY <3>1, <3>2, <2>2
  <2>5. OrderInv'
    <3>1. \A i \in DOMAIN packet_rx' : i # Len(packet_rx) + 1 => packet_rx'[i].id < Len(received) + 1
      BY <2>2, <1>4, <1>2
    <3>2. packet_rx'[Len(packet_rx) + 1].id = Len(received) + 1 BY <2>2
    <3>3. Len(packet_rx) \in Nat BY DEF ShredsTypes
    <3>4. \A i, j \in DOMAIN packet_rx' : i < j => packet_rx'[i].id < packet_rx'[j].id
      BY <3>1, <3>2, <3>3, <2>2 DEF OrderInv
    <3>5. \A i \in DOMAIN handled, j \in DOMAIN packet_rx' : handled[i].id < packet_rx'[j].id
      BY <3>2, <2>2, <1>2, <1>5 DEF OrderInv
    <3> QED BY <3>4, <3>5, <1>2, <1>3 DEF OrderInv
  <2>6. KeptInv'
    <3> SUFFICES ASSUME command' = "race", main' = "running", NEW n \in DOMAIN received'
                 PROVE  Accepts(received'[n].datagram) <=>
                          \/ \E i \in DOMAIN handled' : handled'[i].id = n
                          \/ \E i \in DOMAIN packet_rx' : packet_rx'[i].id = n
      BY DEF KeptInv, Accepts, end
    <3>1. CASE n \in DOMAIN received
      <4>1. n # Len(received) + 1 BY <3>1, <1>2
      <4>2. (\E i \in DOMAIN packet_rx' : packet_rx'[i].id = n)
              <=> (\E i \in DOMAIN packet_rx : packet_rx[i].id = n)
        BY <4>1, <2>2
      <4> QED BY <3>1, <4>2, <1>2, <1>3 DEF KeptInv
    <3>2. CASE n = Len(received) + 1
      <4>1. received'[n].datagram = d BY <3>2, <1>2
      <4>2. packet_rx'[Len(packet_rx) + 1].id = n BY <2>2, <3>2
      <4> QED BY <4>1, <4>2, <2>2, <1>7
    <3> QED BY <3>1, <3>2, <1>2
  <2> QED BY <2>3, <2>4, <2>5, <2>6
<1> QED
  <2>1. Len(received') = Len(received) + 1 BY <1>2
  <2> QED BY <2>1, <1>6, <1>7 DEF Recv
\* The race's loop moves a packet from the waiting ones to the handled ones.
LEMMA OnPacketKeeps ==
  ASSUME ArrivalInv, NEW o \in Outcomes, OnPacket(o)
  PROVE  ArrivalInv'
<1> USE DEF ArrivalInv
<1> DEFINE packet == Head(packet_rx)
           taken == [id |-> packet.id, outcome |-> o]
           out == [i \in 1 .. o.txs |-> [id |-> packet.id, at |-> stamp(packet)]]
<1>1. /\ command = "race" /\ main = "running" /\ packet_rx # <<>>
      /\ counts' = Counted(o) /\ seen' = seen \o out
      /\ handled' = Append(handled, taken) /\ packet_rx' = Tail(packet_rx)
      /\ main' = "running" /\ UNCHANGED <<command, capture, probe, now, received>>
  BY DEF OnPacket, AfterPacket
<1>2. /\ packet = packet_rx[1] /\ packet \in Packet /\ 1 \in DOMAIN packet_rx
      /\ packet_rx' \in Seq(Packet)
      /\ \A i \in DOMAIN packet_rx' : i + 1 \in DOMAIN packet_rx
                                      /\ packet_rx'[i] = packet_rx[i + 1]
      /\ \A i \in DOMAIN packet_rx : i # 1 => i - 1 \in DOMAIN packet_rx'
                                              /\ packet_rx[i] = packet_rx'[i - 1]
      /\ DOMAIN packet_rx' \subseteq Nat \ {0}
  BY <1>1, TakeFirst DEF ShredsTypes
<1>3. taken \in Taken /\ taken.id = packet.id BY <1>2 DEF Taken, Packet
<1>4. /\ handled' \in Seq(Taken)
      /\ DOMAIN handled' = DOMAIN handled \cup {Len(handled) + 1}
      /\ handled'[Len(handled) + 1] = taken
      /\ \A i \in DOMAIN handled : handled'[i] = handled[i] /\ i < Len(handled) + 1
      /\ \A i \in DOMAIN handled : i \in Nat
  <2> HIDE DEF taken
  <2> QED BY <1>1, <1>3, PutLast DEF ShredsTypes
<1>5. counts' \in [Fields -> Nat]
  <2>1. o.entries \in Nat /\ o.txs \in Nat BY OutcomeTypes
  <2>2. DOMAIN counts = Fields /\ \A k \in Fields : counts[k] \in Nat BY DEF ShredsTypes
  <2> HIDE DEF ArrivalInv
  <2> QED BY <1>1, <2>1, <2>2 DEF Counted
<1>6. seen' \in Seq([id : Nat, at : Nat])
  <2>1. o.txs \in Nat BY OutcomeTypes
  <2>2. \A i \in 1 .. o.txs : out[i] \in [id : Nat, at : Nat]
    BY <1>2 DEF stamp, Packet
  <2>3. out \in [1 .. o.txs -> [id : Nat, at : Nat]] BY <2>2
  <2> HIDE DEF out
  <2>4. out \in Seq([id : Nat, at : Nat]) BY <2>1, <2>3, FunctionIsSeq
  <2> QED BY <1>1, <2>4 DEF ShredsTypes
<1>7. ShredsTypes' /\ ClosedInv'
  BY <1>1, <1>2, <1>4, <1>5, <1>6 DEF ShredsTypes, ClosedInv
<1>8. WaitingInv'
  BY <1>1, <1>2 DEF WaitingInv, Accepts, payload, end
<1>9. OrderInv'
  <2>1. ASSUME NEW i \in DOMAIN packet_rx', NEW j \in DOMAIN packet_rx', i < j
        PROVE  packet_rx'[i].id < packet_rx'[j].id
    <3>1. /\ i + 1 \in DOMAIN packet_rx /\ packet_rx'[i] = packet_rx[i + 1]
          /\ j + 1 \in DOMAIN packet_rx /\ packet_rx'[j] = packet_rx[j + 1]
          /\ i \in Nat /\ j \in Nat
      BY <1>2
    <3>2. i + 1 < j + 1 BY <3>1, <2>1
    <3> QED BY <3>1, <3>2 DEF OrderInv
  <2>2. \A j \in DOMAIN packet_rx' : packet.id < packet_rx'[j].id
    <3> SUFFICES ASSUME NEW j \in DOMAIN packet_rx' PROVE packet.id < packet_rx'[j].id
      OBVIOUS
    <3>1. 1 < j + 1 /\ j + 1 \in DOMAIN packet_rx /\ packet_rx'[j] = packet_rx[j + 1]
      BY <1>2
    <3> QED BY <3>1, <1>2 DEF OrderInv
  <2>3. \A i \in DOMAIN handled : handled[i].id < packet.id
    BY <1>2 DEF OrderInv
  <2>4. \A i \in DOMAIN handled, j \in DOMAIN packet_rx' : handled[i].id < packet_rx'[j].id
    BY <1>2 DEF OrderInv
  <2>5. Len(handled) \in Nat BY DEF ShredsTypes
  <2>6. \A i, j \in DOMAIN handled' : i < j => handled'[i].id < handled'[j].id
    BY <2>3, <2>5, <1>3, <1>4 DEF OrderInv
  <2>7. \A i \in DOMAIN handled', j \in DOMAIN packet_rx' : handled'[i].id < packet_rx'[j].id
    BY <2>2, <2>4, <1>3, <1>4
  <2>8. packet.id \in DOMAIN received BY <1>2 DEF WaitingInv
  <2>9. \A i \in DOMAIN handled' : handled'[i].id \in DOMAIN received'
    BY <2>8, <1>1, <1>3, <1>4 DEF OrderInv
  <2> QED BY <2>1, <2>6, <2>7, <2>9 DEF OrderInv
<1>10. KeptInv'
  <2>1. \A n : (\E i \in DOMAIN handled' : handled'[i].id = n)
                 <=> (\E i \in DOMAIN handled : handled[i].id = n) \/ packet.id = n
    BY <1>3, <1>4
  <2>2. \A n : (\E i \in DOMAIN packet_rx : packet_rx[i].id = n)
                 <=> (\E i \in DOMAIN packet_rx' : packet_rx'[i].id = n) \/ packet.id = n
    BY <1>2
  <2>3. \A n \in DOMAIN received' : Accepts(received'[n].datagram) <=>
          \/ \E i \in DOMAIN handled' : handled'[i].id = n
          \/ \E i \in DOMAIN packet_rx' : packet_rx'[i].id = n
    BY <2>1, <2>2, <1>1 DEF KeptInv
  <2> QED BY <2>3 DEF KeptInv, Accepts, end
<1> QED BY <1>7, <1>8, <1>9, <1>10

\* The probe's packets are nobody else's.
LEMMA ProbePacketKeeps == ArrivalInv /\ ProbePacket => ArrivalInv'
<1> SUFFICES ASSUME ArrivalInv, ProbePacket PROVE ArrivalInv' OBVIOUS
<1> USE DEF ArrivalInv
<1>1. /\ command = "probe" /\ packet_rx # <<>> /\ packet_rx' = Tail(packet_rx)
      /\ UNCHANGED <<command, main, capture, counts, seen, now, received, handled>>
  BY DEF ProbePacket, Probing
<1>2. /\ packet_rx' \in Seq(Packet)
      /\ \A i \in DOMAIN packet_rx' : i + 1 \in DOMAIN packet_rx
                                      /\ packet_rx'[i] = packet_rx[i + 1]
      /\ DOMAIN packet_rx' \subseteq Nat
  BY <1>1, TakeFirst DEF ShredsTypes
<1>3. ShredsTypes' /\ ClosedInv' /\ KeptInv'
  BY <1>1, <1>2 DEF ShredsTypes, ClosedInv, KeptInv
<1>4. WaitingInv'
  BY <1>1, <1>2 DEF WaitingInv, Accepts, payload, end
<1>5. OrderInv'
  BY <1>1, <1>2 DEF OrderInv
<1> QED BY <1>3, <1>4, <1>5

LEMMA ArrivalStep == ArrivalInv /\ [Next]_vars => ArrivalInv'
<1> SUFFICES ASSUME ArrivalInv, [Next]_vars PROVE ArrivalInv' OBVIOUS
<1> USE DEF ArrivalInv
<1>1. CASE Start
  BY <1>1 DEF Start, ShredsTypes, ClosedInv, WaitingInv, OrderInv, KeptInv, Accepts, payload, end
<1>2. CASE OpenFails
  BY <1>2 DEF OpenFails, ShredsTypes, ClosedInv, WaitingInv, OrderInv, KeptInv, Accepts, payload, end
<1>3. CASE \E d \in Datagrams : Recv(d)
  BY <1>3, RecvKeeps
<1>4. CASE RecvFails
  BY <1>4 DEF RecvFails, ShredsTypes, ClosedInv, WaitingInv, OrderInv, KeptInv, Accepts, payload, end
<1>5. CASE TakePacket
  BY <1>5, OnPacketKeeps DEF TakePacket
<1>6. CASE ProbePacket
  BY <1>6, ProbePacketKeeps
<1>7. CASE ProbeEnds
  BY <1>7 DEF ProbeEnds, Probing, ShredsTypes, ClosedInv, WaitingInv, OrderInv, KeptInv
<1>8. CASE Tick
  BY <1>8 DEF Tick, ShredsTypes, ClosedInv, WaitingInv, OrderInv, KeptInv, Accepts, payload, end
<1>9. CASE UNCHANGED vars
  BY <1>9 DEF vars, ShredsTypes, ClosedInv, WaitingInv, OrderInv, KeptInv, Accepts, payload, end
<1> QED BY <1>1, <1>2, <1>3, <1>4, <1>5, <1>6, <1>7, <1>8, <1>9 DEF Next

\* What was read, waits and was handled, and in which order: the inductive
\* invariant behind the two theorems below.
THEOREM ShredsArrival == Spec => []ArrivalInv
BY ArrivalInit, ArrivalStep, PTL DEF Spec

\* No whole datagram of the feed is lost, decoded twice or out of order between
\* recv and the decoder, each arrives from after its headers to exactly where
\* it says it ends, and nothing else arrives but the beginning of a datagram of
\* the feed, for every mix of the three lengths parse_udp reads.
THEOREM ShredsDatagramsArriveWhole == Spec => []DatagramsArriveWhole
<1>1. ArrivalInv => DatagramsArriveWhole
  <2> SUFFICES ASSUME ArrivalInv, command = "race", main = "running"
               PROVE  DatagramsArriveWhole
    BY DEF DatagramsArriveWhole
  <2> USE DEF ArrivalInv
  <2> DEFINE done == [i \in DOMAIN handled |-> handled[i].id]
             wait == [i \in DOMAIN packet_rx |-> packet_rx[i].id]
             ids  == done \o wait
  <2>1. done \in Seq(Nat) /\ Len(done) = Len(handled) /\ DOMAIN done = DOMAIN handled
    <3>0. /\ Len(handled) \in Nat /\ DOMAIN handled = 1 .. Len(handled)
          /\ \A i \in DOMAIN handled : handled[i] \in Taken
      BY DEF ShredsTypes
    <3>2. \A i \in DOMAIN handled : handled[i].id \in Nat
      BY <3>0 DEF Taken
    <3>1. done \in [1 .. Len(handled) -> Nat]
      BY <3>0, <3>2
    <3> HIDE DEF done
    <3> QED BY <3>0, <3>1, FunctionIsSeq
  <2>2. wait \in Seq(Nat) /\ Len(wait) = Len(packet_rx) /\ DOMAIN wait = DOMAIN packet_rx
    <3>0. /\ Len(packet_rx) \in Nat /\ DOMAIN packet_rx = 1 .. Len(packet_rx)
          /\ \A i \in DOMAIN packet_rx : packet_rx[i] \in Packet
      BY DEF ShredsTypes
    <3>2. \A i \in DOMAIN packet_rx : packet_rx[i].id \in Nat
      BY <3>0 DEF Packet
    <3>1. wait \in [1 .. Len(packet_rx) -> Nat]
      BY <3>0, <3>2
    <3> HIDE DEF wait
    <3> QED BY <3>0, <3>1, FunctionIsSeq
  <2>3. /\ \A i \in DOMAIN done : done[i] = handled[i].id
        /\ \A i \in DOMAIN wait : wait[i] = packet_rx[i].id
    OBVIOUS
  <2>4. /\ \A i, j \in DOMAIN done : i < j => done[i] < done[j]
        /\ \A i, j \in DOMAIN wait : i < j => wait[i] < wait[j]
        /\ \A i \in DOMAIN done, j \in DOMAIN wait : done[i] < wait[j]
    BY DEF OrderInv
  <2> HIDE DEF done, wait
  <2>5. /\ DOMAIN ids = 1 .. Len(done) + Len(wait)
        /\ \A i \in DOMAIN ids : ids[i] = IF i <= Len(done) THEN done[i] ELSE wait[i - Len(done)]
    BY <2>1, <2>2
  <2>6. /\ DOMAIN done = 1 .. Len(done) /\ DOMAIN wait = 1 .. Len(wait)
        /\ Len(done) \in Nat /\ Len(wait) \in Nat
    BY <2>1, <2>2
  <2> HIDE DEF ids
  <2>7. \A i, j \in DOMAIN ids : i < j => ids[i] < ids[j]
    BY <2>4, <2>5, <2>6
  <2>8. \A n : (\E i \in DOMAIN ids : ids[i] = n)
                 <=> (\E i \in DOMAIN done : done[i] = n) \/ (\E i \in DOMAIN wait : wait[i] = n)
    <3> TAKE n
    <3>1. ASSUME NEW i \in DOMAIN ids, ids[i] = n
          PROVE  (\E k \in DOMAIN done : done[k] = n) \/ (\E k \in DOMAIN wait : wait[k] = n)
      <4>1. CASE i <= Len(done) BY <4>1, <3>1, <2>5, <2>6
      <4>2. CASE i > Len(done)
        <5>1. i - Len(done) \in DOMAIN wait BY <4>2, <2>5, <2>6
        <5>2. wait[i - Len(done)] = n BY <4>2, <3>1, <2>5, <2>6
        <5> QED BY <5>1, <5>2
      <4> QED BY <4>1, <4>2, <2>5, <2>6
    <3>2. ASSUME NEW i \in DOMAIN done, done[i] = n PROVE \E k \in DOMAIN ids : ids[k] = n
      <4>1. i \in DOMAIN ids /\ ids[i] = done[i] BY <2>5, <2>6
      <4> QED BY <4>1, <3>2
    <3>3. ASSUME NEW i \in DOMAIN wait, wait[i] = n PROVE \E k \in DOMAIN ids : ids[k] = n
      <4>1. i + Len(done) \in DOMAIN ids /\ ids[i + Len(done)] = wait[i] BY <2>5, <2>6
      <4> QED BY <4>1, <3>3
    <3> QED BY <3>1, <3>2, <3>3
  <2>9. \A n \in DOMAIN received : received[n].datagram \in Datagrams
    <3> SUFFICES ASSUME NEW n \in DOMAIN received PROVE received[n].datagram \in Datagrams
      OBVIOUS
    <3>1. received \in Seq(Received) BY DEF ShredsTypes
    <3>2. received[n] \in Received BY <3>1
    <3> QED BY <3>2, Zenon DEF Received
  <2>10. \A n : (\E i \in DOMAIN ids : ids[i] = n) <=>
               n \in DOMAIN received /\ Accepts(received[n].datagram)
    <3>1. \A n : (\E i \in DOMAIN ids : ids[i] = n) <=>
                 \/ \E i \in DOMAIN handled : handled[i].id = n
                 \/ \E i \in DOMAIN packet_rx : packet_rx[i].id = n
      <4>1. \A n : (\E i \in DOMAIN done : done[i] = n)
                     <=> (\E i \in DOMAIN handled : handled[i].id = n)
        BY <2>1, <2>3
      <4>2. \A n : (\E i \in DOMAIN wait : wait[i] = n)
                     <=> (\E i \in DOMAIN packet_rx : packet_rx[i].id = n)
        BY <2>2, <2>3
      <4> HIDE DEF ArrivalInv
      <4> QED BY <4>1, <4>2, <2>8
    <3>2. \A n : (\E i \in DOMAIN ids : ids[i] = n) => n \in DOMAIN received
      BY <3>1 DEF WaitingInv, OrderInv
    <3>3. \A n \in DOMAIN received : Accepts(received[n].datagram) <=>
                 \/ \E i \in DOMAIN handled : handled[i].id = n
                 \/ \E i \in DOMAIN packet_rx : packet_rx[i].id = n
      BY DEF KeptInv
    <3> HIDE DEF ArrivalInv
    <3> QED BY <3>1, <3>2, <3>3
  <2>11. {ids[i] : i \in DOMAIN ids} \subseteq DOMAIN received
    BY <2>10
  <2>12. ASSUME NEW n \in DOMAIN received
         PROVE  LET d == received[n].datagram
                IN /\ ForUs(d) /\ Whole(d) => n \in {ids[i] : i \in DOMAIN ids}
                   /\ n \in {ids[i] : i \in DOMAIN ids}
                        => ForUs(d) /\ (Whole(d) \/ Beginning(d))
    <3>1. n \in {ids[i] : i \in DOMAIN ids} <=> Accepts(received[n].datagram)
      BY <2>10
    <3> QED BY <3>1, <2>9, AcceptsMeans, Zenon
  <2>13. ASSUME NEW i \in DOMAIN packet_rx
         PROVE  LET p == packet_rx[i].payload
                    d == received[packet_rx[i].id].datagram
                IN /\ p.from = d.ihl + 8
                   /\ p.to = IF d.total_len <= d.len THEN d.total_len ELSE d.len
    <3>1. /\ packet_rx[i].id \in DOMAIN received
          /\ packet_rx[i].payload = payload(received[packet_rx[i].id].datagram)
      BY DEF WaitingInv
    <3> QED BY <3>1, <2>9, AcceptsMeans
  <2> QED BY <2>7, <2>11, <2>12, <2>13 DEF DatagramsArriveWhole, ids, done, wait
<1> QED BY <1>1, ShredsArrival, PTL

-----------------------------------------------------------------------------
(* The funnel *)

\* The packets handled with one of the outcomes T.
Having(h, T) == {i \in DOMAIN h : h[i].outcome \in T}

ReachedInsert  == {o \in Outcomes : o.stage \in {"insert", "deshred", "done"}}
ReachedEnd     == {o \in Outcomes : o.stage \in {"done"}}
PanickedSome   == {o \in Outcomes : o.panics}
PanickedAtEnd  == {o \in Outcomes : o.panics /\ o.stage = "deshred"}

\* Each counter counts the packets it is about, and a transaction handed on
\* carries the stamp of the packet it was in.
FunnelInv ==
  /\ counts["packets"] = Len(handled)
  /\ counts["shreds"] = Cardinality(Having(handled, ReachedInsert))
  /\ counts["panics"] = Cardinality(Having(handled, PanickedSome))
  /\ counts["batches_ready"] - counts["deshred_errors"]
       = Cardinality(Having(handled, ReachedEnd)) + Cardinality(Having(handled, PanickedAtEnd))
  /\ counts["transactions"] = Len(seen)
  /\ \A i \in DOMAIN seen : /\ seen[i].id \in DOMAIN received
                            /\ seen[i].at = received[seen[i].id].at

\* One more packet handled is one more of each kind it is of.
LEMMA OneMoreHandled ==
  ASSUME NEW h \in Seq(Taken), NEW t \in Taken, NEW T
  PROVE  /\ Cardinality(Having(h, T)) \in Nat
         /\ Cardinality(Having(Append(h, t), T))
              = Cardinality(Having(h, T)) + (IF t.outcome \in T THEN 1 ELSE 0)
<1> DEFINE g == Append(h, t)
<1>1. /\ DOMAIN g = DOMAIN h \cup {Len(h) + 1} /\ Len(h) + 1 \notin DOMAIN h
      /\ g[Len(h) + 1] = t /\ \A i \in DOMAIN h : g[i] = h[i]
      /\ Len(h) \in Nat /\ DOMAIN h = 1 .. Len(h)
  BY PutLast
<1> HIDE DEF g
<1>2. IsFiniteSet(Having(h, T))
  <2>1. IsFiniteSet(1 .. Len(h)) BY <1>1, FS_Interval
  <2>2. Having(h, T) \subseteq 1 .. Len(h) BY <1>1 DEF Having
  <2> QED BY <2>1, <2>2, FS_Subset
<1>3. Cardinality(Having(h, T)) \in Nat BY <1>2, FS_CardinalityType
<1>4. CASE t.outcome \in T
  <2>1. Having(g, T) = Having(h, T) \cup {Len(h) + 1} BY <1>1, <1>4 DEF Having
  <2>2. Len(h) + 1 \notin Having(h, T) BY <1>1 DEF Having
  <2>3. Cardinality(Having(g, T)) = Cardinality(Having(h, T)) + 1
    BY <1>2, <2>1, <2>2, FS_AddElement
  <2> QED BY <2>3, <1>3, <1>4 DEF g
<1>5. CASE t.outcome \notin T
  <2>1. Having(g, T) = Having(h, T) BY <1>1, <1>5 DEF Having
  <2> QED BY <2>1, <1>3, <1>5 DEF g
<1> QED BY <1>4, <1>5

\* What a packet adds to the counters is what it adds to the sets they count.
LEMMA CountedRight ==
  ASSUME ShredsTypes, NEW o \in Outcomes
  PROVE  LET c == Counted(o)
             One(T) == IF o \in T THEN 1 ELSE 0
         IN /\ c["packets"] = counts["packets"] + 1
            /\ c["shreds"] = counts["shreds"] + One(ReachedInsert)
            /\ c["panics"] = counts["panics"] + One(PanickedSome)
            /\ c["batches_ready"] - c["deshred_errors"]
                 = counts["batches_ready"] - counts["deshred_errors"]
                     + One(ReachedEnd) + One(PanickedAtEnd)
            /\ c["transactions"] = counts["transactions"] + o.txs
<1> DEFINE c == Counted(o)
<1>1. DOMAIN counts = Fields /\ \A k \in Fields : counts[k] \in Nat BY DEF ShredsTypes
<1>2. /\ o.stage \in {"decode", "insert", "deshred", "done"} /\ o.panics \in BOOLEAN
      /\ o.entries \in Nat /\ o.txs \in Nat /\ (o.stage = "done" => o.panics = FALSE)
  BY OutcomeTypes
<1>3. \A k \in Fields :
        c[k] = counts[k] + IF k = "entries" THEN o.entries
                           ELSE IF k = "transactions" THEN o.txs
                           ELSE IF k \in Raised(o) THEN 1 ELSE 0
  BY <1>1 DEF Counted
<1> HIDE DEF c
<1>4. /\ c["packets"] = counts["packets"] + 1
      /\ c["transactions"] = counts["transactions"] + o.txs
  BY <1>3 DEF Fields, Raised
<1>5. /\ c["shreds"] = counts["shreds"] + IF o.stage # "decode" THEN 1 ELSE 0
      /\ c["batches_ready"] = counts["batches_ready"]
                                + IF o.stage \in {"deshred", "done"} THEN 1 ELSE 0
      /\ c["deshred_errors"] = counts["deshred_errors"]
                                 + IF o.stage = "deshred" /\ ~o.panics THEN 1 ELSE 0
      /\ c["panics"] = counts["panics"] + IF o.panics THEN 1 ELSE 0
  BY <1>3 DEF Fields, Raised
<1>6. /\ o \in ReachedInsert <=> o.stage # "decode"
      /\ o \in ReachedEnd <=> o.stage = "done"
      /\ o \in PanickedSome <=> o.panics
      /\ o \in PanickedAtEnd <=> o.panics /\ o.stage = "deshred"
  BY <1>2 DEF ReachedInsert, ReachedEnd, PanickedSome, PanickedAtEnd
<1>7. /\ counts["batches_ready"] \in Nat /\ counts["deshred_errors"] \in Nat
  BY <1>1 DEF Fields
<1>8. c["batches_ready"] - c["deshred_errors"]
        = counts["batches_ready"] - counts["deshred_errors"]
            + (IF o \in ReachedEnd THEN 1 ELSE 0) + (IF o \in PanickedAtEnd THEN 1 ELSE 0)
  BY <1>2, <1>5, <1>6, <1>7
<1> QED BY <1>4, <1>5, <1>6, <1>8 DEF c

LEMMA FunnelInit == Init => FunnelInv
<1> SUFFICES ASSUME Init PROVE FunnelInv OBVIOUS
<1>1. handled = <<>> /\ seen = <<>> BY DEF Init
<1>2. \A T : Having(handled, T) = {} BY <1>1 DEF Having
<1>3. Cardinality({}) = 0 BY FS_EmptySet
<1>4. /\ counts["packets"] = 0 /\ counts["shreds"] = 0 /\ counts["panics"] = 0
      /\ counts["batches_ready"] = 0 /\ counts["deshred_errors"] = 0
      /\ counts["transactions"] = 0
  BY DEF Init
<1>5. Len(handled) = 0 /\ Len(seen) = 0 /\ DOMAIN seen = {} BY <1>1
<1>6. \A T : Cardinality(Having(handled, T)) = 0 BY <1>2, <1>3
<1> QED BY <1>4, <1>5, <1>6 DEF FunnelInv

LEMMA OnPacketFunnel ==
  ASSUME ArrivalInv, FunnelInv, NEW o \in Outcomes, OnPacket(o)
  PROVE  FunnelInv'
<1> USE DEF ArrivalInv
<1> DEFINE packet == Head(packet_rx)
           taken == [id |-> packet.id, outcome |-> o]
           item == [id |-> packet.id, at |-> stamp(packet)]
           out == [i \in 1 .. o.txs |-> item]
<1>1. /\ packet_rx # <<>> /\ counts' = Counted(o) /\ seen' = seen \o out
      /\ handled' = Append(handled, taken) /\ received' = received
  BY DEF OnPacket
<1>2. packet = packet_rx[1] /\ packet \in Packet /\ 1 \in DOMAIN packet_rx
  BY <1>1, TakeFirst DEF ShredsTypes
<1>3. packet.id \in DOMAIN received /\ packet.at = received[packet.id].at
  BY <1>2 DEF WaitingInv
<1>4. taken \in Taken /\ taken.outcome = o BY <1>2 DEF Taken, Packet
<1>5. handled \in Seq(Taken) /\ Len(handled) \in Nat BY DEF ShredsTypes
<1>6. item \in [id : Nat, at : Nat] /\ item.id = packet.id /\ item.at = packet.at
  BY <1>2 DEF stamp, Packet
<1>7. o.txs \in Nat BY OutcomeTypes
<1> HIDE DEF taken, item
<1>8. out \in [1 .. o.txs -> [id : Nat, at : Nat]] BY <1>6
<1>9. \A i \in 1 .. o.txs : out[i] = item OBVIOUS
<1> HIDE DEF out
<1>10. out \in Seq([id : Nat, at : Nat]) /\ Len(out) = o.txs BY <1>7, <1>8, FunctionIsSeq
<1>11. /\ Len(seen') = Len(seen) + o.txs /\ DOMAIN seen' = 1 .. Len(seen) + o.txs
       /\ \A i \in DOMAIN seen' :
            seen'[i] = IF i <= Len(seen) THEN seen[i] ELSE out[i - Len(seen)]
       /\ Len(seen) \in Nat /\ DOMAIN seen = 1 .. Len(seen)
  <2>1. seen \in Seq([id : Nat, at : Nat]) BY DEF ShredsTypes
  <2>2. Len(seen) \in Nat /\ DOMAIN seen = 1 .. Len(seen) BY <2>1
  <2> HIDE DEF ArrivalInv
  <2>3. /\ Len(seen') = Len(seen) + Len(out)
        /\ \A i \in 1 .. Len(seen) + Len(out) :
             seen'[i] = IF i <= Len(seen) THEN seen[i] ELSE out[i - Len(seen)]
        /\ seen' \in Seq([id : Nat, at : Nat])
    BY <1>1, <1>10, <2>1, ConcatProperties
  <2>4. DOMAIN seen' = 1 .. Len(seen') BY <2>3
  <2> QED BY <1>10, <2>2, <2>3, <2>4
<1>12. \A i \in DOMAIN seen' : /\ seen'[i].id \in DOMAIN received'
                               /\ seen'[i].at = received'[seen'[i].id].at
  <2> SUFFICES ASSUME NEW i \in DOMAIN seen'
               PROVE  /\ seen'[i].id \in DOMAIN received
                      /\ seen'[i].at = received[seen'[i].id].at
    BY <1>1
  <2>1. CASE i <= Len(seen)
    <3>1. i \in DOMAIN seen /\ seen'[i] = seen[i] BY <2>1, <1>11
    <3> QED BY <3>1 DEF FunnelInv
  <2>2. CASE ~(i <= Len(seen))
    <3>1. seen'[i] = out[i - Len(seen)] /\ i - Len(seen) \in 1 .. o.txs
      BY <2>2, <1>7, <1>11
    <3>2. seen'[i] = item BY <3>1, <1>9
    <3> QED BY <3>2, <1>3, <1>6
  <2> QED BY <2>1, <2>2
<1>13. Len(handled') = Len(handled) + 1 BY <1>1, <1>4, <1>5, PutLast
<1>14. \A T : /\ Cardinality(Having(handled, T)) \in Nat
              /\ Cardinality(Having(handled', T))
                   = Cardinality(Having(handled, T)) + (IF o \in T THEN 1 ELSE 0)
  BY <1>1, <1>4, <1>5, OneMoreHandled
<1>15. /\ counts'["packets"] = Len(handled')
       /\ counts'["transactions"] = Len(seen')
       /\ counts'["shreds"] = Cardinality(Having(handled', ReachedInsert))
       /\ counts'["panics"] = Cardinality(Having(handled', PanickedSome))
  <2>1. /\ counts'["packets"] = counts["packets"] + 1
        /\ counts'["transactions"] = counts["transactions"] + o.txs
        /\ counts'["shreds"] = counts["shreds"] + (IF o \in ReachedInsert THEN 1 ELSE 0)
        /\ counts'["panics"] = counts["panics"] + (IF o \in PanickedSome THEN 1 ELSE 0)
    BY <1>1, CountedRight
  <2>2. /\ counts["packets"] = Len(handled) /\ counts["transactions"] = Len(seen)
        /\ counts["shreds"] = Cardinality(Having(handled, ReachedInsert))
        /\ counts["panics"] = Cardinality(Having(handled, PanickedSome))
    BY DEF FunnelInv
  <2> HIDE DEF ArrivalInv
  <2>3. counts'["packets"] = Len(handled') /\ counts'["transactions"] = Len(seen')
    BY <1>11, <1>13, <2>1, <2>2
  <2>4. /\ counts'["shreds"] = Cardinality(Having(handled', ReachedInsert))
        /\ counts'["panics"] = Cardinality(Having(handled', PanickedSome))
    BY <1>14, <2>1, <2>2
  <2> QED BY <2>3, <2>4
<1>16. counts'["batches_ready"] - counts'["deshred_errors"]
         = Cardinality(Having(handled', ReachedEnd)) + Cardinality(Having(handled', PanickedAtEnd))
  <2>1. counts'["batches_ready"] - counts'["deshred_errors"]
          = counts["batches_ready"] - counts["deshred_errors"]
              + (IF o \in ReachedEnd THEN 1 ELSE 0) + (IF o \in PanickedAtEnd THEN 1 ELSE 0)
    BY <1>1, CountedRight
  <2>2. counts["batches_ready"] - counts["deshred_errors"]
          = Cardinality(Having(handled, ReachedEnd)) + Cardinality(Having(handled, PanickedAtEnd))
    BY DEF FunnelInv
  <2> HIDE DEF ArrivalInv
  <2> QED BY <1>14, <2>1, <2>2
<1> QED BY <1>12, <1>15, <1>16 DEF FunnelInv, ReachedInsert, ReachedEnd, PanickedSome, PanickedAtEnd, Outcomes

LEMMA FunnelStep == ArrivalInv /\ FunnelInv /\ [Next]_vars => FunnelInv'
<1> SUFFICES ASSUME ArrivalInv, FunnelInv, [Next]_vars PROVE FunnelInv' OBVIOUS
<1>1. CASE TakePacket
  BY <1>1, OnPacketFunnel DEF TakePacket
<1>2. CASE \E d \in Datagrams : Recv(d)
  <2>1. PICK d \in Datagrams : Recv(d) BY <1>2
  <2>2. received' = Append(received, [datagram |-> d, at |-> now])
        /\ UNCHANGED <<counts, seen, handled>>
    BY <2>1 DEF Recv
  <2>3. [datagram |-> d, at |-> now] \in Received /\ received \in Seq(Received)
    BY DEF ArrivalInv, ShredsTypes, Received
  <2>4. /\ DOMAIN received \subseteq DOMAIN received'
        /\ \A i \in DOMAIN received : received'[i] = received[i]
    BY <2>2, <2>3, PutLast
  <2> QED BY <2>2, <2>4 DEF FunnelInv, Having, ReachedInsert, ReachedEnd, PanickedSome, PanickedAtEnd, Outcomes
<1>3. CASE UNCHANGED <<counts, seen, handled, received>>
  BY <1>3 DEF FunnelInv, Having, ReachedInsert, ReachedEnd, PanickedSome, PanickedAtEnd, Outcomes
<1>4. CASE Start \/ OpenFails \/ RecvFails \/ ProbePacket \/ ProbeEnds \/ Tick \/ UNCHANGED vars
  BY <1>3, <1>4 DEF Start, OpenFails, RecvFails, ProbePacket, ProbeEnds, Tick, vars
<1> QED BY <1>1, <1>2, <1>4 DEF Next

\* The funnel on the screen adds up whatever the decoder does with each packet,
\* and what comes out of it carries the stamp the packet got when it was read.
THEOREM ShredsFunnelAddsUp == Spec => []FunnelAddsUp
<1>1. ArrivalInv /\ FunnelInv => FunnelAddsUp
  <2> SUFFICES ASSUME ArrivalInv, FunnelInv PROVE FunnelAddsUp OBVIOUS
  <2>1. \A i \in DOMAIN handled : handled[i].outcome \in Outcomes
    <3>1. \A i \in DOMAIN handled : handled[i] \in Taken BY DEF ArrivalInv, ShredsTypes
    <3> QED BY <3>1 DEF Taken
  <2>2. \A i \in DOMAIN handled : handled[i].outcome.panics \in BOOLEAN
    BY <2>1, OutcomeTypes
  <2>3. /\ Having(handled, ReachedInsert)
             = {i \in DOMAIN handled : handled[i].outcome.stage \in {"insert", "deshred", "done"}}
        /\ Having(handled, ReachedEnd)
             = {i \in DOMAIN handled : handled[i].outcome.stage \in {"done"}}
    BY <2>1 DEF Having, ReachedInsert, ReachedEnd
  <2>4. Having(handled, PanickedSome) = {i \in DOMAIN handled : handled[i].outcome.panics}
    BY <2>1, <2>2 DEF Having, PanickedSome
  <2>5. Having(handled, PanickedAtEnd)
          = {i \in {k \in DOMAIN handled : handled[k].outcome.panics} :
               handled[i].outcome.stage = "deshred"}
    BY <2>1, <2>2 DEF Having, PanickedAtEnd
  <2> QED BY <2>3, <2>4, <2>5 DEF FunnelAddsUp, FunnelInv
<1> QED BY <1>1, FunnelInit, FunnelStep, ShredsArrival, PTL DEF Spec
=============================================================================
