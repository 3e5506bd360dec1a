-------------------------------- MODULE Race --------------------------------
(***************************************************************************)
(* The measurement (src/race.rs): the same transaction, delivered by       *)
(* several lanes, matched by signature on one clock.                       *)
(*                                                                         *)
(* A lane stamps a transaction when it receives it and puts it on an       *)
(* unbounded channel.  The shred lane has a channel of its own, all RPC    *)
(* lanes share the other; the main loop (src/main.rs, run_race) takes from *)
(* either, in whatever order select! picks, and calls observe.  A message  *)
(* may therefore be processed long after it was stamped, and two lanes'    *)
(* messages may be processed in the opposite order of their stamps.  On    *)
(* every tick the loop calls evict.                                        *)
(*                                                                         *)
(* Instants are ticks of one monotonic clock, signatures are model values. *)
(* A packet that yields several transactions is several messages with the  *)
(* same stamp.  The slot, which is only displayed, is left out.            *)
(***************************************************************************)
EXTENDS Integers, Sequences, FiniteSets, Functions

CONSTANTS
  Lanes,          \* names of the lanes
  Reference,      \* the lane the others are measured against
  ShredLane,      \* "doublezero", the lane fed by captured packets
  Sigs,           \* transaction signatures
  PENDING_TTL,    \* how long a signature is held (60 s in the code)
  Window,         \* how long a delta is held (--window)
  RECENT_KEPT,    \* length of the list of recent pairs (40 in the code)
  MaxTime,        \* bound: last instant of the clock
  MaxDeliveries   \* bound: messages delivered by all lanes together

ASSUME RaceAssumption ==
  /\ IsFiniteSet(Lanes) /\ IsFiniteSet(Sigs)
  /\ Reference \in Lanes /\ ShredLane \in Lanes
  /\ PENDING_TTL \in Nat /\ Window \in Nat
  /\ RECENT_KEPT \in Nat \ {0}
  /\ MaxTime \in Nat /\ MaxDeliveries \in Nat

VARIABLES
  now,        \* Instant::now()
  channel,    \* messages stamped and not yet processed, per channel
  pending,    \* signature -> [arrivals, paired, created], for those held
  deltas,     \* the window: <<[at, lane, lead], ...>>, oldest first
  recent,     \* the last RECENT_KEPT pairs, oldest first
  seen,       \* messages observed per lane
  matched,    \* pairs completed per lane
  \* History, read by no action except to bound the model:
  firstAt,    \* [signature -> [lane -> stamp of its first delivery]]
  delivered,  \* messages delivered so far
  evicted     \* signatures that have been evicted at least once

state   == <<pending, deltas, recent, seen, matched>>
history == <<firstAt, delivered, evicted>>
vars    == <<now, channel, state, history>>

Channels == {"packets", "seen"}
NoTime   == -1

\* run_race: packet_rx carries the shred lane, seen_rx every RPC lane.
ChannelOf(lane) == IF lane = ShredLane THEN "packets" ELSE "seen"

SeenTx == [lane : Lanes, sig : Sigs, at : Nat]

Init ==
  /\ now = 0
  /\ channel = [c \in Channels |-> <<>>]
  /\ pending = [s \in {} |-> <<>>]
  /\ deltas = <<>>
  /\ recent = <<>>
  /\ seen = [l \in Lanes |-> 0]
  /\ matched = [l \in Lanes |-> 0]
  /\ firstAt = [s \in Sigs |-> [l \in Lanes |-> NoTime]]
  /\ delivered = 0
  /\ evicted = {}

\* A lane receives a transaction, stamps it and sends it to the loop.  A lane
\* may deliver a transaction once, again, or never.
Deliver(lane, sig) ==
  /\ delivered < MaxDeliveries
  /\ channel' = [channel EXCEPT ![ChannelOf(lane)] =
                   Append(@, [lane |-> lane, sig |-> sig, at |-> now])]
  /\ firstAt' = IF firstAt[sig][lane] = NoTime
                  THEN [firstAt EXCEPT ![sig][lane] = now] ELSE firstAt
  /\ delivered' = delivered + 1
  /\ UNCHANGED <<now, state, evicted>>

\* The entry observe works on: the one held, or a new one.
EntryFor(m) ==
  IF m.sig \in DOMAIN pending
    THEN pending[m.sig]
    ELSE [arrivals |-> [l \in {} |-> 0], paired |-> {}, created |-> m.at]

\* Mutant: the last arrival on a lane wins.
ArrivedLast(entry, m) ==
  [l \in DOMAIN entry.arrivals \cup {m.lane} |->
     IF l = m.lane THEN m.at ELSE entry.arrivals[l]]

\* The first arrival on a lane wins.
Arrived(entry, m) ==
  [l \in DOMAIN entry.arrivals \cup {m.lane} |->
     IF l \in DOMAIN entry.arrivals THEN entry.arrivals[l] ELSE m.at]

\* Mutant: a lane that was paired already is paired again.
ReadyAgain(entry, arrivals) ==
  IF Reference \in DOMAIN arrivals THEN DOMAIN arrivals \ {Reference} ELSE {}

\* Mutant: an entry is paired once, with whoever is there.
ReadyOnce(entry, arrivals) ==
  IF Reference \in DOMAIN arrivals /\ entry.paired = {}
    THEN DOMAIN arrivals \ {Reference} ELSE {}

\* The lanes that can now be paired with the reference and were not before.
Ready(entry, arrivals) ==
  IF Reference \in DOMAIN arrivals
    THEN DOMAIN arrivals \ (entry.paired \cup {Reference})
    ELSE {}

\* Signed distance from the reference's arrival to the other lane's.
lead_ms(reference, other) == other - reference

\* A HashMap is iterated in any order.
Orders(S) == Injection(1 .. Cardinality(S), S)

\* Mutant: a delta is filed under the stamp of the message that completed it.
DeltaStampArrival(m) == m.at

\* The instant a delta is filed under: when the pair was completed.
DeltaStamp(m) == now

\* The pairs a message completes, as entries of the window and of the list
\* of recent pairs.
NewDeltas(m, arrivals, order) ==
  [i \in DOMAIN order |->
     [at   |-> DeltaStamp(m),
      lane |-> order[i],
      lead |-> lead_ms(arrivals[Reference], arrivals[order[i]])]]

NewPairs(m, arrivals, order) ==
  [i \in DOMAIN order |->
     [sig  |-> m.sig,
      lane |-> order[i],
      lead |-> lead_ms(arrivals[Reference], arrivals[order[i]])]]

\* Mutant: the list is never trimmed.
KeepAll(list) == list

\* The last RECENT_KEPT elements of a list.
KeepLast(list) ==
  IF Len(list) > RECENT_KEPT
    THEN SubSeq(list, Len(list) - RECENT_KEPT + 1, Len(list)) ELSE list

\* observe, called by the loop on the oldest message of a channel.
Observe(c) ==
  /\ channel[c] # <<>>
  /\ LET m        == Head(channel[c])
         entry    == EntryFor(m)
         arrivals == Arrived(entry, m)
         ready    == Ready(entry, arrivals)
     IN \E order \in Orders(ready) :
          /\ seen' = [seen EXCEPT ![m.lane] = @ + 1]
          /\ pending' = [s \in DOMAIN pending \cup {m.sig} |->
                           IF s = m.sig
                             THEN [arrivals |-> arrivals,
                                   paired   |-> entry.paired \cup ready,
                                   created  |-> entry.created]
                             ELSE pending[s]]
          /\ matched' = [l \in Lanes |-> IF l \in ready THEN matched[l] + 1
                                                        ELSE matched[l]]
          /\ deltas' = deltas \o NewDeltas(m, arrivals, order)
          /\ recent' = KeepLast(recent \o NewPairs(m, arrivals, order))
  /\ channel' = [channel EXCEPT ![c] = Tail(@)]
  /\ UNCHANGED <<now, history>>

\* evict keeps the entries younger than PENDING_TTL ...
Held(s) == now - pending[s].created < PENDING_TTL

\* ... and drops deltas from the front, up to the first one in the window.
InWindow(d) == now - d.at <= Window
DropExpired(list) ==
  LET live == {i \in DOMAIN list : InWindow(list[i])}
  IN IF live = {} THEN <<>>
     ELSE SubSeq(list, CHOOSE i \in live : \A j \in live : i <= j, Len(list))

Evict ==
  LET kept == {s \in DOMAIN pending : Held(s)}
  IN /\ pending' = [s \in kept |-> pending[s]]
     /\ deltas' = DropExpired(deltas)
     /\ evicted' = evicted \cup (DOMAIN pending \ kept)
     /\ UNCHANGED <<now, channel, recent, seen, matched, firstAt, delivered>>

Tick ==
  /\ now < MaxTime
  /\ now' = now + 1
  /\ UNCHANGED <<channel, state, history>>

Next ==
  \/ \E l \in Lanes, s \in Sigs : Deliver(l, s)
  \/ \E c \in Channels : Observe(c)
  \/ Evict
  \/ Tick

Spec == Init /\ [][Next]_vars

-----------------------------------------------------------------------------
(* Properties *)

\* The signatures `by` has delivered and `lane` has not been paired on.
Unspent(lane, by) ==
  {s \in DOMAIN pending : /\ by \in DOMAIN pending[s].arrivals
                          /\ lane \notin pending[s].paired}

\* The strengthening from which CreditWithinDelivered follows: a message is
\* spent by at most one pair of each lane, and the messages behind an entry
\* that is not paired yet are still unspent.
CreditInv ==
  /\ matched[Reference] = 0
  /\ \A l \in Lanes \ {Reference} :
       /\ matched[l] + Cardinality(Unspent(l, l)) <= seen[l]
       /\ matched[l] + Cardinality(Unspent(l, Reference)) <= seen[Reference]

\* Every variable holds a value of its type; an entry has at least one
\* arrival, and nothing is stamped in the future.
TypeOK ==
  /\ now \in Nat
  /\ channel \in [Channels -> Seq(SeenTx)]
  /\ \A c \in Channels : \A i \in DOMAIN channel[c] : channel[c][i].at <= now
  /\ DOMAIN pending \subseteq Sigs
  /\ \A s \in DOMAIN pending :
       /\ DOMAIN pending[s].arrivals \in (SUBSET Lanes) \ {{}}
       /\ \A l \in DOMAIN pending[s].arrivals : pending[s].arrivals[l] \in 0 .. now
       /\ pending[s].paired \in SUBSET Lanes
       /\ pending[s].created \in 0 .. now
  /\ deltas \in Seq([at : Nat, lane : Lanes \ {Reference}, lead : Int])
  /\ recent \in Seq([sig : Sigs, lane : Lanes \ {Reference}, lead : Int])
  /\ Len(recent) <= RECENT_KEPT
  /\ seen \in [Lanes -> Nat]
  /\ matched \in [Lanes -> Nat]

\* A lane is credited only with what it delivered, and only against what the
\* reference delivered: pairs never outnumber the messages observed on either
\* side, whatever is repeated, evicted or processed late.
CreditWithinDelivered ==
  \A l \in Lanes : matched[l] <= seen[l] /\ matched[l] <= seen[Reference]

\* A pair is completed as soon as both sides have arrived, whichever came
\* last: an entry that has the reference leaves no arrived lane unpaired, and
\* one that has not has paired nobody.
NoPairForgotten ==
  \A s \in DOMAIN pending :
    pending[s].paired = IF Reference \in DOMAIN pending[s].arrivals
                          THEN DOMAIN pending[s].arrivals \ {Reference} ELSE {}

\* The window is filed in order of time, which is what lets evict stop at the
\* first delta that is still in it.
WindowOrdered ==
  /\ \A i, j \in DOMAIN deltas : i <= j => deltas[i].at <= deltas[j].at
  /\ \A i \in DOMAIN deltas : deltas[i].at <= now

\* After evict no delta older than the window contributes to the numbers.
EvictClearsWindow ==
  [][Evict => \A i \in DOMAIN deltas' : now - deltas'[i].at <= Window]_vars

\* The lead reported for a pair is the distance between the two lanes' first
\* deliveries of that transaction, as stamped on receipt: neither the order
\* in which the loop drains the channels nor a repeated copy moves it, as long
\* as the signature was never evicted.
LeadIsTrueLead ==
  \A i \in DOMAIN recent :
    recent[i].sig \notin evicted =>
      LET at == firstAt[recent[i].sig]
      IN recent[i].lead = at[recent[i].lane] - at[Reference]
=============================================================================
