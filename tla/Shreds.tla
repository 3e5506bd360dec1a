------------------------------- MODULE Shreds -------------------------------
(***************************************************************************)
(* From the tunnel interface to transactions: the capture thread           *)
(* (src/capture.rs), the channel it fills, and the two programs that empty *)
(* it, the race through the decoding pipeline (src/pipeline.rs) and the    *)
(* probe (src/main.rs).                                                    *)
(*                                                                         *)
(* A datagram is what parse_udp looks at: the bytes read, and the fields   *)
(* of its IPv4 and UDP headers.  A payload is the range of bytes taken.    *)
(* The decoder is the SDK's (external): it may find no shred, wait for     *)
(* more, fail, return entries, or panic at any of its three stages.        *)
(* A recv that is interrupted changes nothing and is not an action.        *)
(***************************************************************************)
EXTENDS Integers, Sequences, FiniteSets

CONSTANTS
  Datagrams,     \* what may cross the interface
  run_for,       \* how long a probe runs
  MaxPackets,    \* bound: datagrams read
  MaxTime        \* bound: last instant of the clock

ASSUME ShredsAssumption ==
  /\ \A d \in Datagrams :
       d.len \in Nat /\ d.ihl \in Nat /\ d.total_len \in Nat /\ d.offset \in Nat
  /\ run_for \in Nat /\ MaxPackets \in Nat
  /\ MaxTime \in Nat /\ run_for <= MaxTime

VARIABLES
  command,       \* "race" or "probe"
  main,          \* the main task: "starting", "running", "ended" or "failed"
  capture,       \* the capture thread: "none", "reading" or "stopped"
  packet_rx,     \* packets captured and not taken yet
  counts,        \* PipelineCounts
  seen,          \* the transactions handed to the race, in order
  probe,         \* what the probe has counted
  now,
  received,      \* history: what recv returned, and when
  handled        \* history: packets the race has taken

vars == <<command, main, capture, packet_rx, counts, seen, probe, now, received, handled>>

Init ==
  /\ command \in {"race", "probe"}
  /\ main = "starting" /\ capture = "none"
  /\ packet_rx = <<>>
  /\ counts = [packets |-> 0, shreds |-> 0, batches_ready |-> 0, deshred_errors |-> 0,
               entries |-> 0, transactions |-> 0, panics |-> 0]
  /\ seen = <<>>
  /\ probe = [packets |-> 0, bytes |-> 0, deadline |-> 0]
  /\ now = 0 /\ received = <<>> /\ handled = <<>>

\* capture::spawn: the socket opens and the thread starts reading.
Start ==
  /\ main = "starting" /\ now + run_for <= MaxTime
  /\ main' = "running" /\ capture' = "reading"
  /\ probe' = [probe EXCEPT !.deadline = now + run_for]
  /\ UNCHANGED <<command, packet_rx, counts, seen, now, received, handled>>

\* open_af_packet fails, and the program with it.
OpenFails ==
  /\ main = "starting"
  /\ main' = "failed"
  /\ UNCHANGED <<command, capture, packet_rx, counts, seen, probe, now, received, handled>>

Least(a, b) == IF a <= b THEN a ELSE b

\* Mutant: the whole read is the datagram.
end_Read(d) == d.len

\* Where the datagram ends: where its own header says, if that much was read.
end(d) == Least(d.total_len, d.len)

\* Mutant: an empty payload is refused.
Accepts_Nonempty(d) ==
  /\ d.len >= 20 /\ d.version = 4 /\ d.udp
  /\ d.offset = 0 /\ d.to_group
  /\ d.ihl >= 20 /\ d.len >= d.ihl + 8
  /\ end(d) > d.ihl + 8
  /\ d.port

\* The tests of parse_udp, in order.
Accepts(d) ==
  /\ d.len >= 20 /\ d.version = 4 /\ d.udp
  /\ d.offset = 0 /\ d.to_group
  /\ d.ihl >= 20 /\ d.len >= d.ihl + 8
  /\ end(d) >= d.ihl + 8
  /\ d.port

payload(d) == [from |-> d.ihl + 8, to |-> end(d)]

\* recv returns a datagram; one that parse_udp wants is stamped and sent on,
\* and a channel nobody listens to any more ends the thread.
Recv(d) ==
  /\ capture = "reading" /\ Len(received) < MaxPackets
  /\ received' = Append(received, [datagram |-> d, at |-> now])
  /\ IF ~Accepts(d) THEN UNCHANGED <<capture, packet_rx>>
     ELSE IF main = "running"
       THEN /\ packet_rx' = Append(packet_rx, [payload |-> payload(d), at |-> now,
                                               id |-> Len(received')])
            /\ UNCHANGED capture
       ELSE capture' = "stopped" /\ UNCHANGED packet_rx
  /\ UNCHANGED <<command, main, counts, seen, probe, now, handled>>

\* recv fails: the thread logs it and returns.  Its end of the channel closes;
\* the race's loop goes on with its other branches.
RecvFails ==
  /\ capture = "reading"
  /\ capture' = "stopped"
  /\ UNCHANGED <<command, main, packet_rx, counts, seen, probe, now, received, handled>>

-----------------------------------------------------------------------------
(* ShredPipeline::on_packet *)

\* How far the decoding of a packet gets (external), and what it returns.
Outcomes ==
  [stage : {"decode", "insert", "deshred"}, panics : BOOLEAN, entries : {0}, txs : {0}]
    \cup [stage : {"done"}, panics : {FALSE}, entries : {1, 2}, txs : {0, 2}]

\* The counters a packet raises by one: decode_packet counts as it goes, and a
\* panic is counted on top, by its catcher.
Raised(o) ==
  {"packets"} \cup (IF o.stage # "decode" THEN {"shreds"} ELSE {})
              \cup (IF o.stage \in {"deshred", "done"} THEN {"batches_ready"} ELSE {})
              \cup (IF o.stage = "deshred" /\ ~o.panics THEN {"deshred_errors"} ELSE {})
              \cup (IF o.panics THEN {"panics"} ELSE {})

\* Mutant: what a panicking packet had counted is lost with it.
Counted_Unwound(o) ==
  [k \in DOMAIN counts |->
     counts[k] + IF k = "entries" THEN o.entries
                 ELSE IF k = "transactions" THEN o.txs
                 ELSE IF k \in Raised(o) /\ (o.panics => k = "panics") THEN 1 ELSE 0]

Counted(o) ==
  [k \in DOMAIN counts |->
     counts[k] + IF k = "entries" THEN o.entries
                 ELSE IF k = "transactions" THEN o.txs
                 ELSE IF k \in Raised(o) THEN 1 ELSE 0]

\* Mutant: a transaction is stamped when it has been decoded.
stamp_Decoded(packet) == now

\* The arrival time is the packet's, not the time the work was done.
stamp(packet) == packet.at

\* Mutant: a panic takes the loop with it.
AfterPacket_Dies(o) == IF o.panics THEN "failed" ELSE "running"

\* catch_unwind: the loop goes on.
AfterPacket(o) == "running"

\* The race's loop takes a packet, decodes it and observes what it holds.
OnPacket(o) ==
  /\ command = "race" /\ main = "running" /\ packet_rx # <<>>
  /\ LET packet == Head(packet_rx)
     IN /\ counts' = Counted(o)
        /\ seen' = seen \o [i \in 1 .. o.txs |-> [id |-> packet.id, at |-> stamp(packet)]]
        /\ handled' = Append(handled, [id |-> packet.id, outcome |-> o])
  /\ packet_rx' = Tail(packet_rx)
  /\ main' = AfterPacket(o)
  /\ UNCHANGED <<command, capture, probe, now, received>>

-----------------------------------------------------------------------------
(* probe *)

Probing == command = "probe" /\ main = "running"

\* The probe counts a packet, as long as there is time left.
ProbePacket ==
  /\ Probing /\ now < probe.deadline /\ packet_rx # <<>>
  /\ LET p == Head(packet_rx).payload
     IN probe' = [probe EXCEPT !.packets = @ + 1, !.bytes = @ + (p.to - p.from)]
  /\ packet_rx' = Tail(packet_rx)
  /\ UNCHANGED <<command, main, capture, counts, seen, now, received, handled>>

\* Mutant: the probe waits for a packet however long that takes.
ProbeEnds_Waits ==
  /\ Probing
  /\ (now >= probe.deadline /\ packet_rx # <<>>) \/ (capture = "stopped" /\ packet_rx = <<>>)
  /\ main' = "ended" /\ packet_rx' = <<>>
  /\ UNCHANGED <<command, capture, counts, seen, probe, now, received, handled>>

\* The deadline has passed, also while waiting, or the channel is closed and
\* empty: the probe reports and its end of the channel goes.
ProbeEnds ==
  /\ Probing
  /\ now >= probe.deadline \/ (capture = "stopped" /\ packet_rx = <<>>)
  /\ main' = "ended" /\ packet_rx' = <<>>
  /\ UNCHANGED <<command, capture, counts, seen, probe, now, received, handled>>

Tick ==
  /\ now < MaxTime
  /\ now' = now + 1
  /\ UNCHANGED <<command, main, capture, packet_rx, counts, seen, probe, received, handled>>

TakePacket == \E o \in Outcomes : OnPacket(o)

Next ==
  \/ Start
  \/ OpenFails
  \/ \E d \in Datagrams : Recv(d)
  \/ RecvFails
  \/ TakePacket
  \/ ProbePacket
  \/ ProbeEnds
  \/ Tick

\* The runtime runs a task whose channel or timer is ready, and time passes.
\* Nothing is assumed of the interface: it may never carry a datagram.
Fairness == WF_vars(TakePacket) /\ WF_vars(ProbeEnds) /\ WF_vars(Tick)

Spec == Init /\ [][Next]_vars /\ Fairness

-----------------------------------------------------------------------------
(* Properties *)

\* Meant for the race: IPv4 and UDP, to the group and to a port of the filter.
ForUs(d) == d.version = 4 /\ d.udp /\ d.to_group /\ d.port

\* All of a datagram in one read: no fragment of one, and everything its header
\* says it holds, both headers included.
Whole(d) ==
  /\ d.offset = 0 /\ ~d.more
  /\ d.ihl >= 20 /\ d.ihl + 8 <= d.total_len /\ d.total_len <= d.len

\* The start of a datagram and not all of it: the first fragment of one, or a
\* read that was cut, with both headers inside what was read.
Beginning(d) ==
  /\ d.offset = 0 /\ (d.more \/ d.len < d.total_len)
  /\ d.ihl >= 20 /\ d.ihl + 8 <= d.total_len /\ d.ihl + 8 <= d.len

\* Whole datagrams of the feed arrive whole: each one read while the race runs
\* has been handled or waits, once, in the order of the reads, and its payload
\* runs from after its headers to exactly where it says it ends, padding left
\* out.  Nothing of another sender, port or protocol comes with them, and no
\* later fragment.  What the property does not exclude, because parse_udp does
\* not: the first fragment of a datagram and a read that was cut are passed on
\* too, as far as they were read, though the comment at src/capture.rs:65-67
\* says of fragments that "dropping is right".
DatagramsArriveWhole ==
  command = "race" /\ main = "running" =>
    LET ids == [i \in DOMAIN handled |-> handled[i].id]
                 \o [i \in DOMAIN packet_rx |-> packet_rx[i].id]
        arrived == {ids[i] : i \in DOMAIN ids}
    IN /\ arrived \subseteq DOMAIN received
       /\ \A n \in DOMAIN received :
            LET d == received[n].datagram
            IN /\ ForUs(d) /\ Whole(d) => n \in arrived
               /\ n \in arrived => ForUs(d) /\ (Whole(d) \/ Beginning(d))
       /\ \A i, j \in DOMAIN ids : i < j => ids[i] < ids[j]
       /\ \A i \in DOMAIN packet_rx :
            LET p == packet_rx[i].payload
                d == received[packet_rx[i].id].datagram
            IN /\ p.from = d.ihl + 8
               /\ p.to = IF d.total_len <= d.len THEN d.total_len ELSE d.len

\* The funnel on the screen adds up whatever panics on the way: every packet
\* taken is counted once, each stage counts the packets that reached it, and
\* what reached the last stage is decoded, refused or panicked there.  What
\* comes out is stamped with the moment its packet left the kernel, however
\* long the packet waited: the feed is not charged for our work.
FunnelAddsUp ==
  LET With(stages) == Cardinality({i \in DOMAIN handled :
                                     handled[i].outcome.stage \in stages})
      Panicked     == {i \in DOMAIN handled : handled[i].outcome.panics}
  IN /\ counts.packets = Len(handled)
     /\ counts.shreds = With({"insert", "deshred", "done"})
     /\ counts.panics = Cardinality(Panicked)
     /\ counts.batches_ready - counts.deshred_errors
          = With({"done"}) + Cardinality({i \in Panicked : handled[i].outcome.stage = "deshred"})
     /\ counts.transactions = Len(seen)
     /\ \A i \in DOMAIN seen : seen[i].at = received[seen[i].id].at

\* A packet that makes the decoder panic does not stop the ones behind it:
\* everything captured is eventually handled.
EveryPacketIsHandled ==
  command = "race" /\ packet_rx # <<>> ~> Len(handled) > 0 /\ packet_rx = <<>>

\* A probe ends, also when no packet ever comes.
ProbeFinishes == Probing ~> main = "ended"
=============================================================================
