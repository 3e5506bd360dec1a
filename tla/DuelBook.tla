------------------------------ MODULE DuelBook ------------------------------
(***************************************************************************)
(* One event as found by each lane (src/bot/duel.rs): who was told first,  *)
(* by how much, and what the wait cost.  An event is a transaction and a   *)
(* pool it touched.  The fields that are only shown are left out; a view   *)
(* also remembers when it was taken, for the properties (seen_at).         *)
(***************************************************************************)
EXTENDS Integers, Sequences, FiniteSets, Functions

CONSTANT DuelTTL     \* how long an event is kept (600 s in the code)

ASSUME DuelAssumption == DuelTTL \in Nat

VARIABLES
  entries,           \* event -> [times, views, created, first, head_start, gap_lost]
  order              \* the events in the order they were first reported

duels == <<entries, order>>

Unset == "unset"

DuelInit == entries = [k \in {} |-> 0] /\ order = <<>>

NewEntry(found) ==
  [times |-> [l \in {} |-> 0], views |-> <<>>, created |-> found.decided_at,
   first |-> Unset, head_start |-> Unset, gap_lost |-> Unset]

gap_of(views, lane) ==
  LET i == CHOOSE j \in DOMAIN views : views[j].lane = lane IN views[i].gap_bps

\* The two lanes that were told first, in order of time; the iteration order
\* of a HashMap breaks ties.
FirstTwo(times) ==
  {two \in (DOMAIN times) \X (DOMAIN times) :
     /\ two[1] # two[2] /\ times[two[1]] <= times[two[2]]
     /\ \A c \in DOMAIN times \ {two[1], two[2]} : times[two[2]] <= times[c]}

\* Mutant: the head start goes to the lane that reported first.
settle_ByReport(entry) ==
  IF Cardinality(DOMAIN entry.times) < 2 THEN {entry}
  ELSE LET a == entry.views[1].lane
           b == entry.views[2].lane
       IN {[entry EXCEPT !.first = a, !.head_start = entry.times[b] - entry.times[a],
                         !.gap_lost = gap_of(entry.views, a) - gap_of(entry.views, b)]}

\* Entry::settle: the outcomes it may have.
settle(entry) ==
  IF Cardinality(DOMAIN entry.times) < 2 THEN {entry}
  ELSE {[entry EXCEPT
           !.first      = two[1],
           !.head_start = entry.times[two[2]] - entry.times[two[1]],
           !.gap_lost   = gap_of(entry.views, two[1]) - gap_of(entry.views, two[2])] :
        two \in FirstTwo(entry.times)}

\* Mutant: an event is timed by when this process looked.
TimedBy_Look(found) == found.looked_at

\* An event is timed by when the feed delivered it.
TimedBy(found) == found.decided_at

\* The entry after a lane's first report of the event.
Reported(entry, lane, found) ==
  [entry EXCEPT
     !.times = [l \in DOMAIN @ \cup {lane} |-> IF l = lane THEN TimedBy(found) ELSE @[l]],
     !.views = Append(@, [lane |-> lane, gap_bps |-> found.gap_bps,
                          tradeable |-> found.tradeable, seen_at |-> found.seen_at])]

\* DuelBook::record.  The first report of a lane wins.
record_duel(lane, found) ==
  LET key   == <<found.sig, found.pool>>
      entry == IF key \in DOMAIN entries THEN entries[key] ELSE NewEntry(found)
      Put(new) == entries' = [k \in DOMAIN entries \cup {key} |->
                                IF k = key THEN new ELSE entries[k]]
  IN /\ order' = IF key \in DOMAIN entries THEN order ELSE Append(order, key)
     /\ \/ /\ lane \in DOMAIN entry.times
           /\ Put(entry)
        \/ /\ lane \notin DOMAIN entry.times
           /\ \E new \in settle(Reported(entry, lane, found)) : Put(new)

\* Vec::retain on the tape: the events that are kept, in order.
OrderKept(kept) ==
  LET retain[i \in 0 .. Len(order)] ==
        IF i = 0 THEN <<>>
        ELSE IF order[i] \in kept THEN Append(retain[i - 1], order[i])
                                  ELSE retain[i - 1]
  IN retain[Len(order)]

\* DuelBook::evict.
evict_duels(now) ==
  LET kept == {k \in DOMAIN entries : now - entries[k].created < DuelTTL}
  IN /\ entries' = Restrict(entries, kept)
     /\ order' = OrderKept(kept)

wins(lane) == Cardinality({k \in DOMAIN entries : entries[k].first = lane})
paired     == Cardinality({k \in DOMAIN entries : Cardinality(DOMAIN entries[k].times) >= 2})

-----------------------------------------------------------------------------
(* Properties *)

\* An entry is scored exactly when two lanes have reported it: the winner was
\* told no later than any other lane, by the head start shown, and a lane that
\* missed an event is never scored on it.
EntryScored(e) ==
  /\ {e.views[i].lane : i \in DOMAIN e.views} = DOMAIN e.times
  /\ Len(e.views) = Cardinality(DOMAIN e.times)
  /\ (e.first = Unset) = (Len(e.views) < 2)
  /\ e.first # Unset =>
       /\ \A l \in DOMAIN e.times : e.times[e.first] <= e.times[l]
       /\ e.head_start >= 0
       /\ \E l \in DOMAIN e.times \ {e.first} :
            e.times[l] = e.times[e.first] + e.head_start

\* Every entry the duel book holds is scored so.
EntriesScored == \A k \in DOMAIN entries : EntryScored(entries[k])

\* The tape and the map agree, every event is scored as its reports say, and
\* the wins shown for the lanes add up to the events paired.
DuelsCoherent ==
  /\ IsInjective(order) /\ {order[i] : i \in DOMAIN order} = DOMAIN entries
  /\ LET winners == {entries[k].first : k \in DOMAIN entries} \ {Unset}
     IN paired = SumFunction([l \in winners |-> wins(l)])
  /\ EntriesScored
=============================================================================
