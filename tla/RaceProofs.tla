----------------------------- MODULE RaceProofs -----------------------------
(***************************************************************************)
(* Proofs about Race, for every set of lanes and signatures, every         *)
(* reference lane and every choice of the time constants.                  *)
(***************************************************************************)
EXTENDS RaceSnapshot, DataProofs

DeltaType == [at : Nat, lane : Lanes \ {Reference}, lead : Int]
PairType  == [sig : Sigs, lane : Lanes \ {Reference}, lead : Int]

\* Taking a suffix keeps a list's type and the order of its stamps.
LEMMA SuffixProperties ==
  ASSUME NEW S, NEW list \in Seq(S), NEW k \in 1 .. Len(list)
  PROVE  LET t == SubSeq(list, k, Len(list))
         IN /\ t \in Seq(S)
            /\ Len(t) = Len(list) - k + 1
            /\ \A i \in 1 .. Len(t) : t[i] = list[k + i - 1]
BY SubSeqProperties

\* The stamp of a delta is an instant.
LEMMA DeltaAt ==
  ASSUME NEW list \in Seq(DeltaType)
  PROVE  \A i \in 1 .. Len(list) : list[i].at \in Nat
<1>1. \A i \in 1 .. Len(list) : list[i] \in DeltaType
  OBVIOUS
<1> QED BY <1>1 DEF DeltaType

\* What observe computes from the oldest message of a channel: the entry, the
\* arrivals and the lanes to pair all stay within their types.
LEMMA ObserveTypes ==
  ASSUME TypeOK, NEW c \in Channels, channel[c] # <<>>
  PROVE  LET m        == Head(channel[c])
             entry    == EntryFor(m)
             arrivals == Arrived(entry, m)
             ready    == Ready(entry, arrivals)
         IN /\ m \in SeenTx /\ m.at <= now
            /\ entry.created \in 0 .. now
            /\ entry.paired \in SUBSET Lanes
            /\ DOMAIN entry.arrivals \subseteq Lanes
            /\ m.lane \in DOMAIN arrivals
            /\ DOMAIN arrivals = DOMAIN entry.arrivals \cup {m.lane}
            /\ DOMAIN arrivals \subseteq Lanes
            /\ \A l \in DOMAIN arrivals : arrivals[l] \in 0 .. now
            /\ ready \subseteq DOMAIN arrivals \ {Reference}
            /\ ready # {} => Reference \in DOMAIN arrivals
            /\ IsFiniteSet(ready) /\ Cardinality(ready) \in Nat
<1> DEFINE m        == Head(channel[c])
           entry    == EntryFor(m)
           arrivals == Arrived(entry, m)
           ready    == Ready(entry, arrivals)
<1>1. m \in SeenTx /\ m.at <= now
  <2>1. channel[c] \in Seq(SeenTx)
    BY DEF TypeOK
  <2>2. m = channel[c][1] /\ 1 \in DOMAIN channel[c]
    BY <2>1
  <2> QED BY <2>1, <2>2 DEF TypeOK
<1>2. /\ entry.created \in 0 .. now
      /\ entry.paired \in SUBSET Lanes
      /\ DOMAIN entry.arrivals \subseteq Lanes
      /\ \A l \in DOMAIN entry.arrivals : entry.arrivals[l] \in 0 .. now
  <2>1. CASE m.sig \in DOMAIN pending
    BY <2>1 DEF EntryFor, TypeOK
  <2>2. CASE m.sig \notin DOMAIN pending
    BY <1>1, <2>2 DEF EntryFor, TypeOK, SeenTx
  <2> QED BY <2>1, <2>2
<1>3. /\ DOMAIN arrivals = DOMAIN entry.arrivals \cup {m.lane}
      /\ \A l \in DOMAIN arrivals : arrivals[l] \in 0 .. now
  <2> HIDE DEF entry, m
  <2> QED BY <1>1, <1>2 DEF Arrived, SeenTx, TypeOK
<1>4. m.lane \in Lanes
  BY <1>1 DEF SeenTx
<1>5. /\ ready \subseteq DOMAIN arrivals \ {Reference}
      /\ ready # {} => Reference \in DOMAIN arrivals
  <2> HIDE DEF entry, arrivals
  <2> QED BY DEF Ready
<1>6. IsFiniteSet(ready) /\ Cardinality(ready) \in Nat
  <2> HIDE DEF ready, arrivals, entry
  <2>1. ready \in SUBSET Lanes
    BY <1>2, <1>3, <1>4, <1>5
  <2> QED BY <2>1, FS_Subset, FS_CardinalityType, RaceAssumption
<1> QED BY <1>1, <1>2, <1>3, <1>4, <1>5, <1>6

\* The rows a completed set of pairs adds are well typed, one per lane paired,
\* and every delta among them is stamped with the current instant.
LEMMA NewRows ==
  ASSUME TypeOK, NEW m \in SeenTx, NEW arrivals,
         \A l \in DOMAIN arrivals : arrivals[l] \in 0 .. now,
         NEW ready, ready \subseteq (Lanes \cap DOMAIN arrivals) \ {Reference},
         ready # {} => Reference \in DOMAIN arrivals,
         Cardinality(ready) \in Nat,
         NEW order \in Orders(ready)
  PROVE  LET d == NewDeltas(m, arrivals, order)
             p == NewPairs(m, arrivals, order)
         IN /\ d \in Seq(DeltaType) /\ p \in Seq(PairType)
            /\ \A i \in 1 .. Len(d) : d[i].at = now
<1> DEFINE n == Cardinality(ready)
           d == NewDeltas(m, arrivals, order)
           p == NewPairs(m, arrivals, order)
<1>1. order \in [1 .. n -> ready]
  BY DEF Orders, Injection
<1> HIDE DEF n
<1>2. \A i \in 1 .. n : /\ order[i] \in Lanes \ {Reference}
                        /\ arrivals[order[i]] - arrivals[Reference] \in Int
  <2> SUFFICES ASSUME NEW i \in 1 .. n
               PROVE  /\ order[i] \in Lanes \ {Reference}
                      /\ arrivals[order[i]] - arrivals[Reference] \in Int
    OBVIOUS
  <2>1. order[i] \in ready
    BY <1>1
  <2>2. Reference \in DOMAIN arrivals /\ order[i] \in DOMAIN arrivals
    BY <2>1
  <2>3. arrivals[order[i]] \in Int /\ arrivals[Reference] \in Int
    BY <2>2 DEF TypeOK
  <2> QED BY <2>1, <2>3
<1>3. d \in [1 .. n -> DeltaType] /\ \A i \in 1 .. n : d[i].at = now
  BY <1>1, <1>2 DEF NewDeltas, DeltaType, DeltaStamp, lead_ms, TypeOK
<1>4. p \in [1 .. n -> PairType]
  BY <1>1, <1>2 DEF NewPairs, PairType, lead_ms, SeenTx
<1>5. n \in Nat
  BY DEF n
<1>6. d \in Seq(DeltaType) /\ Len(d) = n
  <2> HIDE DEF d
  <2> QED BY <1>3, <1>5, FunctionIsSeq
<1>7. p \in Seq(PairType)
  <2> HIDE DEF p
  <2> QED BY <1>4, <1>5, FunctionIsSeq
<1> QED BY <1>3, <1>6, <1>7

\* DropExpired returns a suffix of the list, or nothing.
LEMMA DropExpiredIsSuffix ==
  ASSUME NEW S, NEW list \in Seq(S)
  PROVE  \/ DropExpired(list) = <<>> /\ \A i \in 1 .. Len(list) : ~InWindow(list[i])
         \/ \E k \in 1 .. Len(list) :
              /\ DropExpired(list) = SubSeq(list, k, Len(list))
              /\ InWindow(list[k])
              /\ \A i \in 1 .. k - 1 : ~InWindow(list[i])
<1> DEFINE live  == {i \in DOMAIN list : InWindow(list[i])}
           first == CHOOSE i \in live : \A j \in live : i <= j
<1>1. CASE live = {}
  BY <1>1 DEF DropExpired
<1>2. CASE live # {}
  <2>1. live \subseteq Nat
    OBVIOUS
  <2>2. \E i \in live : \A j \in live : i <= j
    <3> HIDE DEF live, first
    <3> QED BY <1>2, <2>1, LeastExists
  <2>3. first \in live /\ \A j \in live : first <= j
    BY <2>2
  <2>4. DropExpired(list) = SubSeq(list, first, Len(list))
    BY <1>2 DEF DropExpired
  <2> HIDE DEF first
  <2>5. first \in 1 .. Len(list) /\ InWindow(list[first])
    BY <2>3
  <2>6. \A i \in 1 .. first - 1 : ~InWindow(list[i])
    BY <2>3, <2>5
  <2> QED BY <2>4, <2>5, <2>6
<1> QED BY <1>1, <1>2

-----------------------------------------------------------------------------

\* Every reachable state is well typed: no entry is stamped in the future or
\* empty, the reference lane is never paired with itself, and the list of
\* recent pairs never outgrows RECENT_KEPT.
THEOREM RaceTypeCorrect == Spec => []TypeOK
<1>1. Init => TypeOK
  BY RaceAssumption DEF Init, TypeOK, Channels, SeenTx
<1>2. TypeOK /\ [Next]_vars => TypeOK'
  <2> SUFFICES ASSUME TypeOK, [Next]_vars PROVE TypeOK'
    OBVIOUS
  <2>1. ASSUME NEW l \in Lanes, NEW s \in Sigs, Deliver(l, s) PROVE TypeOK'
    <3> DEFINE m == [lane |-> l, sig |-> s, at |-> now]
               k == ChannelOf(l)
    <3>1. m \in SeenTx /\ k \in Channels /\ m.at = now
      BY DEF SeenTx, TypeOK, ChannelOf, Channels
    <3>2. channel' = [channel EXCEPT ![k] = Append(@, m)]
      BY <2>1 DEF Deliver
    <3> HIDE DEF m, k
    <3>3. channel' \in [Channels -> Seq(SeenTx)]
      BY <3>1, <3>2 DEF TypeOK
    <3>4. ASSUME NEW c \in Channels, NEW i \in DOMAIN channel'[c]
          PROVE  channel'[c][i].at <= now
      <4>1. CASE c # k
        BY <3>2, <4>1 DEF TypeOK
      <4>2. CASE c = k
        <5>1. channel'[c] = Append(channel[c], m) /\ channel[c] \in Seq(SeenTx)
          BY <3>2, <4>2 DEF TypeOK
        <5>2. CASE i \in 1 .. Len(channel[c])
          BY <5>1, <5>2, <3>1, AppendProperties DEF TypeOK
        <5>3. CASE i = Len(channel[c]) + 1
          BY <5>1, <5>3, <3>1, AppendProperties DEF TypeOK
        <5> QED BY <5>1, <5>2, <5>3, <3>1, AppendProperties
      <4> QED BY <4>1, <4>2
    <3> QED BY <2>1, <3>3, <3>4 DEF Deliver, TypeOK, state
  <2>2. ASSUME NEW c \in Channels, Observe(c) PROVE TypeOK'
    <3> DEFINE m        == Head(channel[c])
               entry    == EntryFor(m)
               arrivals == Arrived(entry, m)
               ready    == Ready(entry, arrivals)
    <3>0. channel[c] # <<>>
      BY <2>2 DEF Observe
    <3>1. /\ m \in SeenTx /\ m.at <= now
          /\ entry.created \in 0 .. now
          /\ entry.paired \in SUBSET Lanes
          /\ m.lane \in DOMAIN arrivals
          /\ DOMAIN arrivals \subseteq Lanes
          /\ \A l \in DOMAIN arrivals : arrivals[l] \in 0 .. now
          /\ ready \subseteq DOMAIN arrivals \ {Reference}
          /\ ready # {} => Reference \in DOMAIN arrivals
          /\ Cardinality(ready) \in Nat
      BY <3>0, ObserveTypes
    <3>2. PICK order \in Orders(ready) :
            /\ seen' = [seen EXCEPT ![m.lane] = @ + 1]
            /\ pending' = [s \in DOMAIN pending \cup {m.sig} |->
                             IF s = m.sig
                               THEN [arrivals |-> arrivals,
                                     paired   |-> entry.paired \cup ready,
                                     created  |-> entry.created]
                               ELSE pending[s]]
            /\ matched' = [l \in Lanes |-> IF l \in ready THEN matched[l] + 1
                                                          ELSE matched[l]]
            /\ deltas' = deltas \o NewDeltas(m, arrivals, order)
            /\ recent' = KeepLast(recent \o NewPairs(m, arrivals, order))
      BY <2>2 DEF Observe
    <3>3. channel' = [channel EXCEPT ![c] = Tail(@)] /\ now' = now
      BY <2>2 DEF Observe
    <3> HIDE DEF m, entry, arrivals, ready
    <3>4. channel' \in [Channels -> Seq(SeenTx)]
      BY <3>0, <3>3 DEF TypeOK
    <3>5. \A k \in Channels : \A i \in DOMAIN channel'[k] : channel'[k][i].at <= now
      <4> SUFFICES ASSUME NEW k \in Channels, NEW i \in DOMAIN channel'[k]
                   PROVE  channel'[k][i].at <= now
        OBVIOUS
      <4>1. CASE k # c
        BY <3>3, <4>1 DEF TypeOK
      <4>2. CASE k = c
        <5>1. channel[c] \in Seq(SeenTx) /\ channel'[k] = Tail(channel[c])
          BY <3>3, <4>2 DEF TypeOK
        <5>2. i + 1 \in DOMAIN channel[c] /\ channel'[k][i] = channel[c][i + 1]
          BY <5>1, <3>0, HeadTailProperties
        <5> QED BY <5>2 DEF TypeOK
      <4> QED BY <4>1, <4>2
    <3>6. /\ DOMAIN pending' \subseteq Sigs
          /\ \A s \in DOMAIN pending' :
               /\ DOMAIN pending'[s].arrivals \in (SUBSET Lanes) \ {{}}
               /\ \A l \in DOMAIN pending'[s].arrivals :
                     pending'[s].arrivals[l] \in 0 .. now
               /\ pending'[s].paired \in SUBSET Lanes
               /\ pending'[s].created \in 0 .. now
      BY <3>1, <3>2 DEF TypeOK, SeenTx
    <3>7. /\ NewDeltas(m, arrivals, order) \in Seq(DeltaType)
          /\ NewPairs(m, arrivals, order) \in Seq(PairType)
      BY <3>1, NewRows
    <3>8. deltas' \in Seq(DeltaType)
      BY <3>2, <3>7 DEF TypeOK, DeltaType
    <3>9. recent' \in Seq(PairType) /\ Len(recent') <= RECENT_KEPT
      <4> DEFINE list == recent \o NewPairs(m, arrivals, order)
      <4>1. list \in Seq(PairType)
        BY <3>7 DEF TypeOK, PairType
      <4> HIDE DEF list
      <4>2. recent' = KeepLast(list)
        BY <3>2 DEF list
      <4>3. CASE Len(list) <= RECENT_KEPT
        BY <4>1, <4>2, <4>3, RaceAssumption DEF KeepLast
      <4>4. CASE Len(list) > RECENT_KEPT
        <5>1. Len(list) - RECENT_KEPT + 1 \in 1 .. Len(list)
          BY <4>1, <4>4, RaceAssumption
        <5> QED BY <4>1, <4>2, <4>4, <5>1, SuffixProperties, RaceAssumption DEF KeepLast
      <4> QED BY <4>1, <4>3, <4>4, RaceAssumption
    <3>10. seen' \in [Lanes -> Nat] /\ matched' \in [Lanes -> Nat]
      <4>1. m.lane \in Lanes /\ seen[m.lane] \in Nat
        BY <3>1 DEF TypeOK, SeenTx
      <4>2. seen' \in [Lanes -> Nat]
        BY <3>2, <4>1 DEF TypeOK
      <4>3. \A l \in Lanes : matched[l] \in Nat
        BY DEF TypeOK
      <4>4. matched' \in [Lanes -> Nat]
        BY <3>2, <4>3
      <4> QED BY <4>2, <4>4
    <3> QED BY <3>3, <3>4, <3>5, <3>6, <3>8, <3>9, <3>10 DEF TypeOK, DeltaType, PairType
  <2>3. ASSUME Evict PROVE TypeOK'
    <3>1. deltas' \in Seq(DeltaType)
      <4>1. deltas \in Seq(DeltaType) /\ deltas' = DropExpired(deltas)
        BY <2>3 DEF TypeOK, Evict, DeltaType
      <4>2. CASE DropExpired(deltas) = <<>>
        BY <4>1, <4>2
      <4>3. CASE \E k \in 1 .. Len(deltas) :
                   DropExpired(deltas) = SubSeq(deltas, k, Len(deltas))
        BY <4>1, <4>3, SuffixProperties
      <4> QED BY <4>1, <4>2, <4>3, DropExpiredIsSuffix
    <3> QED BY <2>3, <3>1 DEF Evict, TypeOK, DeltaType
  <2>4. CASE Tick
    <3>1. /\ now' = now + 1 /\ now \in Nat
          /\ UNCHANGED <<channel, pending, deltas, recent, seen, matched>>
      BY <2>4 DEF Tick, state, TypeOK
    <3>2. ASSUME NEW c \in Channels, NEW i \in DOMAIN channel[c]
          PROVE  channel[c][i].at <= now + 1
      <4>1. channel[c] \in Seq(SeenTx) /\ channel[c][i].at <= now
        BY DEF TypeOK
      <4>2. channel[c][i] \in SeenTx
        BY <4>1
      <4> QED BY <3>1, <4>1, <4>2 DEF SeenTx
    <3>3. ASSUME NEW s \in DOMAIN pending
          PROVE  /\ \A l \in DOMAIN pending[s].arrivals :
                      pending[s].arrivals[l] \in 0 .. now + 1
                 /\ pending[s].created \in 0 .. now + 1
      BY <3>1 DEF TypeOK
    <3> QED BY <3>1, <3>2, <3>3 DEF TypeOK
  <2>5. CASE UNCHANGED vars
    BY <2>5 DEF vars, TypeOK, state
  <2> QED BY <2>1, <2>2, <2>3, <2>4, <2>5 DEF Next
<1> QED BY <1>1, <1>2, PTL DEF Spec

-----------------------------------------------------------------------------

\* What was paired on a signature before a message: nothing if none is held.
PairedOn(s) == IF s \in DOMAIN pending THEN pending[s].paired ELSE {}
ArrivedOn(s) == IF s \in DOMAIN pending THEN DOMAIN pending[s].arrivals ELSE {}

\* The effect of observe on the entry it touches, with the iteration order
\* and the stamps abstracted away: one lane is added to one signature, and
\* the lanes paired become exactly those NoPairForgotten asks for.
LEMMA ObserveEffect ==
  ASSUME TypeOK, NoPairForgotten, NEW c \in Channels, Observe(c)
  PROVE  \E s \in Sigs, k \in Lanes :
           /\ seen' = [seen EXCEPT ![k] = @ + 1]
           /\ DOMAIN pending' = DOMAIN pending \cup {s}
           /\ \A t \in DOMAIN pending \ {s} : pending'[t] = pending[t]
           /\ DOMAIN pending'[s].arrivals = ArrivedOn(s) \cup {k}
           /\ pending'[s].paired = IF Reference \in ArrivedOn(s) \cup {k}
                                     THEN (ArrivedOn(s) \cup {k}) \ {Reference}
                                     ELSE {}
           /\ matched' = [l \in Lanes |->
                            IF l \in pending'[s].paired \ PairedOn(s)
                              THEN matched[l] + 1 ELSE matched[l]]
<1> DEFINE m        == Head(channel[c])
           entry    == EntryFor(m)
           arrivals == Arrived(entry, m)
           ready    == Ready(entry, arrivals)
           s        == m.sig
           k        == m.lane
<1>1. channel[c] # <<>>
  BY DEF Observe
<1>2. /\ m \in SeenTx
      /\ DOMAIN arrivals = DOMAIN entry.arrivals \cup {k}
  BY <1>1, ObserveTypes
<1>3. s \in Sigs /\ k \in Lanes
  BY <1>2 DEF SeenTx
<1>4. /\ seen' = [seen EXCEPT ![k] = @ + 1]
      /\ pending' = [t \in DOMAIN pending \cup {s} |->
                       IF t = s THEN [arrivals |-> arrivals,
                                      paired   |-> entry.paired \cup ready,
                                      created  |-> entry.created]
                                ELSE pending[t]]
      /\ matched' = [l \in Lanes |-> IF l \in ready THEN matched[l] + 1
                                                    ELSE matched[l]]
  BY DEF Observe
<1>5. /\ entry.paired = PairedOn(s)
      /\ DOMAIN entry.arrivals = ArrivedOn(s)
  BY DEF EntryFor, PairedOn, ArrivedOn
<1>6. entry.paired = IF Reference \in ArrivedOn(s)
                       THEN ArrivedOn(s) \ {Reference} ELSE {}
  BY <1>5 DEF PairedOn, ArrivedOn, NoPairForgotten
<1>7. ready = IF Reference \in DOMAIN arrivals
                THEN DOMAIN arrivals \ (entry.paired \cup {Reference}) ELSE {}
  BY DEF Ready
<1> HIDE DEF m, entry, arrivals, ready, s, k
<1>8. /\ DOMAIN pending' = DOMAIN pending \cup {s}
      /\ \A t \in DOMAIN pending \ {s} : pending'[t] = pending[t]
      /\ DOMAIN pending'[s].arrivals = ArrivedOn(s) \cup {k}
      /\ pending'[s].paired = entry.paired \cup ready
  BY <1>2, <1>4, <1>5
<1>9. entry.paired \cup ready = IF Reference \in ArrivedOn(s) \cup {k}
                                THEN (ArrivedOn(s) \cup {k}) \ {Reference}
                                ELSE {}
  BY <1>2, <1>5, <1>6, <1>7
<1>10. ready = pending'[s].paired \ PairedOn(s)
  BY <1>2, <1>5, <1>6, <1>7, <1>8
<1> QED BY <1>3, <1>4, <1>8, <1>9, <1>10

\* A pair is completed by whichever side arrives last, for every lane: the
\* entries observe leaves behind hold no arrived lane unpaired.
THEOREM RaceNoPairForgotten == Spec => []NoPairForgotten
<1>1. Init => NoPairForgotten
  BY DEF Init, NoPairForgotten
<1>2. TypeOK /\ NoPairForgotten /\ [Next]_vars => NoPairForgotten'
  <2> SUFFICES ASSUME TypeOK, NoPairForgotten, [Next]_vars PROVE NoPairForgotten'
    OBVIOUS
  <2>1. ASSUME NEW l \in Lanes, NEW s \in Sigs, Deliver(l, s) PROVE NoPairForgotten'
    BY <2>1 DEF Deliver, state, NoPairForgotten
  <2>2. ASSUME NEW c \in Channels, Observe(c) PROVE NoPairForgotten'
    <3>1. PICK s \in Sigs, k \in Lanes :
            /\ DOMAIN pending' = DOMAIN pending \cup {s}
            /\ \A t \in DOMAIN pending \ {s} : pending'[t] = pending[t]
            /\ DOMAIN pending'[s].arrivals = ArrivedOn(s) \cup {k}
            /\ pending'[s].paired = IF Reference \in ArrivedOn(s) \cup {k}
                                      THEN (ArrivedOn(s) \cup {k}) \ {Reference}
                                      ELSE {}
      BY <2>2, ObserveEffect
    <3> QED BY <3>1 DEF NoPairForgotten
  <2>3. CASE Evict
    BY <2>3 DEF Evict, NoPairForgotten
  <2>4. CASE Tick
    BY <2>4 DEF Tick, state, NoPairForgotten
  <2>5. CASE UNCHANGED vars
    BY <2>5 DEF vars, state, NoPairForgotten
  <2> QED BY <2>1, <2>2, <2>3, <2>4, <2>5 DEF Next
<1> QED BY <1>1, <1>2, RaceTypeCorrect, PTL DEF Spec

-----------------------------------------------------------------------------

\* Entries are finitely many, so they can be counted.
LEMMA UnspentFinite ==
  ASSUME TypeOK, NEW l, NEW by
  PROVE  IsFiniteSet(Unspent(l, by)) /\ Cardinality(Unspent(l, by)) \in Nat
<1>1. Unspent(l, by) \in SUBSET Sigs
  BY DEF Unspent, TypeOK
<1> QED BY <1>1, FS_Subset, FS_CardinalityType, RaceAssumption

\* If a set of unspent messages changes only at s, the pairs made and the
\* messages seen can move only together: a pair on s either spends a message
\* that was unspent or the very message just seen.
LEMMA Spend ==
  ASSUME NEW U, NEW V, NEW s, IsFiniteSet(U), Cardinality(U) \in Nat,
         U \ {s} = V \ {s},
         NEW pairs \in Nat, NEW msgs \in Nat, NEW new \in {0, 1}, NEW more \in {0, 1},
         pairs + Cardinality(U) <= msgs,
         new = 1 => s \notin V /\ (s \in U \/ more = 1),
         s \in V /\ s \notin U => more = 1
  PROVE  pairs + new + Cardinality(V) <= msgs + more
<1>1. CASE s \in U /\ s \in V
  BY <1>1
<1>2. CASE s \in U /\ s \notin V
  <2>1. V = U \ {s}
    BY <1>2
  <2>2. Cardinality(V) = Cardinality(U) - 1
    BY <1>2, <2>1, FS_RemoveElement
  <2> QED BY <2>2
<1>3. CASE s \notin U /\ s \in V
  <2>1. V = U \cup {s}
    BY <1>3
  <2>2. Cardinality(V) = Cardinality(U) + 1
    BY <1>3, <2>1, FS_AddElement
  <2> QED BY <1>3, <2>2
<1>4. CASE s \notin U /\ s \notin V
  BY <1>4
<1> QED BY <1>1, <1>2, <1>3, <1>4

\* The strengthening of CreditWithinDelivered is preserved by every step.
THEOREM RaceCreditInv == Spec => []CreditInv
<1>1. Init => CreditInv
  <2> SUFFICES ASSUME Init PROVE CreditInv
    OBVIOUS
  <2>1. \A l, by \in Lanes : Unspent(l, by) = {}
    BY DEF Init, Unspent
  <2>2. \A l, by \in Lanes : Cardinality(Unspent(l, by)) = 0
    BY <2>1, FS_EmptySet
  <2>3. \A l \in Lanes : matched[l] = 0 /\ seen[l] = 0
    BY DEF Init
  <2> QED BY <2>2, <2>3, RaceAssumption DEF CreditInv
<1>2. TypeOK /\ TypeOK' /\ NoPairForgotten /\ CreditInv /\ [Next]_vars => CreditInv'
  <2> SUFFICES ASSUME TypeOK, TypeOK', NoPairForgotten, CreditInv, [Next]_vars
               PROVE  CreditInv'
    OBVIOUS
  <2>1. ASSUME UNCHANGED state PROVE CreditInv'
    BY <2>1 DEF state, CreditInv, Unspent
  <2>2. ASSUME NEW c \in Channels, Observe(c) PROVE CreditInv'
    <3>1. PICK s \in Sigs, k \in Lanes :
           /\ seen' = [seen EXCEPT ![k] = @ + 1]
           /\ DOMAIN pending' = DOMAIN pending \cup {s}
           /\ \A t \in DOMAIN pending \ {s} : pending'[t] = pending[t]
           /\ DOMAIN pending'[s].arrivals = ArrivedOn(s) \cup {k}
           /\ pending'[s].paired = IF Reference \in ArrivedOn(s) \cup {k}
                                     THEN (ArrivedOn(s) \cup {k}) \ {Reference}
                                     ELSE {}
           /\ matched' = [l \in Lanes |->
                            IF l \in pending'[s].paired \ PairedOn(s)
                              THEN matched[l] + 1 ELSE matched[l]]
      BY <2>2, ObserveEffect
    <3>2. matched'[Reference] = 0
      BY <3>1, RaceAssumption DEF CreditInv
    <3>3. PairedOn(s) = IF Reference \in ArrivedOn(s)
                          THEN ArrivedOn(s) \ {Reference} ELSE {}
      BY DEF PairedOn, ArrivedOn, NoPairForgotten
    <3>4. ASSUME NEW l \in Lanes \ {Reference}, NEW by \in {l, Reference}
          PROVE  matched'[l] + Cardinality(Unspent(l, by)') <= seen'[by]
      <4> DEFINE U    == Unspent(l, by)
                 V    == Unspent(l, by)'
                 new  == IF l \in pending'[s].paired \ PairedOn(s) THEN 1 ELSE 0
                 more == IF by = k THEN 1 ELSE 0
      <4>1. IsFiniteSet(U) /\ Cardinality(U) \in Nat
        BY UnspentFinite
      <4>2. U \ {s} = V \ {s}
        BY <3>1 DEF Unspent
      <4>3. s \in U <=> by \in ArrivedOn(s) /\ l \notin PairedOn(s)
        BY DEF Unspent, ArrivedOn, PairedOn
      <4>4. s \in V <=> by \in ArrivedOn(s) \cup {k} /\ l \notin pending'[s].paired
        BY <3>1 DEF Unspent
      <4>5. /\ matched'[l] = matched[l] + new /\ matched[l] \in Nat
            /\ seen'[by] = seen[by] + more /\ seen[by] \in Nat
        BY <3>1, RaceAssumption DEF TypeOK
      <4>6. matched[l] + Cardinality(U) <= seen[by]
        BY DEF CreditInv
      <4>7. new = 1 => s \notin V /\ (s \in U \/ more = 1)
        BY <3>1, <3>3, <4>3, <4>4
      <4>8. s \in V /\ s \notin U => more = 1
        BY <3>1, <3>3, <4>3, <4>4
      <4>9. new \in {0, 1} /\ more \in {0, 1}
        OBVIOUS
      <4> HIDE DEF U, V, new, more
      <4>10. matched[l] + new + Cardinality(V) <= seen[by] + more
        BY <4>1, <4>2, <4>5, <4>6, <4>7, <4>8, <4>9, Spend
      <4> QED BY <4>5, <4>10 DEF V
    <3> QED BY <3>2, <3>4 DEF CreditInv
  <2>3. CASE Evict
    <3> SUFFICES ASSUME NEW l \in Lanes \ {Reference}, NEW by \in {l, Reference}
                 PROVE  matched[l] + Cardinality(Unspent(l, by)') <= seen[by]
      BY <2>3 DEF Evict, CreditInv
    <3>1. Unspent(l, by)' \in SUBSET Unspent(l, by)
      BY <2>3 DEF Evict, Unspent
    <3>2. Cardinality(Unspent(l, by)') <= Cardinality(Unspent(l, by))
      BY <3>1, UnspentFinite, FS_Subset
    <3>3. /\ Cardinality(Unspent(l, by)') \in Nat
          /\ Cardinality(Unspent(l, by)) \in Nat
      BY <3>1, UnspentFinite, FS_Subset, FS_CardinalityType
    <3>4. matched[l] + Cardinality(Unspent(l, by)) <= seen[by]
      BY DEF CreditInv
    <3>5. matched[l] \in Nat /\ seen[by] \in Nat
      BY RaceAssumption DEF TypeOK
    <3> QED BY <3>2, <3>3, <3>4, <3>5
  <2>4. CASE \E l \in Lanes, s \in Sigs : Deliver(l, s)
    BY <2>1, <2>4 DEF Deliver
  <2>5. CASE Tick \/ UNCHANGED vars
    BY <2>1, <2>5 DEF Tick, vars
  <2> QED BY <2>2, <2>3, <2>4, <2>5 DEF Next
<1> QED BY <1>1, <1>2, RaceTypeCorrect, RaceNoPairForgotten, PTL DEF Spec

\* A lane is credited only with what it delivered, and only against what the
\* reference delivered, in every run of every configuration.
THEOREM RaceCreditWithinDelivered == Spec => []CreditWithinDelivered
<1>1. TypeOK /\ CreditInv => CreditWithinDelivered
  <2> SUFFICES ASSUME TypeOK, CreditInv, NEW l \in Lanes
               PROVE  matched[l] <= seen[l] /\ matched[l] <= seen[Reference]
    BY DEF CreditWithinDelivered
  <2>1. matched[l] \in Nat /\ seen[l] \in Nat /\ seen[Reference] \in Nat
    BY RaceAssumption DEF TypeOK
  <2>2. CASE l = Reference
    BY <2>1, <2>2 DEF CreditInv
  <2>3. CASE l # Reference
    <3>1. /\ Cardinality(Unspent(l, l)) \in Nat
          /\ Cardinality(Unspent(l, Reference)) \in Nat
      BY UnspentFinite
    <3>2. /\ matched[l] + Cardinality(Unspent(l, l)) <= seen[l]
          /\ matched[l] + Cardinality(Unspent(l, Reference)) <= seen[Reference]
      BY <2>3 DEF CreditInv
    <3> QED BY <2>1, <3>1, <3>2
  <2> QED BY <2>2, <2>3
<1> QED BY <1>1, RaceTypeCorrect, RaceCreditInv, PTL

-----------------------------------------------------------------------------

\* The window is filed in order of time: observe appends rows stamped now,
\* and evict keeps a suffix.
THEOREM RaceWindowOrdered == Spec => []WindowOrdered
<1>1. Init => WindowOrdered
  BY DEF Init, WindowOrdered
<1>2. TypeOK /\ WindowOrdered /\ [Next]_vars => WindowOrdered'
  <2> SUFFICES ASSUME TypeOK, WindowOrdered, [Next]_vars PROVE WindowOrdered'
    OBVIOUS
  <2>0. deltas \in Seq(DeltaType) /\ now \in Nat
    BY DEF TypeOK, DeltaType
  <2>1. ASSUME NEW l \in Lanes, NEW s \in Sigs, Deliver(l, s) PROVE WindowOrdered'
    BY <2>1 DEF Deliver, state, WindowOrdered
  <2>2. ASSUME NEW c \in Channels, Observe(c) PROVE WindowOrdered'
    <3> DEFINE m        == Head(channel[c])
               entry    == EntryFor(m)
               arrivals == Arrived(entry, m)
               ready    == Ready(entry, arrivals)
    <3>1. channel[c] # <<>>
      BY <2>2 DEF Observe
    <3>2. /\ m \in SeenTx
          /\ DOMAIN arrivals \subseteq Lanes
          /\ \A l \in DOMAIN arrivals : arrivals[l] \in 0 .. now
          /\ ready \subseteq DOMAIN arrivals \ {Reference}
          /\ ready # {} => Reference \in DOMAIN arrivals
          /\ Cardinality(ready) \in Nat
      BY <3>1, ObserveTypes
    <3>3. PICK order \in Orders(ready) :
            deltas' = deltas \o NewDeltas(m, arrivals, order)
      BY <2>2 DEF Observe
    <3> DEFINE new == NewDeltas(m, arrivals, order)
    <3> HIDE DEF m, entry, arrivals, ready
    <3>4. new \in Seq(DeltaType) /\ \A i \in 1 .. Len(new) : new[i].at = now
      BY <3>2, NewRows
    <3>5. now' = now
      BY <2>2 DEF Observe
    <3> HIDE DEF new
    <3>6. /\ deltas' \in Seq(DeltaType)
          /\ Len(deltas') = Len(deltas) + Len(new)
          /\ \A i \in 1 .. Len(deltas) + Len(new) :
               deltas'[i] = IF i <= Len(deltas) THEN deltas[i]
                            ELSE new[i - Len(deltas)]
      BY <2>0, <3>3, <3>4, ConcatProperties DEF new
    <3>7. ASSUME NEW i \in 1 .. Len(deltas')
          PROVE  deltas'[i].at = IF i <= Len(deltas) THEN deltas[i].at ELSE now
      <4>1. Len(deltas) \in Nat /\ Len(new) \in Nat
        BY <2>0, <3>4
      <4>2. CASE i <= Len(deltas)
        BY <3>6, <4>1, <4>2
      <4>3. CASE i > Len(deltas)
        BY <3>4, <3>6, <4>1, <4>3
      <4> QED BY <3>6, <4>1, <4>2, <4>3
    <3>8. \A i \in 1 .. Len(deltas) : deltas[i].at <= now /\ deltas[i].at \in Nat
      BY <2>0, DeltaAt DEF WindowOrdered
    <3>9. ASSUME NEW i \in 1 .. Len(deltas'), NEW j \in 1 .. Len(deltas'), i <= j
          PROVE  deltas'[i].at <= deltas'[j].at /\ deltas'[i].at <= now
      <4>1. CASE j <= Len(deltas)
        BY <2>0, <3>6, <3>7, <3>8, <3>9, <4>1 DEF WindowOrdered
      <4>2. CASE j > Len(deltas)
        BY <2>0, <3>6, <3>7, <3>8, <3>9, <4>2
      <4> QED BY <2>0, <3>6, <4>1, <4>2
    <3> QED BY <3>5, <3>6, <3>9 DEF WindowOrdered
  <2>3. CASE Evict
    <3>1. deltas' = DropExpired(deltas) /\ now' = now
      BY <2>3 DEF Evict
    <3>2. CASE DropExpired(deltas) = <<>>
      BY <3>1, <3>2 DEF WindowOrdered
    <3>3. CASE \E k \in 1 .. Len(deltas) :
                 DropExpired(deltas) = SubSeq(deltas, k, Len(deltas))
      <4>1. PICK k \in 1 .. Len(deltas) :
              DropExpired(deltas) = SubSeq(deltas, k, Len(deltas))
        BY <3>3
      <4>2. /\ deltas' \in Seq(DeltaType)
            /\ Len(deltas') = Len(deltas) - k + 1
            /\ \A i \in 1 .. Len(deltas') : deltas'[i] = deltas[k + i - 1]
        BY <2>0, <3>1, <4>1, SuffixProperties
      <4>3. \A i \in 1 .. Len(deltas') : k + i - 1 \in 1 .. Len(deltas)
        BY <2>0, <4>2
      <4>4. \A i, j \in 1 .. Len(deltas') :
              i <= j => k + i - 1 <= k + j - 1
        BY <2>0, <4>2
      <4>5. ASSUME NEW i \in DOMAIN deltas', NEW j \in DOMAIN deltas', i <= j
            PROVE  deltas'[i].at <= deltas'[j].at /\ deltas'[i].at <= now
        <5>1. i \in 1 .. Len(deltas') /\ j \in 1 .. Len(deltas')
          BY <4>2
        <5>2. /\ k + i - 1 \in DOMAIN deltas /\ k + j - 1 \in DOMAIN deltas
              /\ k + i - 1 <= k + j - 1
          BY <2>0, <4>3, <4>4, <4>5, <5>1
        <5> QED BY <4>2, <5>1, <5>2 DEF WindowOrdered
      <4>6. \A i \in DOMAIN deltas' : i <= i
        BY <4>2
      <4> QED BY <3>1, <4>5, <4>6 DEF WindowOrdered
    <3> QED BY <2>0, <3>2, <3>3, DropExpiredIsSuffix
  <2>4. CASE Tick
    <3>1. /\ deltas' = deltas /\ now' = now + 1
      BY <2>4 DEF Tick, state
    <3>2. \A i \in 1 .. Len(deltas) : deltas[i].at \in Nat
      BY <2>0, DeltaAt
    <3> QED BY <2>0, <3>1, <3>2 DEF WindowOrdered
  <2>5. CASE UNCHANGED vars
    BY <2>5 DEF vars, state, WindowOrdered
  <2> QED BY <2>1, <2>2, <2>3, <2>4, <2>5 DEF Next
<1> QED BY <1>1, <1>2, RaceTypeCorrect, PTL DEF Spec

\* After evict no delta older than the window is left, although evict stops
\* at the first one it keeps: that is what the order of the window is for.
THEOREM RaceEvictClearsWindow == Spec => EvictClearsWindow
<1>1. ASSUME TypeOK, WindowOrdered, Evict
      PROVE  \A i \in DOMAIN deltas' : now - deltas'[i].at <= Window
  <2>0. deltas \in Seq(DeltaType) /\ now \in Nat
    BY <1>1 DEF TypeOK, DeltaType
  <2>1. deltas' = DropExpired(deltas)
    BY <1>1 DEF Evict
  <2>2. CASE DropExpired(deltas) = <<>>
    BY <2>1, <2>2
  <2>3. CASE \E k \in 1 .. Len(deltas) :
               /\ DropExpired(deltas) = SubSeq(deltas, k, Len(deltas))
               /\ InWindow(deltas[k])
    <3>1. PICK k \in 1 .. Len(deltas) :
            /\ DropExpired(deltas) = SubSeq(deltas, k, Len(deltas))
            /\ InWindow(deltas[k])
      BY <2>3
    <3>2. /\ deltas' \in Seq(DeltaType)
          /\ Len(deltas') = Len(deltas) - k + 1
          /\ \A i \in 1 .. Len(deltas') : deltas'[i] = deltas[k + i - 1]
      BY <2>0, <2>1, <3>1, SuffixProperties
    <3>3. ASSUME NEW i \in 1 .. Len(deltas')
          PROVE  now - deltas'[i].at <= Window
      <4>1. deltas'[i] = deltas[k + i - 1] /\ k + i - 1 \in k .. Len(deltas)
        BY <2>0, <3>2
      <4>2. deltas[k].at <= deltas[k + i - 1].at
        BY <1>1, <2>0, <4>1 DEF WindowOrdered
      <4>3. deltas[k].at \in Nat /\ deltas[k + i - 1].at \in Nat
        BY <2>0, <4>1, DeltaAt
      <4>4. now - deltas[k].at <= Window
        BY <3>1 DEF InWindow
      <4> QED BY <2>0, <4>1, <4>2, <4>3, <4>4, RaceAssumption
    <3> QED BY <3>2, <3>3
  <2> QED BY <2>0, <2>2, <2>3, DropExpiredIsSuffix
<1>2. TypeOK /\ WindowOrdered /\ [Next]_vars
      => [Evict => \A i \in DOMAIN deltas' : now - deltas'[i].at <= Window]_vars
  BY <1>1
<1> QED BY <1>2, RaceTypeCorrect, RaceWindowOrdered, PTL DEF Spec, EvictClearsWindow
-----------------------------------------------------------------------------

\* A message of one lane about one signature.
About(m, s, l) == m.sig = s /\ m.lane = l

\* Every message is in the channel of its lane and was counted when it was
\* delivered.
MessagesKnown ==
  \A c \in Channels : \A i \in DOMAIN channel[c] :
    /\ ChannelOf(channel[c][i].lane) = c
    /\ firstAt[channel[c][i].sig][channel[c][i].lane] # NoTime

\* Until a lane's first copy of a transaction is observed, it is in the
\* channel, ahead of every repeat.
FirstCopyWaits ==
  \A s \in Sigs \ evicted, l \in Lanes :
    firstAt[s][l] # NoTime /\ l \notin ArrivedOn(s) =>
      \E i \in DOMAIN channel[ChannelOf(l)] : About(channel[ChannelOf(l)][i], s, l)

FirstCopyLeads ==
  \A s \in Sigs \ evicted, l \in Lanes : l \notin ArrivedOn(s) =>
    \A i \in DOMAIN channel[ChannelOf(l)] :
      /\ About(channel[ChannelOf(l)][i], s, l)
      /\ \A j \in 1 .. i - 1 : ~About(channel[ChannelOf(l)][j], s, l)
      => channel[ChannelOf(l)][i].at = firstAt[s][l]

\* The arrivals on file are the first deliveries.
ArrivalsTrue ==
  \A s \in DOMAIN pending \ evicted : \A l \in DOMAIN pending[s].arrivals :
    firstAt[s][l] # NoTime /\ pending[s].arrivals[l] = firstAt[s][l]

\* Both sides of a reported pair were delivered.
PairsDelivered ==
  \A i \in DOMAIN recent : recent[i].sig \notin evicted =>
    /\ firstAt[recent[i].sig][recent[i].lane] # NoTime
    /\ firstAt[recent[i].sig][Reference] # NoTime

\* The strengthening from which LeadIsTrueLead follows.  The lead is computed
\* from the arrivals on file, so those must be first deliveries; they are
\* because each channel is first in, first out, and a signature that was never
\* evicted has lost none of its messages.
LeadInv ==
  /\ firstAt \in [Sigs -> [Lanes -> Int]]
  /\ MessagesKnown
  /\ FirstCopyWaits
  /\ FirstCopyLeads
  /\ ArrivalsTrue
  /\ PairsDelivered
  /\ LeadIsTrueLead

\* Messages in flight and reported pairs name signatures and lanes.
LEMMA NamesTyped ==
  ASSUME TypeOK
  PROVE  /\ \A c \in Channels : channel[c] \in Seq(SeenTx)
         /\ \A c \in Channels : \A i \in DOMAIN channel[c] :
              channel[c][i].sig \in Sigs /\ channel[c][i].lane \in Lanes
         /\ \A i \in DOMAIN recent : recent[i].sig \in Sigs /\ recent[i].lane \in Lanes
<1>1. \A c \in Channels : channel[c] \in Seq(SeenTx)
  BY DEF TypeOK
<1>2. ASSUME NEW c \in Channels, NEW i \in DOMAIN channel[c]
      PROVE  channel[c][i].sig \in Sigs /\ channel[c][i].lane \in Lanes
  <2>1. channel[c][i] \in SeenTx
    BY <1>1
  <2> QED BY <2>1 DEF SeenTx
<1>3. ASSUME NEW i \in DOMAIN recent
      PROVE  recent[i].sig \in Sigs /\ recent[i].lane \in Lanes
  <2>1. recent \in Seq(PairType)
    BY DEF TypeOK, PairType
  <2>2. recent[i] \in PairType
    BY <2>1
  <2> QED BY <2>2 DEF PairType
<1> QED BY <1>1, <1>2, <1>3

\* A delivery puts one message at the end of its lane's channel, and is the
\* lane's first of that signature or leaves the history alone.
LEMMA DeliverLeads ==
  ASSUME TypeOK, LeadInv, NEW l \in Lanes, NEW s \in Sigs, Deliver(l, s)
  PROVE  LeadInv'
<1> DEFINE m == [lane |-> l, sig |-> s, at |-> now]
           k == ChannelOf(l)
<1>1. k \in Channels /\ m \in SeenTx /\ m.at = now /\ m.sig = s /\ m.lane = l /\ now # NoTime
  BY DEF ChannelOf, Channels, SeenTx, TypeOK, NoTime
<1>2. channel' = [channel EXCEPT ![k] = Append(@, m)]
  BY DEF Deliver
<1>3. UNCHANGED <<pending, recent, evicted>>
  BY DEF Deliver, state
<1>4. /\ firstAt' \in [Sigs -> [Lanes -> Int]]
      /\ firstAt'[s][l] # NoTime
      /\ \A t \in Sigs, n \in Lanes :
           firstAt[t][n] # NoTime \/ t # s \/ n # l => firstAt'[t][n] = firstAt[t][n]
      /\ firstAt[s][l] = NoTime => firstAt'[s][l] = now
  BY <1>1 DEF Deliver, LeadInv, TypeOK
<1> HIDE DEF m, k
<1>5. /\ \A c \in Channels \ {k} : channel'[c] = channel[c]
      /\ channel[k] \in Seq(SeenTx) /\ channel'[k] \in Seq(SeenTx)
      /\ Len(channel'[k]) = Len(channel[k]) + 1
      /\ \A i \in 1 .. Len(channel[k]) : channel'[k][i] = channel[k][i]
      /\ channel'[k][Len(channel[k]) + 1] = m
  BY <1>1, <1>2, AppendProperties DEF TypeOK
<1>6. k = ChannelOf(l)
  BY DEF k
<1>7. \A n \in Lanes : ChannelOf(n) \in Channels
  BY DEF ChannelOf, Channels
<1>8. \A c \in Channels : \A i \in DOMAIN channel[c] :
        channel[c][i].sig \in Sigs /\ channel[c][i].lane \in Lanes
  BY NamesTyped
<1>9. MessagesKnown'
  <2> SUFFICES ASSUME NEW c \in Channels, NEW i \in DOMAIN channel'[c]
               PROVE  /\ ChannelOf(channel'[c][i].lane) = c
                      /\ firstAt'[channel'[c][i].sig][channel'[c][i].lane] # NoTime
    BY DEF MessagesKnown
  <2>1. CASE c # k
    <3>1. channel'[c] = channel[c]
      BY <2>1, <1>5
    <3>2. i \in DOMAIN channel[c] /\ channel'[c][i] = channel[c][i]
      BY <3>1
    <3> QED BY <3>2, <1>4, <1>8 DEF LeadInv, MessagesKnown
  <2>2. CASE c = k /\ i = Len(channel[k]) + 1
    BY <2>2, <1>1, <1>4, <1>5, <1>6
  <2>3. CASE c = k /\ i \in 1 .. Len(channel[k])
    <3>1. i \in DOMAIN channel[k] /\ channel'[c][i] = channel[k][i]
      BY <2>3, <1>5
    <3> QED BY <2>3, <3>1, <1>1, <1>4, <1>8 DEF LeadInv, MessagesKnown
  <2> QED BY <2>1, <2>2, <2>3, <1>5
<1>10. FirstCopyWaits'
  <2> SUFFICES ASSUME NEW t \in Sigs \ evicted, NEW n \in Lanes,
                      firstAt'[t][n] # NoTime, n \notin ArrivedOn(t)
               PROVE  \E i \in DOMAIN channel'[ChannelOf(n)] :
                        About(channel'[ChannelOf(n)][i], t, n)
    BY <1>3 DEF FirstCopyWaits, ArrivedOn, About
  <2>1. CASE t = s /\ n = l
    <3>1. Len(channel[k]) + 1 \in DOMAIN channel'[k]
      BY <1>5
    <3>2. About(channel'[k][Len(channel[k]) + 1], t, n)
      BY <1>1, <1>5, <2>1 DEF About
    <3> QED BY <1>6, <2>1, <3>1, <3>2
  <2>2. CASE ~(t = s /\ n = l)
    <3>1. firstAt[t][n] # NoTime
      BY <2>2, <1>4
    <3>2. PICK i \in DOMAIN channel[ChannelOf(n)] : About(channel[ChannelOf(n)][i], t, n)
      BY <3>1 DEF LeadInv, FirstCopyWaits
    <3>3. i \in DOMAIN channel'[ChannelOf(n)] /\ channel'[ChannelOf(n)][i] = channel[ChannelOf(n)][i]
      BY <1>5, <1>7
    <3> QED BY <3>2, <3>3
  <2> QED BY <2>1, <2>2
<1>11. FirstCopyLeads'
  <2> SUFFICES ASSUME NEW t \in Sigs \ evicted, NEW n \in Lanes, n \notin ArrivedOn(t),
                      NEW i \in DOMAIN channel'[ChannelOf(n)],
                      About(channel'[ChannelOf(n)][i], t, n),
                      \A j \in 1 .. i - 1 : ~About(channel'[ChannelOf(n)][j], t, n)
               PROVE  channel'[ChannelOf(n)][i].at = firstAt'[t][n]
    BY <1>3 DEF FirstCopyLeads, ArrivedOn, About
  <2> DEFINE c == ChannelOf(n)
  <2>1. c \in Channels
    BY <1>7
  <2> HIDE DEF c
  <2>2. CASE i \in DOMAIN channel[c]
    <3>1. channel'[c][i] = channel[c][i]
      BY <1>5, <2>1, <2>2
    <3>2. \A j \in 1 .. i - 1 : ~About(channel[c][j], t, n)
      <4> SUFFICES ASSUME NEW j \in 1 .. i - 1 PROVE ~About(channel[c][j], t, n)
        OBVIOUS
      <4>1. channel[c] \in Seq(SeenTx)
        BY <2>1 DEF TypeOK
      <4>2. j \in DOMAIN channel[c]
        BY <2>2, <4>1
      <4>3. channel'[c][j] = channel[c][j]
        BY <1>5, <2>1, <4>2
      <4> QED BY <4>3 DEF c
    <3>3. channel[c][i].at = firstAt[t][n]
      BY <2>2, <3>1, <3>2 DEF LeadInv, FirstCopyLeads, c
    <3>4. firstAt[t][n] # NoTime
      BY <2>1, <2>2, <3>1 DEF LeadInv, MessagesKnown, About, c
    <3> QED BY <1>4, <3>1, <3>3, <3>4 DEF c
  <2>3. CASE i \notin DOMAIN channel[c]
    <3>1. c = k /\ i = Len(channel[k]) + 1 /\ channel'[c][i] = m
      BY <1>5, <2>1, <2>3 DEF c
    <3>2. t = s /\ n = l
      BY <3>1, <1>1 DEF About, c
    <3>3. \A j \in DOMAIN channel[c] : ~About(channel[c][j], t, n)
      <4> SUFFICES ASSUME NEW j \in DOMAIN channel[c] PROVE ~About(channel[c][j], t, n)
        OBVIOUS
      <4>1. j \in 1 .. i - 1 /\ channel'[c][j] = channel[c][j]
        BY <1>5, <3>1
      <4> QED BY <4>1 DEF c
    <3>4. firstAt[s][l] = NoTime
      BY <3>2, <3>3 DEF LeadInv, FirstCopyWaits, c
    <3> QED BY <1>1, <1>4, <3>1, <3>2, <3>4 DEF c
  <2> QED BY <2>2, <2>3
<1>12. ArrivalsTrue'
  BY <1>3, <1>4 DEF LeadInv, ArrivalsTrue, TypeOK
<1>13. PairsDelivered' /\ LeadIsTrueLead'
  <2>1. \A i \in DOMAIN recent : recent[i].sig \in Sigs /\ recent[i].lane \in Lanes
    BY NamesTyped
  <2> QED BY <1>3, <1>4, <2>1, RaceAssumption DEF LeadInv, PairsDelivered, LeadIsTrueLead
<1> QED BY <1>4, <1>9, <1>10, <1>11, <1>12, <1>13 DEF LeadInv

\* What observe leaves on file for the signature it was given: the lane has
\* arrived, every other lane is as it was, and if the signature was never
\* evicted all its arrivals are first deliveries.
LEMMA ObserveArrivals ==
  ASSUME TypeOK, LeadInv, NEW c \in Channels, Observe(c)
  PROVE  LET m        == Head(channel[c])
             arrivals == Arrived(EntryFor(m), m)
         IN /\ m \in SeenTx /\ m = channel[c][1] /\ 1 \in DOMAIN channel[c]
            /\ DOMAIN pending' = DOMAIN pending \cup {m.sig}
            /\ pending'[m.sig].arrivals = arrivals
            /\ \A s \in DOMAIN pending \ {m.sig} : pending'[s] = pending[s]
            /\ DOMAIN arrivals = ArrivedOn(m.sig) \cup {m.lane}
            /\ m.sig \notin evicted =>
                 \A l \in DOMAIN arrivals :
                   firstAt[m.sig][l] # NoTime /\ arrivals[l] = firstAt[m.sig][l]
<1> DEFINE m        == Head(channel[c])
           entry    == EntryFor(m)
           arrivals == Arrived(entry, m)
<1>1. channel[c] # <<>>
  BY DEF Observe
<1>2. m \in SeenTx /\ DOMAIN arrivals = DOMAIN entry.arrivals \cup {m.lane}
  BY <1>1, ObserveTypes
<1>3. m = channel[c][1] /\ 1 \in DOMAIN channel[c]
  BY <1>1, NamesTyped
<1>4. /\ DOMAIN pending' = DOMAIN pending \cup {m.sig}
      /\ pending'[m.sig].arrivals = arrivals
      /\ \A s \in DOMAIN pending \ {m.sig} : pending'[s] = pending[s]
  BY DEF Observe
<1>5. DOMAIN entry.arrivals = ArrivedOn(m.sig)
  BY DEF EntryFor, ArrivedOn
<1>6. m.sig \in Sigs /\ m.lane \in Lanes
  BY <1>2 DEF SeenTx
<1>7. c = ChannelOf(m.lane) /\ firstAt[m.sig][m.lane] # NoTime
  BY <1>3 DEF LeadInv, MessagesKnown
<1>8. ASSUME m.sig \notin evicted, NEW l \in DOMAIN arrivals
      PROVE  firstAt[m.sig][l] # NoTime /\ arrivals[l] = firstAt[m.sig][l]
  <2>1. CASE l \in ArrivedOn(m.sig)
    <3>1. m.sig \in DOMAIN pending /\ l \in DOMAIN pending[m.sig].arrivals
      BY <2>1 DEF ArrivedOn
    <3>2. entry = pending[m.sig]
      BY <3>1 DEF EntryFor
    <3> HIDE DEF entry, m
    <3>3. arrivals[l] = pending[m.sig].arrivals[l]
      BY <3>1, <3>2 DEF Arrived
    <3> QED BY <1>8, <3>1, <3>3 DEF LeadInv, ArrivalsTrue
  <2>2. CASE l \notin ArrivedOn(m.sig)
    <3>1. l = m.lane
      BY <1>2, <1>5, <2>2
    <3>2. arrivals[l] = m.at
      <4> HIDE DEF m, entry
      <4> QED BY <1>5, <2>2, <3>1 DEF Arrived
    <3> HIDE DEF m, arrivals
    <3>3. About(channel[c][1], m.sig, l)
      BY <1>3, <3>1 DEF About
    <3>4. channel[c][1].at = firstAt[m.sig][l]
      <4>1. m.sig \in Sigs \ evicted /\ l \in Lanes /\ c = ChannelOf(l)
        BY <1>6, <1>7, <1>8, <3>1
      <4>2. \A j \in 1 .. 1 - 1 : ~About(channel[c][j], m.sig, l)
        OBVIOUS
      <4> QED BY <1>3, <2>2, <3>3, <4>1, <4>2 DEF LeadInv, FirstCopyLeads
    <3> QED BY <1>3, <1>7, <3>1, <3>2, <3>4
  <2> QED BY <2>1, <2>2
<1> QED BY <1>2, <1>3, <1>4, <1>5, <1>8

\* The pairs a message completes report the distance between the arrivals on
\* file, and trimming the list keeps it a part of what it was.
LEMMA ObserveRows ==
  ASSUME TypeOK, NEW c \in Channels, Observe(c)
  PROVE  LET m        == Head(channel[c])
             arrivals == Arrived(EntryFor(m), m)
         IN \A i \in DOMAIN recent' :
              \/ \E j \in DOMAIN recent : recent'[i] = recent[j]
              \/ /\ recent'[i].sig = m.sig
                 /\ recent'[i].lane \in DOMAIN arrivals /\ Reference \in DOMAIN arrivals
                 /\ recent'[i].lead = arrivals[recent'[i].lane] - arrivals[Reference]
<1> DEFINE m        == Head(channel[c])
           entry    == EntryFor(m)
           arrivals == Arrived(entry, m)
           ready    == Ready(entry, arrivals)
           n        == Cardinality(ready)
<1>1. channel[c] # <<>>
  BY DEF Observe
<1>2. /\ m \in SeenTx
      /\ DOMAIN arrivals \subseteq Lanes
      /\ \A l \in DOMAIN arrivals : arrivals[l] \in 0 .. now
      /\ ready \subseteq DOMAIN arrivals \ {Reference}
      /\ ready # {} => Reference \in DOMAIN arrivals
      /\ n \in Nat
  BY <1>1, ObserveTypes
<1>3. PICK order \in Orders(ready) :
        recent' = KeepLast(recent \o NewPairs(m, arrivals, order))
  BY DEF Observe
<1>4. order \in [1 .. n -> ready]
  BY DEF Orders, Injection
<1> HIDE DEF m, entry, arrivals, ready, n
<1> DEFINE new  == NewPairs(m, arrivals, order)
           list == recent \o new
<1>5. new \in Seq(PairType)
  <2>1. ready \subseteq (Lanes \cap DOMAIN arrivals) \ {Reference} /\ Cardinality(ready) \in Nat
    BY <1>2 DEF n
  <2> QED BY <1>2, <2>1, NewRows
<1>6. DOMAIN new = 1 .. n
  BY <1>4 DEF NewPairs
<1>7. ASSUME NEW i \in 1 .. n
      PROVE  /\ new[i].sig = m.sig
             /\ new[i].lane \in DOMAIN arrivals /\ Reference \in DOMAIN arrivals
             /\ new[i].lead = arrivals[new[i].lane] - arrivals[Reference]
  <2>1. order[i] \in ready
    BY <1>4
  <2>2. new[i] = [sig |-> m.sig, lane |-> order[i],
                  lead |-> arrivals[order[i]] - arrivals[Reference]]
    BY <1>4 DEF NewPairs, lead_ms
  <2> QED BY <1>2, <2>1, <2>2
<1> HIDE DEF new
<1>8. recent \in Seq(PairType)
  BY DEF TypeOK, PairType
<1>9. /\ list \in Seq(PairType) /\ Len(list) = Len(recent) + Len(new)
      /\ \A i \in 1 .. Len(list) :
           list[i] = IF i <= Len(recent) THEN recent[i] ELSE new[i - Len(recent)]
  BY <1>5, <1>8, ConcatProperties
<1>10. Len(new) = n
  BY <1>2, <1>5, <1>6
<1>11. ASSUME NEW i \in 1 .. Len(list)
       PROVE  \/ \E j \in DOMAIN recent : list[i] = recent[j]
              \/ /\ list[i].sig = m.sig
                 /\ list[i].lane \in DOMAIN arrivals /\ Reference \in DOMAIN arrivals
                 /\ list[i].lead = arrivals[list[i].lane] - arrivals[Reference]
  <2>1. CASE i <= Len(recent)
    <3>1. i \in DOMAIN recent /\ list[i] = recent[i]
      BY <1>8, <1>9, <2>1
    <3> QED BY <3>1
  <2>2. CASE ~(i <= Len(recent))
    <3>1. i - Len(recent) \in 1 .. n /\ list[i] = new[i - Len(recent)]
      BY <1>2, <1>8, <1>9, <1>10, <2>2
    <3> HIDE DEF list
    <3> QED BY <1>7, <3>1
  <2> QED BY <2>1, <2>2
<1>12. \A i \in DOMAIN recent' : \E j \in 1 .. Len(list) : recent'[i] = list[j]
  <2>1. recent' = KeepLast(list)
    BY <1>3 DEF new
  <2> HIDE DEF list
  <2>2. CASE Len(list) <= RECENT_KEPT
    <3>1. recent' = list
      BY <1>9, <2>1, <2>2, RaceAssumption DEF KeepLast
    <3> QED BY <1>9, <3>1
  <2>3. CASE Len(list) > RECENT_KEPT
    <3>1. Len(list) - RECENT_KEPT + 1 \in 1 .. Len(list)
      BY <1>9, <2>3, RaceAssumption
    <3>2. recent' = SubSeq(list, Len(list) - RECENT_KEPT + 1, Len(list))
      BY <2>1, <2>3 DEF KeepLast
    <3>3. /\ recent' \in Seq(PairType) /\ Len(recent') = RECENT_KEPT
          /\ \A i \in 1 .. Len(recent') : recent'[i] = list[Len(list) - RECENT_KEPT + 1 + i - 1]
      BY <1>9, <3>1, <3>2, SuffixProperties, RaceAssumption
    <3>4. ASSUME NEW i \in DOMAIN recent'
          PROVE  \E j \in 1 .. Len(list) : recent'[i] = list[j]
      <4>1. i \in 1 .. RECENT_KEPT /\ recent'[i] = list[Len(list) - RECENT_KEPT + 1 + i - 1]
        BY <3>3
      <4>2. Len(list) - RECENT_KEPT + 1 + i - 1 \in 1 .. Len(list)
        BY <1>9, <2>3, <4>1, RaceAssumption
      <4> QED BY <4>1, <4>2
    <3> QED BY <3>4
  <2> QED BY <1>9, <2>2, <2>3, RaceAssumption
<1> HIDE DEF list
<1>13. ASSUME NEW i \in DOMAIN recent'
       PROVE  \/ \E j \in DOMAIN recent : recent'[i] = recent[j]
              \/ /\ recent'[i].sig = m.sig
                 /\ recent'[i].lane \in DOMAIN arrivals /\ Reference \in DOMAIN arrivals
                 /\ recent'[i].lead = arrivals[recent'[i].lane] - arrivals[Reference]
  BY <1>11, <1>12
<1> QED BY <1>13 DEF m, arrivals, entry

\* Observing the oldest message of a channel.
LEMMA ObserveLeads ==
  ASSUME TypeOK, LeadInv, NEW c \in Channels, Observe(c)
  PROVE  LeadInv'
<1> DEFINE m        == Head(channel[c])
           arrivals == Arrived(EntryFor(m), m)
<1>1. /\ m \in SeenTx /\ m = channel[c][1] /\ 1 \in DOMAIN channel[c]
      /\ DOMAIN pending' = DOMAIN pending \cup {m.sig}
      /\ pending'[m.sig].arrivals = arrivals
      /\ \A s \in DOMAIN pending \ {m.sig} : pending'[s] = pending[s]
      /\ DOMAIN arrivals = ArrivedOn(m.sig) \cup {m.lane}
      /\ m.sig \notin evicted =>
           \A l \in DOMAIN arrivals :
             firstAt[m.sig][l] # NoTime /\ arrivals[l] = firstAt[m.sig][l]
  BY ObserveArrivals
<1>2. \A i \in DOMAIN recent' :
        \/ \E j \in DOMAIN recent : recent'[i] = recent[j]
        \/ /\ recent'[i].sig = m.sig
           /\ recent'[i].lane \in DOMAIN arrivals /\ Reference \in DOMAIN arrivals
           /\ recent'[i].lead = arrivals[recent'[i].lane] - arrivals[Reference]
  BY ObserveRows
<1>3. channel' = [channel EXCEPT ![c] = Tail(@)] /\ UNCHANGED <<firstAt, evicted>>
  BY DEF Observe, history
<1> HIDE DEF m, arrivals
<1>4. /\ \A k \in Channels \ {c} : channel'[k] = channel[k]
      /\ channel[c] \in Seq(SeenTx) /\ channel'[c] \in Seq(SeenTx)
      /\ Len(channel'[c]) = Len(channel[c]) - 1
      /\ \A i \in 1 .. Len(channel[c]) - 1 : channel'[c][i] = channel[c][i + 1]
  <2>1. channel[c] # <<>>
    BY DEF Observe
  <2> QED BY <1>3, <2>1, HeadTailProperties DEF TypeOK
<1>5. \A s : ArrivedOn(s)' = IF s = m.sig THEN ArrivedOn(s) \cup {m.lane} ELSE ArrivedOn(s)
  BY <1>1 DEF ArrivedOn
<1>6. \A l \in Lanes : ChannelOf(l) \in Channels
  BY DEF ChannelOf, Channels
<1>7. MessagesKnown'
  <2> SUFFICES ASSUME NEW k \in Channels, NEW i \in DOMAIN channel'[k]
               PROVE  /\ ChannelOf(channel'[k][i].lane) = k
                      /\ firstAt[channel'[k][i].sig][channel'[k][i].lane] # NoTime
    BY <1>3 DEF MessagesKnown
  <2>1. PICK j \in DOMAIN channel[k] : channel'[k][i] = channel[k][j]
    <3>1. CASE k # c
      <4>1. channel'[k] = channel[k]
        BY <1>4, <3>1
      <4> QED BY <4>1
    <3>2. CASE k = c
      <4>1. i + 1 \in DOMAIN channel[k] /\ channel'[k][i] = channel[k][i + 1]
        BY <1>4, <3>2
      <4> QED BY <4>1
    <3> QED BY <3>1, <3>2
  <2> QED BY <2>1 DEF LeadInv, MessagesKnown
<1>8. FirstCopyWaits'
  <2> SUFFICES ASSUME NEW s \in Sigs \ evicted, NEW l \in Lanes,
                      firstAt[s][l] # NoTime, l \notin ArrivedOn(s)'
               PROVE  \E i \in DOMAIN channel'[ChannelOf(l)] :
                        About(channel'[ChannelOf(l)][i], s, l)
    BY <1>3 DEF FirstCopyWaits, About
  <2>1. l \notin ArrivedOn(s) /\ ~About(m, s, l)
    BY <1>5 DEF About
  <2>2. PICK i \in DOMAIN channel[ChannelOf(l)] : About(channel[ChannelOf(l)][i], s, l)
    BY <2>1 DEF LeadInv, FirstCopyWaits
  <2>3. CASE ChannelOf(l) # c
    <3>1. channel'[ChannelOf(l)] = channel[ChannelOf(l)]
      BY <1>4, <1>6, <2>3
    <3> QED BY <2>2, <3>1
  <2>4. CASE ChannelOf(l) = c
    <3>1. i # 1
      BY <1>1, <2>1, <2>2, <2>4
    <3>2. i - 1 \in DOMAIN channel'[c] /\ channel'[c][i - 1] = channel[c][i]
      <4>1. i \in 1 .. Len(channel[c]) /\ i - 1 \in 1 .. Len(channel[c]) - 1
        BY <1>4, <2>2, <2>4, <3>1
      <4>2. channel'[c][i - 1] = channel[c][(i - 1) + 1] /\ (i - 1) + 1 = i
        BY <1>4, <4>1
      <4> QED BY <1>4, <4>1, <4>2
    <3> QED BY <2>2, <2>4, <3>2
  <2> QED BY <2>3, <2>4
<1>9. FirstCopyLeads'
  <2> SUFFICES ASSUME NEW s \in Sigs \ evicted, NEW l \in Lanes, l \notin ArrivedOn(s)',
                      NEW i \in DOMAIN channel'[ChannelOf(l)],
                      About(channel'[ChannelOf(l)][i], s, l),
                      \A j \in 1 .. i - 1 : ~About(channel'[ChannelOf(l)][j], s, l)
               PROVE  channel'[ChannelOf(l)][i].at = firstAt[s][l]
    BY <1>3 DEF FirstCopyLeads, About
  <2>1. l \notin ArrivedOn(s) /\ ~About(m, s, l)
    BY <1>5 DEF About
  <2>2. CASE ChannelOf(l) # c
    <3>1. channel'[ChannelOf(l)] = channel[ChannelOf(l)]
      BY <1>4, <1>6, <2>2
    <3> QED BY <2>1, <3>1 DEF LeadInv, FirstCopyLeads
  <2>3. CASE ChannelOf(l) = c
    <3>1. i + 1 \in DOMAIN channel[c] /\ channel'[c][i] = channel[c][i + 1] /\ i \in Nat
      BY <1>4, <2>3
    <3>2. ASSUME NEW j \in 1 .. (i + 1) - 1 PROVE ~About(channel[c][j], s, l)
      <4>1. CASE j = 1
        BY <1>1, <2>1, <4>1
      <4>2. CASE j # 1
        <5>1. j - 1 \in 1 .. i - 1 /\ j - 1 \in 1 .. Len(channel[c]) - 1 /\ (j - 1) + 1 = j
          BY <1>4, <3>1, <4>2
        <5>2. channel'[c][j - 1] = channel[c][j]
          BY <1>4, <5>1
        <5> QED BY <2>3, <5>1, <5>2
      <4> QED BY <4>1, <4>2
    <3>3. channel[c][i + 1].at = firstAt[s][l]
      BY <2>1, <2>3, <3>1, <3>2 DEF LeadInv, FirstCopyLeads
    <3> QED BY <2>3, <3>1, <3>3
  <2> QED BY <2>2, <2>3
<1>10. ArrivalsTrue'
  <2> SUFFICES ASSUME NEW s \in DOMAIN pending' \ evicted,
                      NEW l \in DOMAIN pending'[s].arrivals
               PROVE  firstAt[s][l] # NoTime /\ pending'[s].arrivals[l] = firstAt[s][l]
    BY <1>3 DEF ArrivalsTrue
  <2>1. CASE s = m.sig
    BY <1>1, <2>1
  <2>2. CASE s # m.sig
    BY <1>1, <2>2 DEF LeadInv, ArrivalsTrue
  <2> QED BY <2>1, <2>2
<1>11. PairsDelivered' /\ LeadIsTrueLead'
  <2> SUFFICES ASSUME NEW i \in DOMAIN recent', recent'[i].sig \notin evicted
               PROVE  /\ firstAt[recent'[i].sig][recent'[i].lane] # NoTime
                      /\ firstAt[recent'[i].sig][Reference] # NoTime
                      /\ recent'[i].lead = firstAt[recent'[i].sig][recent'[i].lane]
                                            - firstAt[recent'[i].sig][Reference]
    BY <1>3 DEF PairsDelivered, LeadIsTrueLead
  <2>1. CASE \E j \in DOMAIN recent : recent'[i] = recent[j]
    BY <2>1 DEF LeadInv, PairsDelivered, LeadIsTrueLead
  <2>2. CASE /\ recent'[i].sig = m.sig
             /\ recent'[i].lane \in DOMAIN arrivals /\ Reference \in DOMAIN arrivals
             /\ recent'[i].lead = arrivals[recent'[i].lane] - arrivals[Reference]
    BY <1>1, <2>2
  <2> QED BY <1>2, <2>1, <2>2
<1> QED BY <1>3, <1>7, <1>8, <1>9, <1>10, <1>11 DEF LeadInv

\* Evicting forgets an entry whole, and remembers that it did.
LEMMA EvictLeads == TypeOK /\ LeadInv /\ Evict => LeadInv'
<1> SUFFICES ASSUME TypeOK, LeadInv, Evict PROVE LeadInv'
  OBVIOUS
<1>1. /\ UNCHANGED <<channel, recent, firstAt>>
      /\ evicted \subseteq evicted'
      /\ DOMAIN pending' \subseteq DOMAIN pending
      /\ \A s \in DOMAIN pending' : pending'[s] = pending[s]
      /\ DOMAIN pending \ DOMAIN pending' \subseteq evicted'
  BY DEF Evict
<1>2. \A s : s \notin evicted' => s \notin evicted /\ ArrivedOn(s)' = ArrivedOn(s)
  BY <1>1 DEF ArrivedOn
<1>3. MessagesKnown'
  BY <1>1 DEF LeadInv, MessagesKnown
<1>4. FirstCopyWaits'
  BY <1>1, <1>2 DEF LeadInv, FirstCopyWaits, About
<1>5. FirstCopyLeads'
  BY <1>1, <1>2 DEF LeadInv, FirstCopyLeads, About
<1>6. ArrivalsTrue' /\ PairsDelivered' /\ LeadIsTrueLead'
  BY <1>1, <1>2 DEF LeadInv, ArrivalsTrue, PairsDelivered, LeadIsTrueLead
<1> QED BY <1>1, <1>3, <1>4, <1>5, <1>6 DEF LeadInv

\* The lead the race reports for a pair is the distance between the first
\* deliveries of that transaction on the two lanes, as stamped on receipt:
\* for any lanes, any repeats and any order in which the loop drains its two
\* channels, while the signature has never been evicted.
THEOREM RaceLeadIsTrueLead == Spec => []LeadIsTrueLead
<1>1. Init => LeadInv
  BY DEF Init, LeadInv, MessagesKnown, FirstCopyWaits, FirstCopyLeads, ArrivalsTrue,
         PairsDelivered, LeadIsTrueLead, NoTime, Channels, ChannelOf, ArrivedOn
<1>2. TypeOK /\ LeadInv /\ [Next]_vars => LeadInv'
  <2> SUFFICES ASSUME TypeOK, LeadInv, [Next]_vars PROVE LeadInv'
    OBVIOUS
  <2>1. CASE Tick \/ UNCHANGED vars
    <3>1. UNCHANGED <<channel, pending, recent, firstAt, evicted>>
      BY <2>1 DEF Tick, vars, state, history
    <3> QED
      BY <3>1 DEF LeadInv, MessagesKnown, FirstCopyWaits, FirstCopyLeads, ArrivalsTrue,
                  PairsDelivered, LeadIsTrueLead, ArrivedOn, About
  <2> QED BY <2>1, DeliverLeads, ObserveLeads, EvictLeads DEF Next
<1>3. LeadInv => LeadIsTrueLead
  BY DEF LeadInv
<1> QED BY <1>1, <1>2, <1>3, RaceTypeCorrect, PTL DEF Spec

-----------------------------------------------------------------------------
(* The snapshot *)

\* The deltas of one lane in the window.
OwnDeltas(lane) == {i \in DOMAIN deltas : deltas[i].lane = lane}

\* A delta in the window was matched.
WindowCounted == \A l \in Lanes : Cardinality(OwnDeltas(l)) <= matched[l]

LEMMA OwnFinite ==
  ASSUME TypeOK, NEW l
  PROVE  /\ IsFiniteSet(OwnDeltas(l)) /\ Cardinality(OwnDeltas(l)) \in Nat
         /\ OwnDeltas(l) \in SUBSET DOMAIN deltas /\ DOMAIN deltas = 1 .. Len(deltas)
         /\ Len(deltas) \in Nat
<1>1. DOMAIN deltas = 1 .. Len(deltas) /\ Len(deltas) \in Nat
  BY DEF TypeOK
<1>2. OwnDeltas(l) \in SUBSET DOMAIN deltas
  BY DEF OwnDeltas
<1>3. IsFiniteSet(DOMAIN deltas)
  BY <1>1, FS_Interval
<1>4. IsFiniteSet(OwnDeltas(l)) /\ Cardinality(OwnDeltas(l)) \in Nat
  BY <1>2, <1>3, FS_Subset, FS_CardinalityType
<1> QED BY <1>1, <1>2, <1>4

\* observe files at most one delta for a lane, and counts it as matched.
LEMMA ObserveCounted ==
  ASSUME TypeOK, WindowCounted, NEW c \in Channels, Observe(c)
  PROVE  WindowCounted'
<1> DEFINE m        == Head(channel[c])
           entry    == EntryFor(m)
           arrivals == Arrived(entry, m)
           ready    == Ready(entry, arrivals)
<1>1. channel[c] # <<>>
  BY DEF Observe
<1>2. /\ m \in SeenTx
      /\ DOMAIN arrivals \subseteq Lanes
      /\ \A l \in DOMAIN arrivals : arrivals[l] \in 0 .. now
      /\ ready \subseteq DOMAIN arrivals \ {Reference}
      /\ ready # {} => Reference \in DOMAIN arrivals
      /\ Cardinality(ready) \in Nat
  BY <1>1, ObserveTypes
<1>3. PICK order \in Orders(ready) :
        /\ deltas' = deltas \o NewDeltas(m, arrivals, order)
        /\ matched' = [l \in Lanes |-> IF l \in ready THEN matched[l] + 1 ELSE matched[l]]
  BY DEF Observe
<1> DEFINE new == NewDeltas(m, arrivals, order)
           n == Cardinality(ready)
<1> HIDE DEF m, entry, arrivals, ready
<1>4. new \in Seq(DeltaType)
  BY <1>2, NewRows
<1>5. /\ order \in [1 .. n -> ready]
      /\ \A i, j \in 1 .. n : order[i] = order[j] => i = j
  BY DEF Orders, Injection, IsInjective
<1>6. DOMAIN new = 1 .. n /\ \A i \in 1 .. n : new[i].lane = order[i]
  BY <1>5 DEF NewDeltas
<1>7. n \in Nat /\ Len(new) = n
  BY <1>2, <1>4, <1>6
<1> HIDE DEF new, n
<1>8. deltas \in Seq(DeltaType) /\ Len(deltas) \in Nat /\ DOMAIN deltas = 1 .. Len(deltas)
  BY DEF TypeOK, DeltaType
<1>9. /\ DOMAIN deltas' = 1 .. Len(deltas) + n
      /\ \A i \in 1 .. Len(deltas) + n :
           deltas'[i] = IF i <= Len(deltas) THEN deltas[i] ELSE new[i - Len(deltas)]
  <2>1. /\ deltas' \in Seq(DeltaType) /\ Len(deltas') = Len(deltas) + Len(new)
        /\ \A i \in 1 .. Len(deltas) + Len(new) :
             deltas'[i] = IF i <= Len(deltas) THEN deltas[i] ELSE new[i - Len(deltas)]
    BY <1>3, <1>4, <1>8, ConcatProperties DEF new
  <2> QED BY <2>1, <1>7
<1>10. ASSUME NEW l \in Lanes PROVE Cardinality(OwnDeltas(l)') <= matched'[l]
  <2>1. /\ IsFiniteSet(OwnDeltas(l)) /\ Cardinality(OwnDeltas(l)) \in Nat
        /\ OwnDeltas(l) \in SUBSET DOMAIN deltas
    BY OwnFinite
  <2>2. Cardinality(OwnDeltas(l)) <= matched[l] /\ matched[l] \in Nat
    BY DEF WindowCounted, TypeOK
  <2>3. OwnDeltas(l)' = {i \in DOMAIN deltas' : deltas'[i].lane = l}
    BY DEF OwnDeltas
  <2>4. \A i \in DOMAIN deltas : i \in OwnDeltas(l)' <=> i \in OwnDeltas(l)
    BY <2>3, <1>7, <1>8, <1>9 DEF OwnDeltas
  <2>5. ASSUME NEW i \in OwnDeltas(l)', i \notin DOMAIN deltas
        PROVE  /\ i - Len(deltas) \in 1 .. n /\ order[i - Len(deltas)] = l /\ l \in ready
               /\ i \in Nat
    <3>1. i \in 1 .. Len(deltas) + n /\ ~(i <= Len(deltas))
      BY <2>3, <2>5, <1>7, <1>8, <1>9
    <3>2. i - Len(deltas) \in 1 .. n
      BY <3>1, <1>7, <1>8
    <3>3. deltas'[i] = new[i - Len(deltas)]
      BY <3>1, <1>9
    <3>4. order[i - Len(deltas)] = l
      BY <2>3, <3>2, <3>3, <1>6
    <3> QED BY <3>1, <3>2, <3>4, <1>5
  <2>6. CASE \E i \in OwnDeltas(l)' : i \notin DOMAIN deltas
    <3>1. PICK i \in OwnDeltas(l)' : i \notin DOMAIN deltas
      BY <2>6
    <3>2. \A j \in OwnDeltas(l)' : j \notin DOMAIN deltas => j = i
      <4> SUFFICES ASSUME NEW j \in OwnDeltas(l)', j \notin DOMAIN deltas PROVE j = i
        OBVIOUS
      <4>1. /\ i - Len(deltas) \in 1 .. n /\ order[i - Len(deltas)] = l /\ i \in Nat
            /\ j - Len(deltas) \in 1 .. n /\ order[j - Len(deltas)] = l /\ j \in Nat
        BY <2>5, <3>1
      <4>2. i - Len(deltas) = j - Len(deltas)
        BY <4>1, <1>5
      <4> QED BY <4>1, <4>2, <1>8
    <3>3. OwnDeltas(l)' = OwnDeltas(l) \cup {i}
      BY <2>1, <2>4, <3>1, <3>2
    <3>4. i \notin OwnDeltas(l)
      BY <2>1, <3>1
    <3>5. Cardinality(OwnDeltas(l)') = Cardinality(OwnDeltas(l)) + 1
      BY <2>1, <3>3, <3>4, FS_AddElement
    <3>6. matched'[l] = matched[l] + 1
      BY <2>5, <3>1, <1>3
    <3> QED BY <2>1, <2>2, <3>5, <3>6
  <2>7. CASE ~(\E i \in OwnDeltas(l)' : i \notin DOMAIN deltas)
    <3>1. OwnDeltas(l)' = OwnDeltas(l)
      BY <2>1, <2>4, <2>7
    <3>2. matched'[l] \in {matched[l], matched[l] + 1}
      BY <1>3
    <3> QED BY <2>1, <2>2, <3>1, <3>2
  <2> QED BY <2>6, <2>7
<1> QED BY <1>10 DEF WindowCounted

\* evict only takes deltas out of the window.
LEMMA EvictCounted == TypeOK /\ WindowCounted /\ Evict => WindowCounted'
<1> SUFFICES ASSUME TypeOK, WindowCounted, Evict PROVE WindowCounted'
  OBVIOUS
<1>1. deltas \in Seq(DeltaType) /\ Len(deltas) \in Nat /\ DOMAIN deltas = 1 .. Len(deltas)
  BY DEF TypeOK, DeltaType
<1>2. deltas' = DropExpired(deltas) /\ matched' = matched
  BY DEF Evict
<1>3. CASE deltas' = <<>>
  <2>1. \A l : OwnDeltas(l)' = {}
    BY <1>3 DEF OwnDeltas
  <2>2. \A l \in Lanes : matched[l] \in Nat
    BY DEF TypeOK
  <2>3. \A l : Cardinality(OwnDeltas(l)') = 0
    BY <2>1, FS_EmptySet
  <2> QED BY <2>2, <2>3, <1>2 DEF WindowCounted
<1>4. ASSUME NEW k \in 1 .. Len(deltas), DropExpired(deltas) = SubSeq(deltas, k, Len(deltas))
      PROVE  WindowCounted'
  <2>1. /\ DOMAIN deltas' = 1 .. Len(deltas) - k + 1
        /\ \A i \in 1 .. Len(deltas) - k + 1 : deltas'[i] = deltas[k + i - 1]
    <3>1. /\ deltas' \in Seq(DeltaType) /\ Len(deltas') = Len(deltas) - k + 1
          /\ \A i \in 1 .. Len(deltas') : deltas'[i] = deltas[k + i - 1]
      BY <1>1, <1>2, <1>4, SuffixProperties
    <3> QED BY <3>1
  <2>2. ASSUME NEW l \in Lanes PROVE Cardinality(OwnDeltas(l)') <= matched[l]
    <3> DEFINE S == OwnDeltas(l)'
               T == OwnDeltas(l)
               f == [i \in S |-> k + i - 1]
    <3>1. \A i \in S : i \in Nat /\ k + i - 1 \in T
      BY <1>1, <2>1 DEF OwnDeltas
    <3>2. IsFiniteSet(T) /\ Cardinality(T) \in Nat
      BY OwnFinite
    <3>3. Cardinality(T) <= matched[l] /\ matched[l] \in Nat
      BY DEF WindowCounted, TypeOK
    <3> HIDE DEF S, T
    <3>4. f \in Injection(S, T)
      BY <3>1 DEF Injection, IsInjective
    <3> HIDE DEF f
    <3>5. IsFiniteSet(S) /\ Cardinality(S) <= Cardinality(T)
      BY <3>2, <3>4, FS_Injection
    <3>6. Cardinality(S) \in Nat
      BY <3>5, FS_CardinalityType
    <3>7. Cardinality(S) <= matched[l]
      BY <3>2, <3>3, <3>5, <3>6
    <3> QED BY <3>7 DEF S
  <2> QED BY <2>2, <1>2 DEF WindowCounted
<1> QED BY <1>1, <1>2, <1>3, <1>4, DropExpiredIsSuffix

\* The window never holds more of a lane than was matched with it.
THEOREM RaceWindowCounted == Spec => []WindowCounted
<1>1. Init => WindowCounted
  <2> SUFFICES ASSUME Init PROVE WindowCounted
    OBVIOUS
  <2>1. \A l : OwnDeltas(l) = {}
    BY DEF Init, OwnDeltas
  <2>2. \A l : Cardinality(OwnDeltas(l)) = 0
    BY <2>1, FS_EmptySet
  <2> QED BY <2>2 DEF Init, WindowCounted
<1>2. TypeOK /\ WindowCounted /\ [Next]_vars => WindowCounted'
  <2> SUFFICES ASSUME TypeOK, WindowCounted, [Next]_vars PROVE WindowCounted'
    OBVIOUS
  <2>1. CASE \E c \in Channels : Observe(c)
    BY <2>1, ObserveCounted
  <2>2. CASE Evict
    BY <2>2, EvictCounted
  <2>3. CASE UNCHANGED state
    BY <2>3 DEF state, WindowCounted, OwnDeltas
  <2>4. CASE Tick \/ (\E l \in Lanes, s \in Sigs : Deliver(l, s)) \/ UNCHANGED vars
    BY <2>3, <2>4 DEF Tick, Deliver, vars
  <2> QED BY <2>1, <2>2, <2>4 DEF Next
<1> QED BY <1>1, <1>2, RaceTypeCorrect, PTL DEF Spec

\* Where percentile looks in a sorted list of n.
Rung(n, p) ==
  LET index == ((n - 1) * p * 2 + 100) \div 200
  IN IF index < n THEN index + 1 ELSE n

\* Half a step more, rounded down: what the division by 200 does.
LEMMA Rounded ==
  ASSUME NEW a \in Nat
  PROVE  /\ a \div 200 \in Nat
         /\ 200 * (a \div 200) <= a /\ a < 200 * (a \div 200) + 200
OBVIOUS

\* A product of naturals grows with either factor.
LEMMA ProductGrows ==
  ASSUME NEW a \in Nat, NEW p \in Nat, NEW q \in Nat, p <= q
  PROVE  a * p \in Nat /\ a * q \in Nat /\ a * p <= a * q
<1>1. PICK d \in Nat : q = p + d
  <2>1. q - p \in Nat /\ q = p + (q - p)
    OBVIOUS
  <2> QED BY <2>1
<1>2. a * q = a * p + a * d
  BY <1>1
<1>3. a * p \in Nat /\ a * d \in Nat
  OBVIOUS
<1> QED BY <1>2, <1>3

\* A rung is a place of the list, and higher rungs are further on.
LEMMA RungRises ==
  ASSUME NEW n \in Nat \ {0}, NEW p \in Nat, NEW q \in Nat, p <= q
  PROVE  /\ Rung(n, p) \in 1 .. n /\ Rung(n, q) \in 1 .. n
         /\ Rung(n, p) <= Rung(n, q)
<1> DEFINE a == (n - 1) * p * 2 + 100
           b == (n - 1) * q * 2 + 100
<1>1. /\ (n - 1) * p \in Nat /\ (n - 1) * q \in Nat
      /\ (n - 1) * p <= (n - 1) * q
  BY ProductGrows
<1>2. a \in Nat /\ b \in Nat /\ a <= b
  BY <1>1
<1>3. Rung(n, p) = (IF a \div 200 < n THEN a \div 200 + 1 ELSE n)
      /\ Rung(n, q) = (IF b \div 200 < n THEN b \div 200 + 1 ELSE n)
  BY DEF Rung
<1> HIDE DEF a, b
<1>4. /\ a \div 200 \in Nat /\ 200 * (a \div 200) <= a /\ a < 200 * (a \div 200) + 200
      /\ b \div 200 \in Nat /\ 200 * (b \div 200) <= b /\ b < 200 * (b \div 200) + 200
  BY <1>2, Rounded
<1>5. a \div 200 <= b \div 200
  BY <1>2, <1>4
<1> QED BY <1>3, <1>4, <1>5

\* The same rung of a list that is longer by some is further on by no more.
LEMMA RungShift ==
  ASSUME NEW n \in Nat \ {0}, NEW m \in 1 .. n, NEW p \in 0 .. 100
  PROVE  Rung(n, p) <= (n - m) + Rung(m, p)
<1> DEFINE a == (n - 1) * p * 2 + 100
           b == (m - 1) * p * 2 + 100
           d == n - m
<1>1. d \in Nat /\ m - 1 \in Nat /\ n - 1 = (m - 1) + d
  OBVIOUS
<1>2. (n - 1) * p = (m - 1) * p + d * p
  BY <1>1
<1>3. d * p \in Nat /\ d * p <= d * 100
  BY <1>1, ProductGrows
<1>4. (m - 1) * p \in Nat
  BY <1>1
<1>5. a \in Nat /\ b \in Nat /\ a <= b + 200 * d
  BY <1>1, <1>2, <1>3, <1>4
<1>6. Rung(n, p) = (IF a \div 200 < n THEN a \div 200 + 1 ELSE n)
      /\ Rung(m, p) = (IF b \div 200 < m THEN b \div 200 + 1 ELSE m)
  BY DEF Rung
<1>7. d = n - m
  OBVIOUS
<1> HIDE DEF a, b, d
<1>8. /\ a \div 200 \in Nat /\ 200 * (a \div 200) <= a /\ a < 200 * (a \div 200) + 200
      /\ b \div 200 \in Nat /\ 200 * (b \div 200) <= b /\ b < 200 * (b \div 200) + 200
  BY <1>5, Rounded
<1>9. a \div 200 <= b \div 200 + d
  BY <1>1, <1>5, <1>8
<1>10. Rung(n, p) <= d + Rung(m, p)
  BY <1>1, <1>6, <1>7, <1>8, <1>9
<1> QED BY <1>7, <1>10

LEMMA LadderRises ==
  /\ DOMAIN LADDER = 1 .. 10
  /\ \A i \in 1 .. 10 : LADDER[i] \in 0 .. 100
  /\ \A i, j \in 1 .. 10 : i <= j => LADDER[i] <= LADDER[j]
<1>1. /\ LADDER[1] = 1 /\ LADDER[2] = 5 /\ LADDER[3] = 10 /\ LADDER[4] = 25
      /\ LADDER[5] = 50 /\ LADDER[6] = 75 /\ LADDER[7] = 80 /\ LADDER[8] = 90
      /\ LADDER[9] = 95 /\ LADDER[10] = 99 /\ DOMAIN LADDER = 1 .. 10
  BY DEF LADDER
<1>2. \A i \in 1 .. 10 : \/ i = 1 \/ i = 2 \/ i = 3 \/ i = 4 \/ i = 5
                         \/ i = 6 \/ i = 7 \/ i = 8 \/ i = 9 \/ i = 10
  OBVIOUS
<1>3. \A i \in 1 .. 10 : LADDER[i] \in 0 .. 100
  BY <1>1, <1>2
<1>4. \A i, j \in 1 .. 10 : i <= j => LADDER[i] <= LADDER[j]
  BY <1>1, <1>2
<1> QED BY <1>1, <1>3, <1>4

\* A lead is a whole number of ticks.
LEMMA LeadTypes ==
  ASSUME TypeOK, NEW i \in DOMAIN deltas
  PROVE  deltas[i].lead \in Int /\ i \in Nat
<1>1. deltas \in Seq(DeltaType) BY DEF TypeOK, DeltaType
<1>2. deltas[i] \in DeltaType /\ i \in Nat BY <1>1
<1> QED BY <1>2 DEF DeltaType

\* Comparing leads, and places where they are equal, orders the deltas.
LEMMA ShorterOrders ==
  ASSUME TypeOK, NEW own \in SUBSET DOMAIN deltas
  PROVE  /\ TotalOrder(Shorter(own), own) /\ IsFiniteSet(own)
         /\ \A i, j \in own : <<i, j>> \in Shorter(own) <=>
              \/ deltas[i].lead < deltas[j].lead
              \/ deltas[i].lead = deltas[j].lead /\ i < j
<1>1. \A i \in own : deltas[i].lead \in Int /\ i \in Nat
  BY LeadTypes
<1>2. \A i, j \in own : <<i, j>> \in Shorter(own) <=>
              \/ deltas[i].lead < deltas[j].lead
              \/ deltas[i].lead = deltas[j].lead /\ i < j
  BY DEF Shorter
<1>3. TotalOrder(Shorter(own), own)
  BY <1>1, <1>2 DEF TotalOrder
<1>4. IsFiniteSet(own)
  <2>1. IsFiniteSet(DOMAIN deltas)
    <3>1. DOMAIN deltas = 1 .. Len(deltas) /\ Len(deltas) \in Nat BY DEF TypeOK
    <3> QED BY <3>1, FS_Interval
  <2> QED BY <2>1, FS_Subset
<1> QED BY <1>2, <1>3, <1>4

\* The delta whose lead is the k-th.
Kth(own, k) == InOrder(own, Shorter(own))[k]

\* leads lists the leads from the smallest to the largest.
LEMMA LeadsSorted ==
  ASSUME TypeOK, NEW own \in SUBSET DOMAIN deltas
  PROVE  /\ Cardinality(own) \in Nat
         /\ leads(own) \in Seq(Int) /\ Len(leads(own)) = Cardinality(own)
         /\ \A k \in 1 .. Cardinality(own) :
              /\ Kth(own, k) \in own /\ leads(own)[k] = deltas[Kth(own, k)].lead
              /\ leads(own)[k] \in Int
              /\ Cardinality(Earlier(own, Shorter(own), Kth(own, k))) = k - 1
         /\ \A j, k \in 1 .. Cardinality(own) : j <= k => leads(own)[j] <= leads(own)[k]
<1> DEFINE n == Cardinality(own)
           F == InOrder(own, Shorter(own))
<1>1. /\ TotalOrder(Shorter(own), own) /\ IsFiniteSet(own)
      /\ \A i, j \in own : <<i, j>> \in Shorter(own) <=>
           \/ deltas[i].lead < deltas[j].lead
           \/ deltas[i].lead = deltas[j].lead /\ i < j
  BY ShorterOrders
<1>2. /\ n \in Nat /\ F \in [1 .. n -> own]
      /\ \A k \in 1 .. n : Cardinality(Earlier(own, Shorter(own), F[k])) = k - 1
      /\ \A i, j \in 1 .. n : i < j => <<F[i], F[j]>> \in Shorter(own)
  BY <1>1, InOrderSorts
<1>3. leads(own) = [k \in 1 .. n |-> deltas[F[k]].lead]
  BY DEF leads
<1>4. \A k : Kth(own, k) = F[k] BY DEF Kth
<1>5. \A i \in own : deltas[i].lead \in Int BY LeadTypes
<1> HIDE DEF n, F
<1>6. leads(own) \in [1 .. n -> Int] BY <1>2, <1>3, <1>5
<1>7. leads(own) \in Seq(Int) /\ Len(leads(own)) = n BY <1>2, <1>6, FunctionIsSeq
<1>8. \A k \in 1 .. n : F[k] \in own /\ leads(own)[k] = deltas[F[k]].lead /\ leads(own)[k] \in Int
  BY <1>2, <1>3, <1>5
<1>9. ASSUME NEW j \in 1 .. n, NEW k \in 1 .. n, j <= k
      PROVE  leads(own)[j] <= leads(own)[k]
  <2>1. CASE j = k BY <2>1, <1>8
  <2>2. CASE j < k
    <3>1. <<F[j], F[k]>> \in Shorter(own) BY <2>2, <1>2
    <3>2. deltas[F[j]].lead <= deltas[F[k]].lead BY <3>1, <1>1, <1>5, <1>8
    <3> QED BY <3>2, <1>8
  <2> QED BY <2>1, <2>2, <1>9, <1>2
<1> QED BY <1>2, <1>4, <1>7, <1>8, <1>9 DEF n

\* A ladder over some of the deltas: empty if there are none, otherwise each
\* rung is one of their leads and the rungs climb.
LEMMA LadderOver ==
  ASSUME TypeOK, NEW own \in SUBSET DOMAIN deltas
  PROVE  /\ Cardinality(own) \in Nat
         /\ Cardinality(own) = 0 <=> ladder(leads(own)) = <<>>
         /\ Cardinality(own) # 0 =>
              /\ DOMAIN ladder(leads(own)) = 1 .. 10
              /\ \A i \in 1 .. 10 :
                   /\ Rung(Cardinality(own), LADDER[i]) \in 1 .. Cardinality(own)
                   /\ ladder(leads(own))[i] = leads(own)[Rung(Cardinality(own), LADDER[i])]
         /\ \A i, j \in DOMAIN ladder(leads(own)) :
              i <= j => ladder(leads(own))[i] <= ladder(leads(own))[j]
         /\ \A i \in DOMAIN ladder(leads(own)) :
              \E k \in own : deltas[k].lead = ladder(leads(own))[i]
<1> DEFINE n == Cardinality(own)
           L == leads(own)
           Q == ladder(leads(own))
<1>1. /\ n \in Nat /\ L \in Seq(Int) /\ Len(L) = n
      /\ \A k \in 1 .. n : Kth(own, k) \in own /\ L[k] = deltas[Kth(own, k)].lead
      /\ \A j, k \in 1 .. n : j <= k => L[j] <= L[k]
  BY LeadsSorted
<1>2. Q = IF L = <<>> THEN <<>> ELSE [i \in DOMAIN LADDER |-> percentile(L, LADDER[i])]
  BY DEF ladder
<1>3. \A p : percentile(L, p) = L[Rung(Len(L), p)]
  BY DEF percentile, Rung
<1> HIDE DEF n, L, Q
<1>4. CASE n = 0
  <2>1. L = <<>> BY <1>1, <1>4
  <2>2. Q = <<>> /\ DOMAIN Q = {} BY <2>1, <1>2
  <2> QED BY <2>2, <1>1, <1>4 DEF n, L, Q
<1>5. CASE n # 0
  <2>1. L # <<>> BY <1>1, <1>5
  <2>2. DOMAIN Q = 1 .. 10 /\ \A i \in 1 .. 10 : Q[i] = L[Rung(n, LADDER[i])]
    BY <2>1, <1>1, <1>2, <1>3, LadderRises
  <2>3. Q # <<>>
    <3>1. DOMAIN <<>> = {} OBVIOUS
    <3>2. 1 \in 1 .. 10 OBVIOUS
    <3> QED BY <2>2, <3>1, <3>2
  <2>0. /\ n \in Nat \ {0} /\ \A i \in 1 .. 10 : LADDER[i] \in Nat
        /\ \A i, j \in 1 .. 10 : i <= j => LADDER[i] <= LADDER[j]
    <3>1. n \in Nat \ {0} BY <1>1, <1>5
    <3>2. \A i \in 1 .. 10 : LADDER[i] \in 0 .. 100 BY LadderRises
    <3>3. \A i \in 1 .. 10 : LADDER[i] \in Nat BY <3>2
    <3>4. \A i, j \in 1 .. 10 : i <= j => LADDER[i] <= LADDER[j] BY LadderRises
    <3> QED BY <3>1, <3>3, <3>4
  <2>4. ASSUME NEW i \in 1 .. 10, NEW j \in 1 .. 10, i <= j
        PROVE  /\ Rung(n, LADDER[i]) \in 1 .. n /\ Rung(n, LADDER[j]) \in 1 .. n
               /\ Rung(n, LADDER[i]) <= Rung(n, LADDER[j])
    <3>1. LADDER[i] \in Nat /\ LADDER[j] \in Nat /\ LADDER[i] <= LADDER[j]
      BY <2>0, <2>4
    <3> QED BY <2>0, <3>1, RungRises
  <2>5. \A i \in 1 .. 10 : Rung(n, LADDER[i]) \in 1 .. n
    <3> SUFFICES ASSUME NEW i \in 1 .. 10 PROVE Rung(n, LADDER[i]) \in 1 .. n
      OBVIOUS
    <3>1. i <= i OBVIOUS
    <3> QED BY <2>4, <3>1
  <2>6. ASSUME NEW i \in DOMAIN Q, NEW j \in DOMAIN Q, i <= j PROVE Q[i] <= Q[j]
    <3>1. /\ Rung(n, LADDER[i]) \in 1 .. n /\ Rung(n, LADDER[j]) \in 1 .. n
          /\ Rung(n, LADDER[i]) <= Rung(n, LADDER[j])
          /\ Q[i] = L[Rung(n, LADDER[i])] /\ Q[j] = L[Rung(n, LADDER[j])]
      BY <2>2, <2>4, <2>6
    <3> QED BY <3>1, <1>1
  <2>7. ASSUME NEW i \in DOMAIN Q PROVE \E k \in own : deltas[k].lead = Q[i]
    <3>1. Rung(n, LADDER[i]) \in 1 .. n /\ Q[i] = L[Rung(n, LADDER[i])] BY <2>2, <2>5
    <3> QED BY <3>1, <1>1
  <2> QED BY <1>1, <1>5, <2>2, <2>3, <2>5, <2>6, <2>7 DEF n, L, Q
<1> QED BY <1>4, <1>5

\* Every rung over the cases the reference won is at least the same rung over
\* all cases: the cases it did not win come before all it won.
LEMMA LedLeads ==
  ASSUME TypeOK, NEW own \in SUBSET DOMAIN deltas, NEW led,
         led = {i \in own : deltas[i].lead > 0}, Cardinality(led) # 0, NEW p \in 0 .. 100
  PROVE  /\ Cardinality(own) # 0
         /\ leads(led)[Rung(Cardinality(led), p)] > 0
         /\ leads(led)[Rung(Cardinality(led), p)] >= leads(own)[Rung(Cardinality(own), p)]
<1> DEFINE n == Cardinality(own)
           m == Cardinality(led)
           r == Rung(n, p)
           k == Rung(m, p)
           x == Kth(led, k)
           y == Kth(own, r)
<1>1. led \in SUBSET own /\ led \in SUBSET DOMAIN deltas OBVIOUS
<1>2. /\ TotalOrder(Shorter(own), own) /\ IsFiniteSet(own)
      /\ \A i, j \in own : <<i, j>> \in Shorter(own) <=>
           \/ deltas[i].lead < deltas[j].lead
           \/ deltas[i].lead = deltas[j].lead /\ i < j
  BY ShorterOrders
<1>3. /\ TotalOrder(Shorter(led), led) /\ IsFiniteSet(led)
      /\ \A i, j \in led : <<i, j>> \in Shorter(led) <=>
           \/ deltas[i].lead < deltas[j].lead
           \/ deltas[i].lead = deltas[j].lead /\ i < j
  BY <1>1, ShorterOrders
<1>4. n \in Nat /\ m \in Nat /\ m <= n /\ m # 0
  BY <1>1, <1>2, <1>3, FS_Subset, FS_CardinalityType
<1>5. /\ r \in 1 .. n /\ k \in 1 .. m /\ r <= (n - m) + k
  <2>1. n \in Nat \ {0} /\ m \in Nat \ {0} /\ m \in 1 .. n /\ p \in Nat /\ p <= p
    BY <1>4
  <2> HIDE DEF n, m
  <2>2. r \in 1 .. n BY <2>1, RungRises
  <2>3. k \in 1 .. m BY <2>1, RungRises
  <2>4. r <= (n - m) + k BY <2>1, RungShift
  <2> QED BY <2>2, <2>3, <2>4
<1>6. /\ x \in led /\ leads(led)[k] = deltas[x].lead
      /\ Cardinality(Earlier(led, Shorter(led), x)) = k - 1
  BY <1>1, <1>5, LeadsSorted
<1>7. /\ y \in own /\ leads(own)[r] = deltas[y].lead
      /\ Cardinality(Earlier(own, Shorter(own), y)) = r - 1
  BY <1>5, LeadsSorted
<1>8. \A i \in own : deltas[i].lead \in Int BY LeadTypes
<1> DEFINE lost == own \ led
           A == Earlier(led, Shorter(led), x)
           B == Earlier(own, Shorter(own), x)
<1> HIDE DEF n, m, r, k, x, y
<1>9. B = lost \cup A /\ lost \cap A = {}
  <2>1. \A i \in led : i \in B <=> i \in A
    BY <1>1, <1>2, <1>3, <1>6 DEF Earlier
  <2>2. \A i \in lost : i \in B
    BY <1>1, <1>2, <1>6, <1>8 DEF Earlier
  <2>3. A \subseteq led /\ B \subseteq own BY DEF Earlier
  <2> HIDE DEF A, B
  <2> QED BY <1>1, <2>1, <2>2, <2>3
<1>10. Cardinality(lost) = n - m /\ IsFiniteSet(lost)
  <2>1. own \cap led = led BY <1>1
  <2>2. /\ IsFiniteSet(own \ led)
        /\ Cardinality(own \ led) = Cardinality(own) - Cardinality(own \cap led)
    BY <1>2, FS_Difference
  <2> QED BY <2>1, <2>2 DEF n, m
<1>11. IsFiniteSet(A) /\ Cardinality(A) = k - 1
  <2>1. A \in SUBSET led BY DEF Earlier
  <2> QED BY <2>1, <1>3, <1>6, FS_Subset
<1> HIDE DEF lost, A, B
<1>12. Cardinality(B) = (n - m) + (k - 1)
  <2>1. Cardinality(B) = Cardinality(lost) + Cardinality(A) - Cardinality({})
    BY <1>9, <1>10, <1>11, FS_Union
  <2>2. Cardinality({}) = 0 BY FS_EmptySet
  <2> QED BY <2>1, <2>2, <1>4, <1>5, <1>10, <1>11
<1>13. <<x, y>> \notin Shorter(own)
  <2> SUFFICES ASSUME <<x, y>> \in Shorter(own) PROVE FALSE OBVIOUS
  <2>1. x \in own BY <1>1, <1>6
  <2>2. Cardinality(B) < r - 1 BY <2>1, <1>2, <1>7, RankRises DEF B
  <2> QED BY <2>2, <1>4, <1>5, <1>12
<1>14. deltas[y].lead <= deltas[x].lead
  BY <1>1, <1>2, <1>6, <1>7, <1>8, <1>13
<1>15. deltas[x].lead > 0 BY <1>6
<1> QED BY <1>4, <1>6, <1>7, <1>14, <1>15, <1>8, <1>1 DEF n, m, r, k

\* Race::snapshot: a published row never contradicts itself, for any window,
\* any leads and any number of lanes.
THEOREM RaceSnapshotCoherent == Spec => []SnapshotCoherent
<1>1. TypeOK /\ WindowCounted => SnapshotCoherent
  <2> SUFFICES ASSUME TypeOK, WindowCounted, NEW row \in snapshot.lanes
               PROVE  /\ row.n_window <= row.matched
                      /\ (row.n_window = 0) = (row.quantiles = <<>>)
                      /\ (row.ahead = 0) = (row.led_quantiles = <<>>)
                      /\ \A q \in {row.quantiles, row.led_quantiles} :
                           /\ \A i, j \in DOMAIN q : i <= j => q[i] <= q[j]
                           /\ \A i \in DOMAIN q : \E k \in DOMAIN deltas :
                                deltas[k].lane = row.lane /\ deltas[k].lead = q[i]
                      /\ \A i \in DOMAIN row.led_quantiles :
                           /\ row.led_quantiles[i] > 0
                           /\ row.led_quantiles[i] >= row.quantiles[i]
    BY DEF SnapshotCoherent
  <2>1. PICK l \in Lanes : row = LaneStats(l)
    BY DEF snapshot
  <2> DEFINE own == OwnDeltas(l)
             led == {i \in own : deltas[i].lead > 0}
  <2>2. /\ row.lane = l /\ row.matched = matched[l]
        /\ row.n_window = Cardinality(own) /\ row.ahead = Cardinality(led)
        /\ row.quantiles = ladder(leads(own)) /\ row.led_quantiles = ladder(leads(led))
    BY <2>1 DEF LaneStats, OwnDeltas
  <2>3. own \in SUBSET DOMAIN deltas /\ led \in SUBSET DOMAIN deltas
        /\ \A i \in own : deltas[i].lane = l
    BY DEF OwnDeltas
  <2>4. Cardinality(own) <= matched[l] BY DEF WindowCounted
  <2>5. led = {i \in own : deltas[i].lead > 0} /\ led \subseteq own OBVIOUS
  <2> HIDE DEF own, led
  <2>6. /\ Cardinality(own) = 0 <=> row.quantiles = <<>>
        /\ Cardinality(own) # 0 =>
             \A i \in 1 .. 10 :
               row.quantiles[i] = leads(own)[Rung(Cardinality(own), LADDER[i])]
        /\ \A i, j \in DOMAIN row.quantiles : i <= j => row.quantiles[i] <= row.quantiles[j]
        /\ \A i \in DOMAIN row.quantiles : \E k \in own : deltas[k].lead = row.quantiles[i]
    BY <2>2, <2>3, LadderOver
  <2>7. /\ Cardinality(led) = 0 <=> row.led_quantiles = <<>>
        /\ Cardinality(led) # 0 =>
             /\ DOMAIN row.led_quantiles = 1 .. 10
             /\ \A i \in 1 .. 10 :
                  row.led_quantiles[i] = leads(led)[Rung(Cardinality(led), LADDER[i])]
        /\ \A i, j \in DOMAIN row.led_quantiles :
             i <= j => row.led_quantiles[i] <= row.led_quantiles[j]
        /\ \A i \in DOMAIN row.led_quantiles : \E k \in led : deltas[k].lead = row.led_quantiles[i]
    BY <2>2, <2>3, LadderOver
  <2>8. ASSUME NEW i \in DOMAIN row.led_quantiles
        PROVE  row.led_quantiles[i] > 0 /\ row.led_quantiles[i] >= row.quantiles[i]
    <3>1. Cardinality(led) # 0 /\ i \in 1 .. 10
      BY <2>7, <2>8
    <3>2. LADDER[i] \in 0 .. 100 BY <3>1, LadderRises
    <3>3. /\ Cardinality(own) # 0
          /\ leads(led)[Rung(Cardinality(led), LADDER[i])] > 0
          /\ leads(led)[Rung(Cardinality(led), LADDER[i])]
               >= leads(own)[Rung(Cardinality(own), LADDER[i])]
      BY <2>3, <2>5, <3>1, <3>2, LedLeads
    <3> QED BY <2>6, <2>7, <3>1, <3>3
  <2>9. /\ \A i \in DOMAIN row.quantiles : \E k \in DOMAIN deltas :
             deltas[k].lane = l /\ deltas[k].lead = row.quantiles[i]
        /\ \A i \in DOMAIN row.led_quantiles : \E k \in DOMAIN deltas :
             deltas[k].lane = l /\ deltas[k].lead = row.led_quantiles[i]
    BY <2>3, <2>5, <2>6, <2>7
  <2> QED BY <2>2, <2>4, <2>6, <2>7, <2>8, <2>9
<1> QED BY <1>1, RaceTypeCorrect, RaceWindowCounted, PTL
=============================================================================
