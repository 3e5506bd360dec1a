--------------------------- MODULE ExecutorProofs ---------------------------
(***************************************************************************)
(* Proofs about Executor, for any set of lanes, any mode and any limits.   *)
(***************************************************************************)
EXTENDS Executor, FiniteSetTheorems, TLAPS

-----------------------------------------------------------------------------
(* Sums over a finite set.  The library's folds are recursive functions over *)
(* the subsets of a set; what follows shows that they exist and unfold, by   *)
(* taking a smallest subset for which they would not.                        *)

Pick(s) == CHOOSE x \in s : TRUE

\* F is the recursive function behind the sum of f over S.
IsSum(F, f, S) ==
  F = [s \in SUBSET S |-> IF s = {} THEN 0 ELSE f[Pick(s)] + F[s \ {Pick(s)}]]

\* Some such function, if there is one.
SumOf(f, S) == CHOOSE F : IsSum(F, f, S)

\* A nonempty set of subsets of a finite set has a smallest member.
LEMMA SmallestSubset ==
  ASSUME NEW S, IsFiniteSet(S), NEW T \in SUBSET SUBSET S, T # {}
  PROVE  \E x \in T : \A y \in T : y \subseteq x => y = x
<1>1. IsWellFoundedOn(StrictSubsetOrdering(S), SUBSET S)
  BY FS_StrictSubsetOrderingWellFounded, FS_FiniteSubsetsOfFinite, Zenon
<1>2. \E x \in T : \A y \in T : ~ (<<y, x>> \in StrictSubsetOrdering(S))
  BY <1>1, WFMin, Zenon
<1> QED BY <1>2 DEF StrictSubsetOrdering

LEMMA PickIn == \A s : s # {} => Pick(s) \in s
  BY DEF Pick

\* Two such functions agree where both are defined.
LEMMA SumUnique ==
  ASSUME NEW f, NEW S, IsFiniteSet(S), NEW R, NEW F, NEW G, IsSum(F, f, S), IsSum(G, f, R)
  PROVE  \A s \in SUBSET S : s \in SUBSET R => F[s] = G[s]
<1> DEFINE T == {s \in SUBSET S : s \in SUBSET R /\ F[s] # G[s]}
<1>1. ASSUME T # {} PROVE FALSE
  <2>0. T \in SUBSET SUBSET S
    OBVIOUS
  <2>1. PICK s \in T : \A y \in T : y \subseteq s => y = s
    <3> HIDE DEF T
    <3> QED BY <1>1, <2>0, SmallestSubset
  <2>2. CASE s = {}
    BY <2>1, <2>2 DEF IsSum
  <2>3. CASE s # {}
    <3>1. Pick(s) \in s /\ s \ {Pick(s)} \subseteq s /\ s \ {Pick(s)} # s
      BY <2>3, PickIn
    <3>2. s \ {Pick(s)} \in SUBSET S /\ s \ {Pick(s)} \in SUBSET R
      BY <2>1
    <3>3. F[s \ {Pick(s)}] = G[s \ {Pick(s)}]
      BY <2>1, <3>1, <3>2, Zenon
    <3>4. F[s] = f[Pick(s)] + F[s \ {Pick(s)}] /\ G[s] = f[Pick(s)] + G[s \ {Pick(s)}]
      BY <2>1, <2>3 DEF IsSum
    <3> QED BY <3>3, <3>4, <2>1
  <2> QED BY <2>2, <2>3
<1> QED BY <1>1

\* It exists for every finite set.
LEMMA SumExists ==
  ASSUME NEW f, NEW S, IsFiniteSet(S)
  PROVE  \A s \in SUBSET S : IsSum(SumOf(f, s), f, s)
<1> DEFINE T == {s \in SUBSET S : ~ IsSum(SumOf(f, s), f, s)}
<1>1. ASSUME T # {} PROVE FALSE
  <2>0. T \in SUBSET SUBSET S
    OBVIOUS
  <2>1. PICK s \in T : \A y \in T : y \subseteq s => y = s
    <3> HIDE DEF T
    <3> QED BY <1>1, <2>0, SmallestSubset
  <2> DEFINE V(t) == SumOf(f, t)[t]
             H    == [u \in SUBSET s |-> IF u = {} THEN 0 ELSE f[Pick(u)] + V(u \ {Pick(u)})]
  <2>2. \A t \in SUBSET s : t # s => IsSum(SumOf(f, t), f, t)
    BY <2>1, Zenon
  <2>3. \A t \in SUBSET s : IsFiniteSet(t)
    BY FS_Subset, Zenon
  <2>4. ASSUME NEW t \in SUBSET s, t # s PROVE H[t] = V(t)
    <3>1. IsSum(SumOf(f, t), f, t)
      BY <2>2, <2>4
    <3>2. CASE t = {}
      BY <3>1, <3>2 DEF IsSum
    <3>3. CASE t # {}
      <4> DEFINE v == t \ {Pick(t)}
      <4>1. v \in SUBSET t /\ v \in SUBSET s /\ v # s
        BY <3>3, PickIn
      <4>2. IsSum(SumOf(f, v), f, v)
        BY <2>2, <4>1
      <4>3. SumOf(f, t)[v] = SumOf(f, v)[v]
        BY <4>1, <4>2, <3>1, <2>3, SumUnique
      <4>4. SumOf(f, t)[t] = f[Pick(t)] + SumOf(f, t)[v]
        BY <3>1, <3>3 DEF IsSum
      <4>5. H[t] = f[Pick(t)] + V(v)
        BY <3>3
      <4> QED BY <4>3, <4>4, <4>5
    <3> QED BY <3>2, <3>3
  <2>5. \A u \in SUBSET s : u # {} => u \ {Pick(u)} \in SUBSET s /\ u \ {Pick(u)} # s
    BY PickIn
  <2>6. \A u \in SUBSET s : u # {} => H[u \ {Pick(u)}] = V(u \ {Pick(u)})
    BY <2>4, <2>5, Zenon
  <2>7. IsSum(H, f, s)
    <3> HIDE DEF V
    <3> QED BY <2>6 DEF IsSum
  <2>8. IsSum(SumOf(f, s), f, s)
    <3> HIDE DEF H
    <3> QED BY <2>7, Zenon DEF SumOf
  <2> QED BY <2>1, <2>8
<1> QED BY <1>1

\* The sum over nothing is zero.
LEMMA SumEmpty == \A f : SumFunctionOnSet(f, {}) = 0
<1> TAKE f
<1>1. IsSum(SumOf(f, {}), f, {})
  BY SumExists, FS_EmptySet, Zenon
<1>2. SumFunctionOnSet(f, {}) = SumOf(f, {})[{}]
  BY DEF SumFunctionOnSet, FoldFunctionOnSet, MapThenFoldSet, SumOf, IsSum, Pick
<1> QED BY <1>1, <1>2 DEF IsSum

\* The sum over a set is one member's value and the sum over the others.
LEMMA SumStep ==
  ASSUME NEW f, NEW S, IsFiniteSet(S), S # {}
  PROVE  SumFunctionOnSet(f, S) = f[Pick(S)] + SumFunctionOnSet(f, S \ {Pick(S)})
<1> DEFINE R == S \ {Pick(S)}
<1>1. \A s : SumFunctionOnSet(f, s) = SumOf(f, s)[s]
  BY DEF SumFunctionOnSet, FoldFunctionOnSet, MapThenFoldSet, SumOf, IsSum, Pick
<1>2. R \in SUBSET S /\ R \in SUBSET R /\ S \in SUBSET S
  OBVIOUS
<1>3. IsSum(SumOf(f, S), f, S) /\ IsSum(SumOf(f, R), f, R)
  BY <1>2, SumExists
<1>4. SumOf(f, S)[R] = SumOf(f, R)[R]
  BY <1>2, <1>3, SumUnique
<1>5. SumOf(f, S)[S] = f[Pick(S)] + SumOf(f, S)[R]
  BY <1>3 DEF IsSum
<1> QED BY <1>1, <1>4, <1>5

\* A sum of integers is an integer.
LEMMA SumInt ==
  ASSUME NEW f, NEW S, IsFiniteSet(S), \A x \in S : f[x] \in Int
  PROVE  SumFunctionOnSet(f, S) \in Int
<1> DEFINE T == {s \in SUBSET S : SumFunctionOnSet(f, s) \notin Int}
<1>1. ASSUME T # {} PROVE FALSE
  <2>0. T \in SUBSET SUBSET S
    OBVIOUS
  <2>1. PICK s \in T : \A y \in T : y \subseteq s => y = s
    <3> HIDE DEF T
    <3> QED BY <1>1, <2>0, SmallestSubset
  <2>2. IsFiniteSet(s)
    BY <2>1, FS_Subset
  <2>3. CASE s = {}
    BY <2>1, <2>3, SumEmpty
  <2>4. CASE s # {}
    <3>1. Pick(s) \in s /\ s \ {Pick(s)} \in SUBSET S
      BY <2>1, <2>4, PickIn
    <3>2. SumFunctionOnSet(f, s \ {Pick(s)}) \in Int
      <4>1. s \ {Pick(s)} \subseteq s /\ s \ {Pick(s)} # s
        BY <3>1
      <4> QED BY <2>1, <3>1, <4>1, Zenon
    <3>3. SumFunctionOnSet(f, s) = f[Pick(s)] + SumFunctionOnSet(f, s \ {Pick(s)})
      BY <2>2, <2>4, SumStep
    <3> HIDE DEF T
    <3>4. f[Pick(s)] \in Int
      BY <2>1, <3>1 DEF T
    <3>5. SumFunctionOnSet(f, s) \in Int
      BY <3>2, <3>3, <3>4
    <3> QED BY <2>1, <3>5 DEF T
  <2> QED BY <2>3, <2>4
<1> QED BY <1>1

\* Any member may be taken out, not only the one the fold picks.
LEMMA SumRemove ==
  ASSUME NEW f, NEW S, IsFiniteSet(S), \A x \in S : f[x] \in Int
  PROVE  \A s \in SUBSET S : \A x \in s :
           SumFunctionOnSet(f, s) = f[x] + SumFunctionOnSet(f, s \ {x})
<1> DEFINE T == {s \in SUBSET S : \E x \in s :
                   SumFunctionOnSet(f, s) # f[x] + SumFunctionOnSet(f, s \ {x})}
<1>1. ASSUME T # {} PROVE FALSE
  <2>0. T \in SUBSET SUBSET S
    OBVIOUS
  <2>1. PICK s \in T : \A y \in T : y \subseteq s => y = s
    <3> HIDE DEF T
    <3> QED BY <1>1, <2>0, SmallestSubset
  <2>2. PICK x \in s : SumFunctionOnSet(f, s) # f[x] + SumFunctionOnSet(f, s \ {x})
    BY <2>1
  <2>3. Pick(s) \in s /\ s \in SUBSET S /\ IsFiniteSet(s)
    BY <2>1, <2>2, PickIn, FS_Subset
  <2> DEFINE c == Pick(s)
             sc == s \ {c}
             sx == s \ {x}
             scx == s \ {c, x}
  <2>4. SumFunctionOnSet(f, s) = f[c] + SumFunctionOnSet(f, sc)
    BY <2>2, <2>3, SumStep
  <2>5. CASE c = x
    BY <2>2, <2>4, <2>5
  <2>6. CASE c # x
    <3>1. sc \in SUBSET S /\ sx \in SUBSET S /\ sc \notin T /\ sx \notin T
      BY <2>1, <2>3
    <3>2. sc \ {x} = scx /\ sx \ {c} = scx /\ x \in sc /\ c \in sx
      BY <2>3, <2>6
    <3>3. SumFunctionOnSet(f, sc) = f[x] + SumFunctionOnSet(f, scx)
      BY <3>1, <3>2
    <3>4. SumFunctionOnSet(f, sx) = f[c] + SumFunctionOnSet(f, scx)
      BY <3>1, <3>2
    <3>5. SumFunctionOnSet(f, scx) \in Int
      <4>1. scx \in SUBSET S /\ IsFiniteSet(scx)
        BY <2>3, FS_Subset
      <4> QED BY <4>1, SumInt
    <3>6. f[x] \in Int /\ f[c] \in Int
      BY <2>3
    <3> HIDE DEF sc, sx, scx, c, T
    <3>7. SumFunctionOnSet(f, s) = f[x] + SumFunctionOnSet(f, sx)
      BY <2>4, <3>3, <3>4, <3>5, <3>6
    <3> QED BY <2>2, <3>7 DEF sx
  <2> QED BY <2>5, <2>6
<1> QED BY <1>1

\* The sum depends on the values over the set only.
LEMMA SumSame ==
  ASSUME NEW f, NEW g, NEW S, IsFiniteSet(S), \A x \in S : f[x] = g[x]
  PROVE  SumFunctionOnSet(f, S) = SumFunctionOnSet(g, S)
<1> DEFINE T == {s \in SUBSET S : SumFunctionOnSet(f, s) # SumFunctionOnSet(g, s)}
<1>1. ASSUME T # {} PROVE FALSE
  <2>0. T \in SUBSET SUBSET S
    OBVIOUS
  <2>1. PICK s \in T : \A y \in T : y \subseteq s => y = s
    <3> HIDE DEF T
    <3> QED BY <1>1, <2>0, SmallestSubset
  <2>2. IsFiniteSet(s)
    BY <2>1, FS_Subset
  <2>3. CASE s = {}
    BY <2>1, <2>3, SumEmpty
  <2>4. CASE s # {}
    <3>1. Pick(s) \in s /\ s \ {Pick(s)} \in SUBSET S
      BY <2>1, <2>4, PickIn
    <3>2. SumFunctionOnSet(f, s \ {Pick(s)}) = SumFunctionOnSet(g, s \ {Pick(s)})
      <4>1. s \ {Pick(s)} \subseteq s /\ s \ {Pick(s)} # s
        BY <3>1
      <4> QED BY <2>1, <3>1, <4>1, Zenon
    <3>3. SumFunctionOnSet(f, s) = f[Pick(s)] + SumFunctionOnSet(f, s \ {Pick(s)})
      BY <2>2, <2>4, SumStep
    <3>4. SumFunctionOnSet(g, s) = g[Pick(s)] + SumFunctionOnSet(g, s \ {Pick(s)})
      BY <2>2, <2>4, SumStep
    <3>5. f[Pick(s)] = g[Pick(s)]
      BY <2>1, <3>1
    <3>6. SumFunctionOnSet(f, s) = SumFunctionOnSet(g, s)
      BY <3>2, <3>3, <3>4, <3>5, Zenon
    <3> QED BY <2>1, <3>6
  <2> QED BY <2>3, <2>4
<1> QED BY <1>1

\* One summand grows, and the sum by as much.
LEMMA SumChange ==
  ASSUME NEW S, IsFiniteSet(S), NEW f, NEW g, NEW x \in S, NEW d \in Int,
         \A y \in S : f[y] \in Int,
         \A y \in S : g[y] = IF y = x THEN f[y] + d ELSE f[y]
  PROVE  SumFunctionOnSet(g, S) = SumFunctionOnSet(f, S) + d
<1> DEFINE R == S \ {x}
<1>1. IsFiniteSet(R) /\ S \in SUBSET S /\ \A y \in S : g[y] \in Int
  BY FS_Subset
<1>2. SumFunctionOnSet(f, S) = f[x] + SumFunctionOnSet(f, R)
  BY <1>1, SumRemove
<1>3. SumFunctionOnSet(g, S) = g[x] + SumFunctionOnSet(g, R)
  BY <1>1, SumRemove
<1>4. SumFunctionOnSet(f, R) = SumFunctionOnSet(g, R)
  BY <1>1, SumSame
<1>5. SumFunctionOnSet(f, R) \in Int
  BY <1>1, SumInt
<1>6. f[x] \in Int /\ g[x] = f[x] + d
  OBVIOUS
<1> HIDE DEF R
<1> QED BY <1>2, <1>3, <1>4, <1>5, <1>6

\* Renumbering the summands by one does not change the sum.
LEMMA SumShift ==
  ASSUME NEW n \in Nat, NEW f, NEW g, \A i \in 1 .. n : g[i + 1] = f[i] /\ f[i] \in Int
  PROVE  SumFunctionOnSet(g, 2 .. n + 1) = SumFunctionOnSet(f, 1 .. n)
<1> DEFINE Up(s) == {i + 1 : i \in s}
           T == {s \in SUBSET (1 .. n) : SumFunctionOnSet(g, Up(s)) # SumFunctionOnSet(f, s)}
<1>0. IsFiniteSet(1 .. n) /\ IsFiniteSet(2 .. n + 1)
  BY FS_Interval
<1>a. \A i \in 2 .. n + 1 : g[i] \in Int
  <2> TAKE i \in 2 .. n + 1
  <2>1. i - 1 \in 1 .. n /\ (i - 1) + 1 = i
    OBVIOUS
  <2> QED BY <2>1
<1>1. ASSUME T # {} PROVE FALSE
  <2>0. T \in SUBSET SUBSET (1 .. n)
    OBVIOUS
  <2>1. PICK s \in T : \A y \in T : y \subseteq s => y = s
    <3> HIDE DEF T
    <3> DEFINE N == 1 .. n
    <3>1. T \in SUBSET SUBSET N /\ IsFiniteSet(N)
      BY <2>0, <1>0
    <3> HIDE DEF N
    <3> QED BY <1>1, <3>1, SmallestSubset
  <2>2. s \in SUBSET (1 .. n) /\ Up(s) \in SUBSET (2 .. n + 1)
    BY <2>1
  <2>2a. IsFiniteSet(s)
    BY <2>2, <1>0, FS_Subset, Zenon
  <2>3. CASE s = {}
    <3>1. Up(s) = {}
      BY <2>3
    <3> QED BY <2>1, <2>3, <3>1, SumEmpty
  <2>4. CASE s # {}
    <3> DEFINE c == Pick(s)
               r == s \ {c}
    <3>1. c \in s /\ r \in SUBSET (1 .. n) /\ r # s /\ r \subseteq s
      BY <2>2, <2>4, PickIn
    <3>2. SumFunctionOnSet(g, Up(r)) = SumFunctionOnSet(f, r)
      BY <2>1, <3>1, Zenon
    <3>3. SumFunctionOnSet(f, s) = f[c] + SumFunctionOnSet(f, r)
      BY <2>2a, <2>4, SumStep
    <3>4. c + 1 \in Up(s)
      BY <3>1
    <3>5. SumFunctionOnSet(g, Up(s)) = g[c + 1] + SumFunctionOnSet(g, Up(s) \ {c + 1})
      <4> HIDE DEF Up, c
      <4> QED BY <1>0, <1>a, <2>2, <3>4, SumRemove
    <3>6. Up(s) \ {c + 1} = Up(r)
      BY <2>2, <3>1
    <3>7. g[c + 1] = f[c]
      BY <2>2, <3>1
    <3>8. SumFunctionOnSet(g, Up(s)) = SumFunctionOnSet(f, s)
      <4> HIDE DEF Up, c, r, T
      <4> QED BY <3>2, <3>3, <3>5, <3>6, <3>7, Zenon
    <3> QED BY <2>1, <3>8
  <2> QED BY <2>3, <2>4
<1>2. Up(1 .. n) = 2 .. n + 1
  <2>1. \A i \in 2 .. n + 1 : i - 1 \in 1 .. n /\ i = (i - 1) + 1
    OBVIOUS
  <2> QED BY <2>1
<1>3. 1 .. n \notin T
  BY <1>1
<1> QED BY <1>2, <1>3

-----------------------------------------------------------------------------
(* Counters, ledger and limits. *)

\* Count adds one to the counters it names, of one lane.
LEMMA CountEffect ==
  ASSUME stats \in [Lanes -> [Counters -> Nat]],
         NEW lane \in Lanes, NEW counters \in SUBSET Counters,
         Count(lane, counters)
  PROVE  /\ stats' \in [Lanes -> [Counters -> Nat]]
         /\ \A l \in Lanes \ {lane} : stats'[l] = stats[l]
         /\ \A k \in Counters :
              stats'[lane][k] = IF k \in counters THEN stats[lane][k] + 1
                                                  ELSE stats[lane][k]
  <1> DEFINE new == [k \in Counters |-> IF k \in counters THEN stats[lane][k] + 1
                                                          ELSE stats[lane][k]]
  <1>1. stats' = [stats EXCEPT ![lane] = new]
    BY DEF Count
  <1>2. new \in [Counters -> Nat]
    OBVIOUS
  <1> HIDE DEF new
  <1>3. /\ stats' \in [Lanes -> [Counters -> Nat]]
        /\ \A l \in Lanes \ {lane} : stats'[l] = stats[l]
        /\ stats'[lane] = new
    BY <1>1, <1>2
  <1>4. \A k \in Counters : new[k] = IF k \in counters THEN stats[lane][k] + 1
                                                       ELSE stats[lane][k]
    BY DEF new
  <1> QED
    BY <1>3, <1>4

\* check refuses with one of three reasons, and lets an attempt through only
\* when there is no kill file and the cap covers it.
LEMMA CheckAnswers ==
  ASSUME NEW spent, NEW balance
  PROVE  /\ check(spent, balance) \in {"Killed", "WalletTooLarge", "SessionCap", "Yes"}
         /\ check(spent, balance) = "Yes" => ~kill_file /\ ~OverCap(spent)
  BY DEF check

\* A refusal is counted once under each of: offered, refused, one reason.
LEMMA RefusalCounted ==
  ASSUME NEW verdict \in {"Killed", "WalletTooLarge", "SessionCap"}
  PROVE  /\ RefusalCounters(verdict) \in SUBSET Counters
         /\ \E reason \in {"refused_killed", "refused_cap", "refused_wallet"} :
              RefusalCounters(verdict) = {"offered", "refused", reason}
  BY DEF RefusalCounters, Counters

\* An outcome has at most one counter, never the money, and money goes with a
\* send only.
LEMMA OutcomeCounted ==
  ASSUME NEW outcome \in BrokerOutcomes
  PROVE  /\ \/ outcome = "SimulatedOk" /\ OutcomeCounters(outcome) = {"simulated_ok"}
            \/ outcome = "SimulatedFailed" /\ OutcomeCounters(outcome) = {"simulated_failed"}
            \/ outcome = "BuildFailed" /\ OutcomeCounters(outcome) = {"build_failed"}
            \/ outcome = "Sent" /\ OutcomeCounters(outcome) = {"sent"}
            \/ outcome \in Skips /\ OutcomeCounters(outcome) = {}
         /\ outcome \in Skips <=> OutcomeCounters(outcome) = {}
         /\ outcome = "Sent" <=> OutcomeCounters(outcome) = {"sent"}
  BY DEF OutcomeCounters, BrokerOutcomes, Skips

\* What a broker's return does to the counters of its lane.
LEMMA SettleEffect ==
  ASSUME stats \in [Lanes -> [Counters -> Nat]],
         NEW lane \in Lanes, NEW outcome \in BrokerOutcomes,
         stats' = [stats EXCEPT ![lane] =
                     [k \in Counters |-> stats[lane][k] + Settle(outcome, k)]]
  PROVE  /\ stats' \in [Lanes -> [Counters -> Nat]]
         /\ \A l \in Lanes \ {lane} : stats'[l] = stats[l]
         /\ \A k \in Counters \ {"spent"} :
              stats'[lane][k] = IF k \in OutcomeCounters(outcome)
                                  THEN stats[lane][k] + 1 ELSE stats[lane][k]
         /\ stats'[lane]["spent"] = IF outcome = "Sent"
                                      THEN stats[lane]["spent"] + per_attempt
                                      ELSE stats[lane]["spent"]
  <1> DEFINE new == [k \in Counters |-> stats[lane][k] + Settle(outcome, k)]
  <1>1. /\ \A k \in Counters : Settle(outcome, k) \in Nat
        /\ \A k \in Counters \ {"spent"} :
             Settle(outcome, k) = IF k \in OutcomeCounters(outcome) THEN 1 ELSE 0
        /\ Settle(outcome, "spent") = IF outcome = "Sent" THEN per_attempt ELSE 0
    <2>1. per_attempt \in Nat
      BY ExecutorAssumption
    <2>2. "spent" \notin OutcomeCounters(outcome)
      BY DEF OutcomeCounters
    <2> QED BY <2>1, <2>2 DEF Settle
  <1>2. "spent" \in Counters /\ stats[lane] \in [Counters -> Nat]
    BY DEF Counters
  <1>3. new \in [Counters -> Nat]
    BY <1>1, <1>2
  <1>4. \A k \in Counters : new[k] = stats[lane][k] + Settle(outcome, k)
    OBVIOUS
  <1> HIDE DEF new
  <1>5. /\ stats' \in [Lanes -> [Counters -> Nat]]
        /\ \A l \in Lanes \ {lane} : stats'[l] = stats[l]
        /\ stats'[lane] = new
    BY <1>3 DEF new
  <1>6. \A k \in Counters \ {"spent"} :
          new[k] = IF k \in OutcomeCounters(outcome) THEN stats[lane][k] + 1
                                                     ELSE stats[lane][k]
    BY <1>1, <1>2, <1>4
  <1>7. new["spent"] = IF outcome = "Sent" THEN stats[lane]["spent"] + per_attempt
                                           ELSE stats[lane]["spent"]
    BY <1>1, <1>2, <1>4
  <1> QED
    BY <1>5, <1>6, <1>7

\* What it does to the record of skips.
LEMMA SkippedEffect ==
  ASSUME skipped \in [Lanes -> [SkipReasons -> Nat]], NEW outcome \in BrokerOutcomes,
         in_broker.lane \in Lanes, BrokerReturns(outcome)
  PROVE  /\ skipped' \in [Lanes -> [SkipReasons -> Nat]]
         /\ \A l \in Lanes \ {in_broker.lane} : skipped'[l] = skipped[l]
         /\ skipped'[in_broker.lane]["dry_run"] =
              skipped[in_broker.lane]["dry_run"] + (IF outcome = "DryRun" THEN 1 ELSE 0)
         /\ skipped'[in_broker.lane]["limit"] =
              skipped[in_broker.lane]["limit"]
                + (IF outcome \in Skips \ {"DryRun"} THEN 1 ELSE 0)
  <1> DEFINE lane   == in_broker.lane
             reason == IF outcome = "DryRun" THEN "dry_run" ELSE "limit"
  <1>1. /\ outcome \in Skips => skipped' = [skipped EXCEPT ![lane][reason] = @ + 1]
        /\ outcome \notin Skips => skipped' = skipped
    BY DEF BrokerReturns
  <1>2. /\ reason \in SkipReasons /\ "dry_run" \in SkipReasons /\ "limit" \in SkipReasons
        /\ reason = "dry_run" <=> outcome = "DryRun"
        /\ reason = "limit" <=> outcome # "DryRun"
        /\ "DryRun" \in Skips
    BY DEF SkipReasons, Skips
  <1> HIDE DEF reason
  <1>3. CASE outcome \in Skips
    <2>1. skipped' = [skipped EXCEPT ![lane] = [skipped[lane] EXCEPT ![reason] = skipped[lane][reason] + 1]]
      BY <1>1, <1>3
    <2>2. [skipped[lane] EXCEPT ![reason] = skipped[lane][reason] + 1] \in [SkipReasons -> Nat]
      BY <1>2
    <2> QED BY <1>2, <1>3, <2>1, <2>2
  <1>4. CASE outcome \notin Skips
    BY <1>1, <1>2, <1>4
  <1> QED BY <1>3, <1>4

\* Booking an attempt keeps the ledger's types, adds one attempt and realises
\* money only for a trade that was sent, which was expected as well.
LEMMA BookEffect ==
  ASSUME TypeOK, NEW lane \in Lanes, NEW net \in Nets, NEW outcome,
         Book(lane, net, outcome)
  PROVE  /\ totals' \in [attempts : Nat, expected_lamports : Nat, sent : Nat,
                         realised_lamports : Nat, refused : Nat, best_lamports : Nat]
         /\ trades' \in Seq([lane : Lanes, net_lamports : Nets, booking : Booking])
         /\ Len(trades') <= KEPT
         /\ outcome # "Sent" =>
              /\ totals'.realised_lamports = totals.realised_lamports
              /\ totals'.sent = totals.sent
  <1> DEFINE t == [lane |-> lane, net_lamports |-> net, booking |-> booking_of(outcome)]
             T == [lane : Lanes, net_lamports : Nets, booking : Booking]
  <1>1. /\ booking_of(outcome) \in Booking
        /\ outcome # "Sent" => booking_of(outcome) # "Realised"
    BY DEF booking_of, Booking
  <1>2. t \in T /\ net \in Nat
    BY <1>1, ExecutorAssumption
  <1>3. totals' = totals_with(t) /\ trades' = tape_with(t)
    BY DEF Book, record
  <1>4. /\ totals' \in [attempts : Nat, expected_lamports : Nat, sent : Nat,
                        realised_lamports : Nat, refused : Nat, best_lamports : Nat]
        /\ outcome # "Sent" =>
             /\ totals'.realised_lamports = totals.realised_lamports
             /\ totals'.sent = totals.sent
    BY <1>1, <1>2, <1>3 DEF TypeOK, totals_with, Larger
  <1>5. trades' \in Seq(T) /\ Len(trades') <= KEPT
    <2> HIDE DEF t, T
    <2>1. /\ trades \in Seq(T)
          /\ <<t>> \o trades \in Seq(T)
          /\ Len(<<t>> \o trades) = Len(trades) + 1
      BY <1>2 DEF TypeOK, T
    <2>2. KEPT \in Nat \ {0}
      BY KeptAssumption
    <2> QED
      BY <1>3, <2>1, <2>2 DEF tape_with
  <1> QED
    BY <1>4, <1>5

\* The attempt in the broker, counted.
Open == IF in_broker = NoAttempt THEN 0 ELSE 1

\* Why at most one send follows the kill file: with the file there, what has
\* been sent since and what may still be sent come to one at most.
KillInv == kill_file => afterKill + Open <= 1

\* Nothing reaches the broker in a dry run.
DryRunInv ==
  mode = "DryRun" => in_broker = NoAttempt /\ DryRunSendsNothing

IInv == TypeOK /\ SpentWithinCap /\ CountersAddUp /\ KillInv /\ DryRunInv

\* The invariant holds when the executors are made.
LEMMA InitIInv == Init => IInv
  <1> SUFFICES ASSUME Init PROVE IInv
    OBVIOUS
  <1> USE ExecutorAssumption, KeptAssumption
  <1>1. stats \in [Lanes -> [Counters -> Nat]]
    BY DEF Init
  <1>2. \A l \in Lanes : \A k \in Counters : stats[l][k] = 0
    BY DEF Init
  <1>3. TypeOK
    BY <1>1 DEF Init, LedgerInit, TypeOK
  <1>4. SpentWithinCap /\ CountersAddUp
    BY <1>2 DEF Init, SpentWithinCap, CountersAddUp, Counters, SkipReasons
  <1>5. KillInv /\ DryRunInv
    BY <1>2 DEF Init, LedgerInit, KillInv, Open, DryRunInv, DryRunSendsNothing, Counters
  <1> QED
    BY <1>3, <1>4, <1>5 DEF IInv

\* A refusal keeps the invariant.
LEMMA RefusePreserves ==
  ASSUME IInv, NEW lane \in Lanes, NEW net \in Nets, NEW balance \in Balances,
         Refuse(lane, net, balance)
  PROVE  IInv'
  <1> DEFINE verdict == check(stats[lane]["spent"], balance)
  <1>1. verdict \in {"Killed", "WalletTooLarge", "SessionCap"}
    BY CheckAnswers DEF Refuse
  <1>2. PICK reason \in {"refused_killed", "refused_cap", "refused_wallet"} :
          RefusalCounters(verdict) = {"offered", "refused", reason}
    <2> HIDE DEF verdict
    <2> QED BY <1>1, RefusalCounted
  <1>3. /\ stats \in [Lanes -> [Counters -> Nat]]
        /\ Count(lane, RefusalCounters(verdict)) /\ Book(lane, net, verdict)
        /\ UNCHANGED <<mode, kill_file, in_broker, afterKill, skipped>>
        /\ in_broker = NoAttempt
    BY DEF Refuse, Offered, IInv, TypeOK
  <1> HIDE DEF verdict
  <1>4. /\ stats' \in [Lanes -> [Counters -> Nat]]
        /\ \A l \in Lanes \ {lane} : stats'[l] = stats[l]
        /\ \A k \in Counters :
             stats'[lane][k] = IF k \in {"offered", "refused", reason}
                                 THEN stats[lane][k] + 1 ELSE stats[lane][k]
    BY <1>1, <1>2, <1>3, CountEffect, RefusalCounted
  <1>5. TypeOK'
    BY <1>3, <1>4, BookEffect DEF IInv, TypeOK
  <1>6. SpentWithinCap'
    BY <1>3, <1>4 DEF IInv, SpentWithinCap, Counters
  <1>7. CountersAddUp'
    <2> SUFFICES ASSUME NEW l \in Lanes PROVE CountersAddUp!(l)'
      BY DEF CountersAddUp
    <2>1. CASE l # lane
      BY <1>3, <1>4, <2>1 DEF IInv, CountersAddUp
    <2>2. CASE l = lane
      BY <1>2, <1>3, <1>4, <2>2 DEF IInv, CountersAddUp, Counters
    <2> QED
      BY <2>1, <2>2
  <1>8. KillInv' /\ DryRunInv'
    <2>1. verdict # "Sent"
      BY <1>1
    <2>2. totals'.realised_lamports = totals.realised_lamports /\ totals'.sent = totals.sent
      BY <1>3, <2>1, BookEffect DEF IInv
    <2> QED
      BY <1>3, <1>4, <2>2 DEF IInv, KillInv, Open, DryRunInv, DryRunSendsNothing, Counters
  <1> QED
    BY <1>5, <1>6, <1>7, <1>8 DEF IInv

\* A dry run's attempt keeps the invariant.
LEMMA SkipDryRunPreserves ==
  ASSUME IInv, NEW lane \in Lanes, NEW net \in Nets, NEW balance \in Balances,
         SkipDryRun(lane, net, balance)
  PROVE  IInv'
  <1>1. /\ stats \in [Lanes -> [Counters -> Nat]]
        /\ Count(lane, {"offered"}) /\ Book(lane, net, "DryRun")
        /\ UNCHANGED <<mode, kill_file, in_broker, afterKill, skipped>>
        /\ {"offered"} \in SUBSET Counters
    BY DEF SkipDryRun, IInv, TypeOK, Counters
  <1>2. /\ stats' \in [Lanes -> [Counters -> Nat]]
        /\ \A l \in Lanes \ {lane} : stats'[l] = stats[l]
        /\ \A k \in Counters :
             stats'[lane][k] = IF k \in {"offered"} THEN stats[lane][k] + 1
                                                    ELSE stats[lane][k]
    BY <1>1, CountEffect
  <1>3. TypeOK'
    BY <1>1, <1>2, BookEffect DEF IInv, TypeOK
  <1>4. SpentWithinCap' /\ CountersAddUp'
    BY <1>1, <1>2 DEF IInv, SpentWithinCap, CountersAddUp, Counters
  <1>5. KillInv' /\ DryRunInv'
    <2>1. totals'.realised_lamports = totals.realised_lamports /\ totals'.sent = totals.sent
      BY <1>1, BookEffect DEF IInv
    <2> QED
      BY <1>1, <1>2, <2>1 DEF IInv, KillInv, Open, DryRunInv, DryRunSendsNothing, Counters
  <1> QED
    BY <1>3, <1>4, <1>5 DEF IInv

\* Handing an attempt to the broker keeps the invariant: check has passed.
LEMMA CallBrokerPreserves ==
  ASSUME IInv, NEW lane \in Lanes, NEW net \in Nets, NEW balance \in Balances,
         CallBroker(lane, net, balance)
  PROVE  IInv'
  <1>1. /\ stats \in [Lanes -> [Counters -> Nat]]
        /\ Count(lane, {"offered", "attempted"})
        /\ {"offered", "attempted"} \in SUBSET Counters
        /\ in_broker = NoAttempt /\ in_broker' = [lane |-> lane, net |-> net]
        /\ UNCHANGED <<mode, kill_file, afterKill, skipped, ledger>>
        /\ mode # "DryRun"
        /\ check(stats[lane]["spent"], balance) = "Yes"
    BY DEF CallBroker, Offered, ReachesBroker, IInv, TypeOK, Counters
  <1>2. ~kill_file /\ ~OverCap(stats[lane]["spent"])
    BY <1>1, CheckAnswers
  <1>3. in_broker' # NoAttempt /\ in_broker'.lane = lane
    BY <1>1, ExecutorAssumption DEF NoAttempt
  <1>4. /\ stats' \in [Lanes -> [Counters -> Nat]]
        /\ \A l \in Lanes \ {lane} : stats'[l] = stats[l]
        /\ \A k \in Counters :
             stats'[lane][k] = IF k \in {"offered", "attempted"}
                                 THEN stats[lane][k] + 1 ELSE stats[lane][k]
    BY <1>1, CountEffect
  <1>5. TypeOK'
    BY <1>1, <1>4 DEF IInv, TypeOK, ledger
  <1>6. SpentWithinCap'
    <2>1. stats[lane]["spent"] + per_attempt <= session_cap
      BY <1>1, <1>2, ExecutorAssumption DEF OverCap, saturating_add, Counters
    <2> QED
      BY <1>1, <1>3, <1>4, <2>1 DEF IInv, SpentWithinCap, Counters
  <1>7. CountersAddUp'
    <2> SUFFICES ASSUME NEW l \in Lanes PROVE CountersAddUp!(l)'
      BY DEF CountersAddUp
    <2>1. CASE l # lane
      BY <1>1, <1>3, <1>4, <2>1 DEF IInv, CountersAddUp
    <2>2. CASE l = lane
      <3>1. /\ stats'[l]["attempted"] = stats[l]["attempted"] + 1
            /\ stats'[l]["offered"] = stats[l]["offered"] + 1
            /\ \A k \in Counters \ {"offered", "attempted"} : stats'[l][k] = stats[l][k]
        BY <1>4, <2>2 DEF Counters
      <3>2. /\ \A k \in Counters : stats[l][k] \in Nat
            /\ \A k \in SkipReasons : skipped[l][k] \in Nat
        BY DEF IInv, TypeOK
      <3>3. CountersAddUp!(l) /\ skipped' = skipped
        BY <1>1 DEF IInv, CountersAddUp
      <3> QED BY <1>1, <1>3, <2>2, <3>1, <3>2, <3>3 DEF Counters, SkipReasons
    <2> QED BY <2>1, <2>2
  <1>8. KillInv' /\ DryRunInv'
    BY <1>1, <1>2 DEF KillInv, DryRunInv
  <1> QED
    BY <1>5, <1>6, <1>7, <1>8 DEF IInv

\* Booking the broker's answer keeps the invariant.
LEMMA BrokerReturnsPreserves ==
  ASSUME IInv, NEW outcome \in BrokerOutcomes, BrokerReturns(outcome)
  PROVE  IInv'
  <1> DEFINE lane == in_broker.lane
             c    == OutcomeCounters(outcome)
  <1>1. /\ stats \in [Lanes -> [Counters -> Nat]]
        /\ in_broker # NoAttempt /\ in_broker' = NoAttempt
        /\ lane \in Lanes /\ in_broker.net \in Nets
        /\ stats' = [stats EXCEPT ![lane] =
                        [k \in Counters |-> stats[lane][k] + Settle(outcome, k)]]
        /\ Book(lane, in_broker.net, outcome)
        /\ UNCHANGED <<mode, kill_file>>
        /\ afterKill' = IF outcome = "Sent" /\ kill_file THEN afterKill + 1 ELSE afterKill
    BY DEF BrokerReturns, IInv, TypeOK
  <1>2. /\ skipped' \in [Lanes -> [SkipReasons -> Nat]]
        /\ \A l \in Lanes \ {lane} : skipped'[l] = skipped[l]
        /\ skipped'[lane]["dry_run"] =
             skipped[lane]["dry_run"] + (IF outcome = "DryRun" THEN 1 ELSE 0)
        /\ skipped'[lane]["limit"] =
             skipped[lane]["limit"] + (IF outcome \in Skips \ {"DryRun"} THEN 1 ELSE 0)
    BY <1>1, SkippedEffect DEF IInv, TypeOK
  <1>2a. \/ outcome = "SimulatedOk" /\ c = {"simulated_ok"}
         \/ outcome = "SimulatedFailed" /\ c = {"simulated_failed"}
         \/ outcome = "BuildFailed" /\ c = {"build_failed"}
         \/ outcome = "Sent" /\ c = {"sent"}
         \/ outcome \in Skips /\ c = {}
    BY OutcomeCounted
  <1> HIDE DEF lane
  <1>3. /\ stats' \in [Lanes -> [Counters -> Nat]]
        /\ \A l \in Lanes \ {lane} : stats'[l] = stats[l]
        /\ \A k \in Counters \ {"spent"} :
             stats'[lane][k] = IF k \in c THEN stats[lane][k] + 1 ELSE stats[lane][k]
        /\ stats'[lane]["spent"] = IF outcome = "Sent"
                                     THEN stats[lane]["spent"] + per_attempt
                                     ELSE stats[lane]["spent"]
    BY <1>1, SettleEffect
  <1> HIDE DEF c
  <1>4. TypeOK'
    <2>1. /\ totals' \in [attempts : Nat, expected_lamports : Nat, sent : Nat,
                           realised_lamports : Nat, refused : Nat, best_lamports : Nat]
          /\ trades' \in Seq([lane : Lanes, net_lamports : Nets, booking : Booking])
          /\ Len(trades') <= KEPT
      BY <1>1, BookEffect DEF IInv
    <2>2. mode' \in Modes /\ kill_file' \in BOOLEAN /\ afterKill' \in Nat
      BY <1>1 DEF IInv, TypeOK
    <2> QED
      BY <1>1, <1>2, <1>3, <2>1, <2>2 DEF TypeOK
  <1>5. SpentWithinCap'
    <2> SUFFICES ASSUME NEW l \in Lanes PROVE SpentWithinCap!(l)'
      BY DEF SpentWithinCap
    <2>1. CASE l # lane
      BY <1>1, <1>3, <2>1 DEF IInv, SpentWithinCap
    <2>2. CASE l = lane
      <3> DEFINE a == stats[lane]["sent"]
                 b == stats[lane]["spent"]
      <3>1. /\ a \in Nat /\ b \in Nat /\ per_attempt \in Nat
            /\ b = a * per_attempt /\ b + per_attempt <= session_cap /\ b <= session_cap
        BY <1>1, ExecutorAssumption DEF IInv, SpentWithinCap, Counters, lane
      <3>2. \/ stats'[lane]["sent"] = a + 1 /\ stats'[lane]["spent"] = b + per_attempt
            \/ stats'[lane]["sent"] = a /\ stats'[lane]["spent"] = b
        BY <1>2a, <1>3 DEF Counters, Skips
      <3> HIDE DEF a, b
      <3>3. (a + 1) * per_attempt = b + per_attempt
        BY <3>1
      <3> QED
        BY <1>1, <2>2, <3>1, <3>2, <3>3
    <2> QED
      BY <2>1, <2>2
  <1>6. CountersAddUp'
    <2> SUFFICES ASSUME NEW l \in Lanes PROVE CountersAddUp!(l)'
      BY DEF CountersAddUp
    <2>1. CASE l # lane
      BY <1>1, <1>2, <1>3, <2>1 DEF IInv, CountersAddUp, lane
    <2>2. CASE l = lane
      <3> DEFINE s == stats[lane]
                 t == stats'[lane]
                 u == skipped[lane]
                 v == skipped'[lane]
      <3>1. /\ s["attempted"] = s["simulated_ok"] + s["simulated_failed"]
                 + s["build_failed"] + s["sent"] + 1 + u["dry_run"] + u["limit"]
            /\ s["refused"] = s["refused_killed"] + s["refused_cap"] + s["refused_wallet"]
            /\ s["offered"] >= s["refused"] + s["attempted"]
        BY <1>1 DEF IInv, CountersAddUp, lane
      <3>2. /\ s \in [Counters -> Nat] /\ u["dry_run"] \in Nat /\ u["limit"] \in Nat
        BY <1>1 DEF IInv, TypeOK, SkipReasons
      <3>3. /\ t["attempted"] = s["attempted"] /\ t["offered"] = s["offered"]
            /\ t["refused"] = s["refused"] /\ t["refused_killed"] = s["refused_killed"]
            /\ t["refused_cap"] = s["refused_cap"] /\ t["refused_wallet"] = s["refused_wallet"]
        BY <1>2a, <1>3 DEF Counters
      <3>4. t["simulated_ok"] + t["simulated_failed"] + t["build_failed"] + t["sent"]
              + v["dry_run"] + v["limit"]
            = s["simulated_ok"] + s["simulated_failed"] + s["build_failed"] + s["sent"]
                + u["dry_run"] + u["limit"] + 1
        <4>1. /\ s["simulated_ok"] \in Nat /\ s["simulated_failed"] \in Nat
              /\ s["build_failed"] \in Nat /\ s["sent"] \in Nat
          BY <3>2 DEF Counters
        <4>2. /\ t["simulated_ok"] = s["simulated_ok"] + (IF "simulated_ok" \in c THEN 1 ELSE 0)
              /\ t["simulated_failed"] = s["simulated_failed"]
                   + (IF "simulated_failed" \in c THEN 1 ELSE 0)
              /\ t["build_failed"] = s["build_failed"] + (IF "build_failed" \in c THEN 1 ELSE 0)
              /\ t["sent"] = s["sent"] + (IF "sent" \in c THEN 1 ELSE 0)
          BY <1>3, <4>1 DEF Counters
        <4> HIDE DEF s, t, u, v
        <4> QED BY <1>2, <1>2a, <3>2, <4>1, <4>2 DEF Skips, u, v
      <3>5. in_broker' = NoAttempt /\ l = lane
        BY <1>1, <2>2
      <3>6. /\ s["attempted"] \in Nat /\ t["simulated_ok"] \in Nat /\ t["simulated_failed"] \in Nat
            /\ t["build_failed"] \in Nat /\ t["sent"] \in Nat
            /\ v["dry_run"] \in Nat /\ v["limit"] \in Nat
            /\ s["simulated_ok"] \in Nat /\ s["simulated_failed"] \in Nat
            /\ s["build_failed"] \in Nat /\ s["sent"] \in Nat
        BY <1>1, <1>2, <1>3 DEF Counters, SkipReasons
      <3>7. t["attempted"] = t["simulated_ok"] + t["simulated_failed"]
                 + t["build_failed"] + t["sent"] + 0 + v["dry_run"] + v["limit"]
        <4> HIDE DEF s, t, u, v
        <4> QED BY <3>1, <3>2, <3>3, <3>4, <3>6
      <3> QED BY <3>1, <3>3, <3>5, <3>7 DEF s, t, u, v
    <2> QED
      BY <2>1, <2>2
  <1>7. KillInv' /\ DryRunInv'
    BY <1>1 DEF IInv, TypeOK, KillInv, Open, DryRunInv
  <1> QED
    BY <1>4, <1>5, <1>6, <1>7 DEF IInv

\* Every step keeps the invariant.
LEMMA NextIInv == IInv /\ [Next]_vars => IInv'
  <1> SUFFICES ASSUME IInv, [Next]_vars PROVE IInv'
    OBVIOUS
  <1>1. ASSUME NEW l \in Lanes, NEW net \in Nets, NEW balance \in Balances,
               Refuse(l, net, balance) \/ SkipDryRun(l, net, balance)
                 \/ CallBroker(l, net, balance)
        PROVE  IInv'
    BY <1>1, RefusePreserves, SkipDryRunPreserves, CallBrokerPreserves
  <1>2. ASSUME NEW outcome \in BrokerOutcomes, BrokerReturns(outcome) PROVE IInv'
    BY <1>2, BrokerReturnsPreserves
  <1>3. CASE TouchKillFile
    <2>1. TypeOK' /\ SpentWithinCap' /\ CountersAddUp'
      BY <1>3 DEF TouchKillFile, ledger, IInv, TypeOK, SpentWithinCap, CountersAddUp
    <2>2. KillInv' /\ DryRunInv'
      BY <1>3 DEF TouchKillFile, ledger, IInv, KillInv, Open, DryRunInv, DryRunSendsNothing
    <2> QED
      BY <2>1, <2>2 DEF IInv
  <1>4. CASE RemoveKillFile
    <2>1. TypeOK' /\ SpentWithinCap' /\ CountersAddUp'
      BY <1>4 DEF RemoveKillFile, ledger, IInv, TypeOK, SpentWithinCap, CountersAddUp
    <2>2. KillInv' /\ DryRunInv'
      BY <1>4 DEF RemoveKillFile, ledger, IInv, KillInv, DryRunInv, DryRunSendsNothing
    <2> QED
      BY <2>1, <2>2 DEF IInv
  <1>5. CASE UNCHANGED vars
    <2>1. TypeOK' /\ SpentWithinCap' /\ CountersAddUp'
      BY <1>5 DEF vars, ledger, IInv, TypeOK, SpentWithinCap, CountersAddUp
    <2>2. KillInv' /\ DryRunInv'
      BY <1>5 DEF vars, ledger, IInv, KillInv, Open, DryRunInv, DryRunSendsNothing
    <2> QED
      BY <2>1, <2>2 DEF IInv
  <1> QED
    BY <1>1, <1>2, <1>3, <1>4, <1>5 DEF Next

\* Every reachable state satisfies the inductive invariant.
THEOREM ExecutorInvariant == Spec => []IInv
  BY InitIInv, NextIInv, PTL DEF Spec

\* The counters, the ledger and the attempt in progress keep their types.
THEOREM ExecutorTypeCorrect == Spec => []TypeOK
  <1>1. IInv => TypeOK
    BY DEF IInv
  <1> QED
    BY <1>1, ExecutorInvariant, PTL

\* attempt never commits more than the session cap on any lane.
THEOREM ExecutorSpentWithinCap == Spec => []SpentWithinCap
  <1>1. IInv => SpentWithinCap
    BY DEF IInv
  <1> QED
    BY <1>1, ExecutorInvariant, PTL

\* attempt counts every refusal under one reason and every outcome once, except
\* the broker's own skips: by these the outcomes fall short of the attempts.
THEOREM ExecutorCountersAddUp == Spec => []CountersAddUp
  <1>1. IInv => CountersAddUp
    BY DEF IInv
  <1> QED
    BY <1>1, ExecutorInvariant, PTL

\* Over all lanes, at most one attempt is sent while the kill file exists: the
\* one the broker held when the file appeared.
THEOREM ExecutorAtMostOneSendAfterKill == Spec => []AtMostOneSendAfterKill
  <1>1. IInv => AtMostOneSendAfterKill
    BY DEF IInv, TypeOK, KillInv, Open, AtMostOneSendAfterKill
  <1> QED
    BY <1>1, ExecutorInvariant, PTL

\* In a dry run attempt never reaches the broker, whatever broker it is given.
THEOREM ExecutorDryRunSendsNothing == Spec => []DryRunSendsNothing
  <1>1. IInv => DryRunSendsNothing
    BY DEF IInv, DryRunInv, DryRunSendsNothing
  <1> QED
    BY <1>1, ExecutorInvariant, PTL

-----------------------------------------------------------------------------
(* The ledger beside the counters, and the totals beside the tape. *)

\* One counter of a record of counters per lane, summed over the lanes.
SumOverLanes(c, k) == SumFunction([l \in Lanes |-> c[l][k]])

\* One counter of the executors, and their brokers' skips for a limit.
Total(k) == SumOverLanes(stats, k)
LimitSkips == SumOverLanes(skipped, "limit")

\* Nothing has been counted at the start.
LEMMA TotalZero ==
  ASSUME NEW c, NEW k, \A l \in Lanes : c[l][k] = 0
  PROVE  SumOverLanes(c, k) = 0
  <1> DEFINE f == [l \in Lanes |-> c[l][k]]
             T == {s \in SUBSET Lanes : SumFunctionOnSet(f, s) # 0}
  <1>0. IsFiniteSet(Lanes) /\ \A l \in Lanes : f[l] = 0
    BY ExecutorAssumption
  <1> HIDE DEF f
  <1>1. ASSUME T # {} PROVE FALSE
    <2>1. T \in SUBSET SUBSET Lanes
      OBVIOUS
    <2>2. PICK s \in T : \A y \in T : y \subseteq s => y = s
      <3> HIDE DEF T
      <3> QED BY <1>0, <1>1, <2>1, SmallestSubset
    <2>3. IsFiniteSet(s) /\ s \in SUBSET Lanes
      BY <1>0, <2>2, FS_Subset
    <2>4. CASE s = {}
      BY <2>2, <2>4, SumEmpty
    <2>5. CASE s # {}
      <3>1. /\ Pick(s) \in s /\ s \ {Pick(s)} \in SUBSET Lanes
            /\ s \ {Pick(s)} \subseteq s /\ s \ {Pick(s)} # s
        BY <2>3, <2>5, PickIn
      <3>2. SumFunctionOnSet(f, s \ {Pick(s)}) = 0
        BY <2>2, <3>1, Zenon
      <3>3. SumFunctionOnSet(f, s) = f[Pick(s)] + SumFunctionOnSet(f, s \ {Pick(s)})
        BY <2>3, <2>5, SumStep
      <3>4. f[Pick(s)] = 0
        BY <1>0, <2>3, <3>1
      <3>5. SumFunctionOnSet(f, s) = 0
        <4> HIDE DEF T
        <4> QED BY <3>2, <3>3, <3>4
      <3> QED BY <2>2, <3>5
    <2> QED BY <2>4, <2>5
  <1>2. Lanes \notin T
    BY <1>1
  <1>3. SumFunctionOnSet(f, Lanes) = 0
    BY <1>2
  <1> QED BY <1>3 DEF SumOverLanes, SumFunction, f

\* The sum of integers is one.
LEMMA TotalInt ==
  ASSUME NEW c, NEW k, \A l \in Lanes : c[l][k] \in Int
  PROVE  SumOverLanes(c, k) \in Int
  <1> DEFINE f == [l \in Lanes |-> c[l][k]]
  <1>1. IsFiniteSet(Lanes) /\ \A l \in Lanes : f[l] \in Int
    BY ExecutorAssumption
  <1>2. SumOverLanes(c, k) = SumFunctionOnSet(f, Lanes)
    BY DEF SumOverLanes, SumFunction
  <1> HIDE DEF f
  <1> QED BY <1>1, <1>2, SumInt

\* A lane's counter that grows makes the sum grow by as much.
LEMMA TotalGrows ==
  ASSUME NEW c, NEW e, NEW k, NEW lane \in Lanes, NEW d \in Int,
         \A l \in Lanes : c[l][k] \in Int,
         \A l \in Lanes \ {lane} : e[l] = c[l],
         e[lane][k] = c[lane][k] + d
  PROVE  SumOverLanes(e, k) = SumOverLanes(c, k) + d
  <1> DEFINE f == [l \in Lanes |-> c[l][k]]
             g == [l \in Lanes |-> e[l][k]]
  <1>1. /\ IsFiniteSet(Lanes)
        /\ \A l \in Lanes : f[l] \in Int
        /\ \A l \in Lanes : g[l] = IF l = lane THEN f[l] + d ELSE f[l]
    BY ExecutorAssumption
  <1>2. /\ SumOverLanes(c, k) = SumFunctionOnSet(f, Lanes)
        /\ SumOverLanes(e, k) = SumFunctionOnSet(g, Lanes)
    BY DEF SumOverLanes, SumFunction
  <1> HIDE DEF f, g
  <1> QED BY <1>1, <1>2, SumChange

\* What booking an attempt adds to the totals the screen compares.
LEMMA BookCounts ==
  ASSUME TypeOK, NEW lane, NEW net, NEW outcome, Book(lane, net, outcome)
  PROVE  /\ totals'.attempts = totals.attempts + 1
         /\ totals'.sent = totals.sent + (IF outcome = "Sent" THEN 1 ELSE 0)
         /\ totals'.refused = totals.refused
              + (IF outcome \in {"Sent", "SimulatedOk", "DryRun"} THEN 0 ELSE 1)
  <1> DEFINE t == [lane |-> lane, net_lamports |-> net, booking |-> booking_of(outcome)]
  <1>1. totals' = totals_with(t)
    BY DEF Book, record
  <1>2. t.booking = booking_of(outcome)
    OBVIOUS
  <1> HIDE DEF t
  <1>3. /\ totals'.attempts = totals.attempts + 1
        /\ totals'.sent = totals.sent + (IF t.booking = "Realised" THEN 1 ELSE 0)
        /\ totals'.refused = totals.refused + (IF t.booking = "None" THEN 1 ELSE 0)
    BY <1>1 DEF totals_with
  <1>4. /\ (t.booking = "Realised") <=> (outcome = "Sent")
        /\ (t.booking = "None") <=> ~(outcome \in {"Sent", "SimulatedOk", "DryRun"})
    BY <1>2 DEF booking_of
  <1> QED BY <1>3, <1>4

\* LedgerAgrees, with its sums named.
AgreesInv ==
  /\ totals.attempts + Open = Total("offered")
  /\ totals.sent = Total("sent")
  /\ totals.refused = Total("refused") + Total("build_failed")
                        + Total("simulated_failed") + LimitSkips

\* The counters LedgerAgrees sums.
Summed == {"offered", "sent", "refused", "build_failed", "simulated_failed"}

\* The ledger agrees with the counters after every step if it did before.
LEMMA AgreesStep == IInv /\ AgreesInv /\ [Next]_vars => AgreesInv'
  <1> SUFFICES ASSUME IInv, AgreesInv, [Next]_vars PROVE AgreesInv'
    OBVIOUS
  <1>0. /\ TypeOK /\ stats \in [Lanes -> [Counters -> Nat]] /\ Summed \subseteq Counters
        /\ totals.attempts \in Nat /\ totals.sent \in Nat /\ totals.refused \in Nat
    BY DEF IInv, TypeOK, Summed, Counters
  <1>a. \A k \in Summed : Total(k) \in Int
    <2>1. \A k \in Summed : \A l \in Lanes : stats[l][k] \in Int
      BY <1>0
    <2> QED BY <2>1, TotalInt DEF Total
  <1>b. LimitSkips \in Int
    <2>1. \A l \in Lanes : skipped[l]["limit"] \in Int
      BY DEF IInv, TypeOK, SkipReasons
    <2> QED BY <2>1, TotalInt DEF LimitSkips
  <1>c. ASSUME NEW k \in Summed, NEW lane \in Lanes, NEW d \in Int,
               \A l \in Lanes \ {lane} : stats'[l] = stats[l],
               stats'[lane][k] = stats[lane][k] + d
        PROVE  Total(k)' = Total(k) + d
    <2>1. \A l \in Lanes : stats[l][k] \in Int
      BY <1>0
    <2> DEFINE f == [l \in Lanes |-> stats[l][k]]
               g == [l \in Lanes |-> stats'[l][k]]
    <2>2. /\ IsFiniteSet(Lanes) /\ \A l \in Lanes : f[l] \in Int
          /\ \A l \in Lanes : g[l] = IF l = lane THEN f[l] + d ELSE f[l]
      BY <1>c, <2>1, ExecutorAssumption
    <2>3. Total(k) = SumFunctionOnSet(f, Lanes) /\ Total(k)' = SumFunctionOnSet(g, Lanes)
      BY DEF Total, SumOverLanes, SumFunction
    <2> HIDE DEF f, g
    <2> QED BY <2>2, <2>3, SumChange
  <1>d. skipped' = skipped => LimitSkips' = LimitSkips
    BY DEF LimitSkips, SumOverLanes
  <1>1. ASSUME NEW lane \in Lanes, NEW net \in Nets, NEW balance \in Balances,
               Refuse(lane, net, balance)
        PROVE  AgreesInv'
    <2> DEFINE verdict == check(stats[lane]["spent"], balance)
    <2>1. verdict \in {"Killed", "WalletTooLarge", "SessionCap"}
      BY <1>1, CheckAnswers DEF Refuse
    <2>2. /\ Count(lane, RefusalCounters(verdict)) /\ Book(lane, net, verdict)
          /\ in_broker' = in_broker /\ skipped' = skipped
      BY <1>1 DEF Refuse
    <2> HIDE DEF verdict
    <2>3. PICK reason \in {"refused_killed", "refused_cap", "refused_wallet"} :
            RefusalCounters(verdict) = {"offered", "refused", reason}
      BY <2>1, RefusalCounted
    <2>4. /\ \A l \in Lanes \ {lane} : stats'[l] = stats[l]
          /\ \A k \in Counters :
               stats'[lane][k] = IF k \in {"offered", "refused", reason}
                                   THEN stats[lane][k] + 1 ELSE stats[lane][k]
      BY <1>0, <2>1, <2>2, <2>3, CountEffect, RefusalCounted
    <2>5. \A k \in Summed : Total(k)' = Total(k) + (IF k \in {"offered", "refused"} THEN 1 ELSE 0)
      <3> TAKE k \in Summed
      <3> DEFINE d == IF k \in {"offered", "refused"} THEN 1 ELSE 0
      <3>1. d \in Int /\ k \in Counters /\ stats[lane][k] \in Nat
        BY <1>0
      <3>2. stats'[lane][k] = stats[lane][k] + d
        BY <2>4, <3>1 DEF Summed
      <3> HIDE DEF d
      <3>3. Total(k)' = Total(k) + d
        BY <1>c, <2>4, <3>1, <3>2
      <3> QED BY <3>3 DEF d
    <2>6. /\ totals'.attempts = totals.attempts + 1 /\ totals'.sent = totals.sent
          /\ totals'.refused = totals.refused + 1
      BY <1>0, <2>1, <2>2, BookCounts
    <2> QED BY <1>0, <1>a, <1>b, <1>d, <2>2, <2>5, <2>6 DEF AgreesInv, Open, Summed
  <1>2. ASSUME NEW lane \in Lanes, NEW net \in Nets, NEW balance \in Balances,
               SkipDryRun(lane, net, balance)
        PROVE  AgreesInv'
    <2>1. /\ Count(lane, {"offered"}) /\ Book(lane, net, "DryRun") /\ in_broker' = in_broker /\ skipped' = skipped
          /\ {"offered"} \in SUBSET Counters
      BY <1>2 DEF SkipDryRun, Counters
    <2>2. /\ \A l \in Lanes \ {lane} : stats'[l] = stats[l]
          /\ \A k \in Counters :
               stats'[lane][k] = IF k \in {"offered"} THEN stats[lane][k] + 1
                                                      ELSE stats[lane][k]
      BY <1>0, <2>1, CountEffect
    <2>3. \A k \in Summed : Total(k)' = Total(k) + (IF k = "offered" THEN 1 ELSE 0)
      <3> TAKE k \in Summed
      <3> DEFINE d == IF k = "offered" THEN 1 ELSE 0
      <3>1. d \in Int /\ k \in Counters /\ stats[lane][k] \in Nat
        BY <1>0
      <3>2. stats'[lane][k] = stats[lane][k] + d
        BY <2>2, <3>1
      <3> HIDE DEF d
      <3>3. Total(k)' = Total(k) + d
        BY <1>c, <2>2, <3>1, <3>2
      <3> QED BY <3>3 DEF d
    <2>4. /\ totals'.attempts = totals.attempts + 1 /\ totals'.sent = totals.sent
          /\ totals'.refused = totals.refused
      BY <1>0, <2>1, BookCounts
    <2> QED BY <1>0, <1>a, <1>b, <1>d, <2>1, <2>3, <2>4 DEF AgreesInv, Open, Summed
  <1>3. ASSUME NEW lane \in Lanes, NEW net \in Nets, NEW balance \in Balances,
               CallBroker(lane, net, balance)
        PROVE  AgreesInv'
    <2>1. /\ Count(lane, {"offered", "attempted"}) /\ totals' = totals /\ skipped' = skipped
          /\ in_broker = NoAttempt /\ in_broker' = [lane |-> lane, net |-> net]
          /\ {"offered", "attempted"} \in SUBSET Counters
      BY <1>3 DEF CallBroker, Offered, Counters, ledger
    <2>2. in_broker' # NoAttempt
      BY <2>1, ExecutorAssumption DEF NoAttempt
    <2>3. /\ \A l \in Lanes \ {lane} : stats'[l] = stats[l]
          /\ \A k \in Counters :
               stats'[lane][k] = IF k \in {"offered", "attempted"}
                                   THEN stats[lane][k] + 1 ELSE stats[lane][k]
      BY <1>0, <2>1, CountEffect
    <2>4. \A k \in Summed : Total(k)' = Total(k) + (IF k = "offered" THEN 1 ELSE 0)
      <3> TAKE k \in Summed
      <3> DEFINE d == IF k = "offered" THEN 1 ELSE 0
      <3>1. d \in Int /\ k \in Counters /\ stats[lane][k] \in Nat
        BY <1>0
      <3>2. stats'[lane][k] = stats[lane][k] + d
        BY <2>3, <3>1 DEF Summed
      <3> HIDE DEF d
      <3>3. Total(k)' = Total(k) + d
        BY <1>c, <2>3, <3>1, <3>2
      <3> QED BY <3>3 DEF d
    <2> QED BY <1>0, <1>a, <1>b, <1>d, <2>1, <2>2, <2>4 DEF AgreesInv, Open, Summed
  <1>4. ASSUME NEW outcome \in BrokerOutcomes, BrokerReturns(outcome)
        PROVE  AgreesInv'
    <2> DEFINE lane == in_broker.lane
               c    == OutcomeCounters(outcome)
               limit == IF outcome \in Skips \ {"DryRun"} THEN 1 ELSE 0
    <2>1. /\ in_broker # NoAttempt /\ in_broker' = NoAttempt
          /\ lane \in Lanes
          /\ stats' = [stats EXCEPT ![lane] =
                          [k \in Counters |-> stats[lane][k] + Settle(outcome, k)]]
          /\ Book(lane, in_broker.net, outcome)
      BY <1>4 DEF BrokerReturns, IInv, TypeOK
    <2>1a. /\ \A l \in Lanes \ {lane} : skipped'[l] = skipped[l]
           /\ skipped'[lane]["limit"] = skipped[lane]["limit"] + limit
      BY <1>4, <2>1, SkippedEffect DEF IInv, TypeOK
    <2> HIDE DEF lane
    <2>2. /\ \A l \in Lanes \ {lane} : stats'[l] = stats[l]
          /\ \A k \in Counters \ {"spent"} :
               stats'[lane][k] = IF k \in c THEN stats[lane][k] + 1 ELSE stats[lane][k]
      BY <1>0, <2>1, SettleEffect
    <2>3. \A k \in Summed : Total(k)' = Total(k) + (IF k \in c THEN 1 ELSE 0)
      <3> HIDE DEF c
      <3> TAKE k \in Summed
      <3> DEFINE d == IF k \in c THEN 1 ELSE 0
      <3>1. d \in Int /\ k \in Counters /\ k # "spent" /\ stats[lane][k] \in Nat
        BY <1>0, <2>1 DEF Summed
      <3>2. stats'[lane][k] = stats[lane][k] + d
        BY <2>2, <3>1
      <3> HIDE DEF d
      <3>3. Total(k)' = Total(k) + d
        BY <1>c, <2>1, <2>2, <3>1, <3>2
      <3> QED BY <3>3 DEF d
    <2>3a. LimitSkips' = LimitSkips + limit
      <3>1. limit \in Int /\ \A l \in Lanes : skipped[l]["limit"] \in Int
        BY DEF IInv, TypeOK, SkipReasons
      <3> HIDE DEF limit
      <3>2. SumOverLanes(skipped', "limit") = SumOverLanes(skipped, "limit") + limit
        BY <2>1, <2>1a, <3>1, TotalGrows
      <3> QED BY <3>2 DEF LimitSkips, SumOverLanes
    <2>4. /\ totals'.attempts = totals.attempts + 1
          /\ totals'.sent = totals.sent + (IF outcome = "Sent" THEN 1 ELSE 0)
          /\ totals'.refused = totals.refused
               + (IF outcome \in {"Sent", "SimulatedOk", "DryRun"} THEN 0 ELSE 1)
      BY <1>0, <2>1, BookCounts
    <2>5. \/ outcome = "SimulatedOk" /\ c = {"simulated_ok"}
          \/ outcome = "SimulatedFailed" /\ c = {"simulated_failed"}
          \/ outcome = "BuildFailed" /\ c = {"build_failed"}
          \/ outcome = "Sent" /\ c = {"sent"}
          \/ outcome \in Skips /\ c = {}
      BY OutcomeCounted
    <2> HIDE DEF c
    <2>6. /\ Total("offered")' = Total("offered") /\ Total("refused")' = Total("refused")
          /\ Total("sent")' = Total("sent") + (IF outcome = "Sent" THEN 1 ELSE 0)
          /\ Total("build_failed")' = Total("build_failed")
               + (IF outcome = "BuildFailed" THEN 1 ELSE 0)
          /\ Total("simulated_failed")' = Total("simulated_failed")
               + (IF outcome = "SimulatedFailed" THEN 1 ELSE 0)
      BY <1>a, <2>3, <2>5 DEF Summed, Skips
    <2>7. (IF outcome \in {"Sent", "SimulatedOk", "DryRun"} THEN 0 ELSE 1)
            = (IF outcome = "BuildFailed" THEN 1 ELSE 0)
                + (IF outcome = "SimulatedFailed" THEN 1 ELSE 0) + limit
      BY <2>5 DEF Skips
    <2>8. limit \in Int
      OBVIOUS
    <2> HIDE DEF limit
    <2> QED BY <1>0, <1>a, <1>b, <2>1, <2>3a, <2>4, <2>6, <2>7, <2>8 DEF AgreesInv, Open, Summed
  <1>5. CASE TouchKillFile \/ RemoveKillFile \/ UNCHANGED vars
    BY <1>5 DEF TouchKillFile, RemoveKillFile, vars, ledger, AgreesInv, Open, Total, LimitSkips,
              SumOverLanes
  <1> QED BY <1>1, <1>2, <1>3, <1>4, <1>5 DEF Next

\* The ledger's attempts, sends and refusals are those of the executors, summed
\* over any number of lanes, at every step of an attempt, and its refusals are
\* more only by the attempts a broker skipped for a limit.
THEOREM ExecutorLedgerAgrees == Spec => []LedgerAgrees
  <1>1. Init => AgreesInv
    <2> SUFFICES ASSUME Init PROVE AgreesInv
      OBVIOUS
    <2>1. \A k \in Summed : \A l \in Lanes : stats[l][k] = 0
      BY DEF Init, Summed, Counters
    <2>2. \A k \in Summed : Total(k) = 0
      BY <2>1, TotalZero DEF Total
    <2>3. \A l \in Lanes : skipped[l]["limit"] = 0
      BY DEF Init, SkipReasons
    <2>4. LimitSkips = 0
      BY <2>3, TotalZero DEF LimitSkips
    <2> QED BY <2>2, <2>4 DEF Init, LedgerInit, AgreesInv, Open, Summed
  <1>2. AgreesInv => LedgerAgrees
    BY DEF AgreesInv, LedgerAgrees, Open, Total, LimitSkips, SumOverLanes
  <1> QED BY <1>1, <1>2, AgreesStep, ExecutorInvariant, PTL DEF Spec

\* What a trade adds to a sum over some bookings.
Worth(trade, bookings) == IF trade.booking \in bookings THEN trade.net_lamports ELSE 0

\* The sum of a tape over some bookings.
TapeSum(tape, bookings) ==
  SumFunction([i \in DOMAIN tape |-> Worth(tape[i], bookings)])

\* A trade put in front of a tape adds its worth to the sum.
LEMMA TapeSumPush ==
  ASSUME NEW T, NEW tape \in Seq(T), NEW t \in T, NEW bookings,
         \A u \in T : u.net_lamports \in Int
  PROVE  TapeSum(<<t>> \o tape, bookings) = Worth(t, bookings) + TapeSum(tape, bookings)
  <1> DEFINE longer == <<t>> \o tape
             n == Len(tape)
             f == [i \in DOMAIN tape |-> Worth(tape[i], bookings)]
             g == [i \in DOMAIN longer |-> Worth(longer[i], bookings)]
  <1>1. /\ n \in Nat /\ DOMAIN tape = 1 .. n /\ DOMAIN longer = 1 .. n + 1
        /\ longer[1] = t /\ \A i \in 1 .. n : longer[i + 1] = tape[i] /\ tape[i] \in T
    OBVIOUS
  <1> HIDE DEF longer, n
  <1>2. \A u \in T : Worth(u, bookings) \in Int
    BY DEF Worth
  <1>3. /\ g[1] = Worth(t, bookings) /\ DOMAIN f = 1 .. n /\ DOMAIN g = 1 .. n + 1
        /\ \A i \in 1 .. n : g[i + 1] = f[i] /\ f[i] \in Int
    BY <1>1, <1>2
  <1>4. \A i \in 1 .. n + 1 : g[i] \in Int
    <2> TAKE i \in 1 .. n + 1
    <2>1. CASE i = 1
      BY <1>2, <1>3, <2>1
    <2>2. CASE i # 1
      <3>1. i - 1 \in 1 .. n /\ (i - 1) + 1 = i
        BY <1>1, <2>2
      <3> HIDE DEF f, g
      <3>2. g[(i - 1) + 1] = f[i - 1] /\ f[i - 1] \in Int
        BY <1>3, <3>1
      <3> QED BY <3>1, <3>2
    <2> QED BY <2>1, <2>2
  <1>5. TapeSum(tape, bookings) = SumFunctionOnSet(f, 1 .. n)
    BY <1>3 DEF TapeSum, SumFunction
  <1>6. TapeSum(longer, bookings) = SumFunctionOnSet(g, 1 .. n + 1)
    BY <1>3 DEF TapeSum, SumFunction
  <1> HIDE DEF f, g
  <1>7. IsFiniteSet(1 .. n + 1) /\ 1 \in 1 .. n + 1 /\ (1 .. n + 1) \ {1} = 2 .. n + 1
    <2>1. n \in Nat /\ 1 \in Int /\ n + 1 \in Int
      BY <1>1
    <2>2. IsFiniteSet(1 .. n + 1)
      BY <2>1, FS_Interval
    <2>3. 1 \in 1 .. n + 1 /\ (1 .. n + 1) \ {1} = 2 .. n + 1
      BY <2>1
    <2> QED BY <2>2, <2>3
  <1>8. SumFunctionOnSet(g, 1 .. n + 1) = g[1] + SumFunctionOnSet(g, 2 .. n + 1)
    <2> DEFINE N == 1 .. n + 1
    <2>1. IsFiniteSet(N) /\ 1 \in N /\ N \in SUBSET N /\ \A i \in N : g[i] \in Int
      BY <1>4, <1>7
    <2>2. SumFunctionOnSet(g, N) = g[1] + SumFunctionOnSet(g, N \ {1})
      <3> HIDE DEF N
      <3> QED BY <2>1, SumRemove
    <2> QED BY <2>2, <1>7
  <1>9. SumFunctionOnSet(g, 2 .. n + 1) = SumFunctionOnSet(f, 1 .. n)
    BY <1>1, <1>3, SumShift
  <1> QED BY <1>3, <1>5, <1>6, <1>8, <1>9 DEF longer

\* TotalsMatchTape, with its sums named.
TapeInv ==
  /\ totals.realised_lamports <= totals.expected_lamports
  /\ totals.attempts <= KEPT => Len(trades) = totals.attempts
  /\ totals.attempts > KEPT => Len(trades) = KEPT
  /\ Len(trades) = totals.attempts =>
       /\ totals.realised_lamports = TapeSum(trades, {"Realised"})
       /\ totals.expected_lamports = TapeSum(trades, Booking \ {"None"})
  /\ \A i \in DOMAIN trades : trades[i].net_lamports <= totals.best_lamports

\* Booking one more trade keeps totals and tape in agreement, also when the
\* tape is full and its oldest trade falls off.
LEMMA BookKeepsTape ==
  ASSUME TypeOK, TapeInv, NEW lane \in Lanes, NEW net \in Nets, NEW outcome,
         Book(lane, net, outcome)
  PROVE  TapeInv'
  <1> DEFINE t == [lane |-> lane, net_lamports |-> net, booking |-> booking_of(outcome)]
             T == [lane : Lanes, net_lamports : Nets, booking : Booking]
             longer == <<t>> \o trades
  <1>1. t \in T /\ t.net_lamports \in Nat /\ t.net_lamports = net
    BY ExecutorAssumption DEF booking_of, Booking
  <1>2. totals' = totals_with(t) /\ trades' = tape_with(t)
    BY DEF Book, record
  <1>3. trades \in Seq(T) /\ KEPT \in Nat \ {0} /\ \A u \in T : u.net_lamports \in Nat
    BY KeptAssumption, ExecutorAssumption DEF TypeOK
  <1>4. /\ totals.attempts \in Nat /\ totals.realised_lamports \in Nat
        /\ totals.expected_lamports \in Nat /\ totals.best_lamports \in Nat
    BY DEF TypeOK
  <1> HIDE DEF t, T
  <1>5. /\ totals'.attempts = totals.attempts + 1
        /\ totals'.expected_lamports = totals.expected_lamports
             + (IF t.booking # "None" THEN t.net_lamports ELSE 0)
        /\ totals'.realised_lamports = totals.realised_lamports
             + (IF t.booking = "Realised" THEN t.net_lamports ELSE 0)
        /\ totals'.best_lamports \in Nat
        /\ totals'.best_lamports >= totals.best_lamports
        /\ totals'.best_lamports >= t.net_lamports
    BY <1>1, <1>2, <1>4 DEF totals_with, Larger
  <1>6. /\ longer \in Seq(T) /\ Len(longer) = Len(trades) + 1 /\ Len(trades) \in Nat
        /\ DOMAIN longer = 1 .. Len(trades) + 1
        /\ longer[1] = t /\ \A i \in 2 .. Len(trades) + 1 : longer[i] = trades[i - 1]
    BY <1>1, <1>3
  <1>7. /\ Len(trades) + 1 > KEPT => trades' = SubSeq(longer, 1, KEPT)
        /\ Len(trades) + 1 <= KEPT => trades' = longer
    BY <1>2, <1>3, <1>6 DEF tape_with
  <1>8. totals'.realised_lamports <= totals'.expected_lamports
    BY <1>1, <1>4, <1>5 DEF TapeInv
  <1>9. /\ totals'.attempts <= KEPT => Len(trades') = totals'.attempts /\ trades' = longer
        /\ totals'.attempts > KEPT => Len(trades') = KEPT
    <2> HIDE DEF longer
    <2>1. CASE totals.attempts < KEPT
      BY <2>1, <1>3, <1>4, <1>5, <1>6, <1>7 DEF TapeInv
    <2>2. CASE totals.attempts >= KEPT
      <3>1. Len(trades) = KEPT
        BY <2>2, <1>3, <1>4 DEF TapeInv
      <3>2. trades' = SubSeq(longer, 1, KEPT) /\ Len(longer) = KEPT + 1
        BY <3>1, <1>3, <1>6, <1>7
      <3>3. Len(trades') = KEPT
        BY <3>2, <1>3, <1>6
      <3> QED BY <2>2, <3>3, <1>3, <1>4, <1>5
    <2> QED BY <2>1, <2>2, <1>3, <1>4
  <1>10. Len(trades') = totals'.attempts =>
           /\ totals'.realised_lamports = TapeSum(trades', {"Realised"})
           /\ totals'.expected_lamports = TapeSum(trades', Booking \ {"None"})
    <2> SUFFICES ASSUME Len(trades') = totals'.attempts
                 PROVE  /\ totals'.realised_lamports = TapeSum(trades', {"Realised"})
                        /\ totals'.expected_lamports = TapeSum(trades', Booking \ {"None"})
      OBVIOUS
    <2>1. totals'.attempts <= KEPT /\ trades' = longer
      BY <1>3, <1>4, <1>5, <1>9
    <2>2. Len(trades) = totals.attempts
      BY <2>1, <1>3, <1>4, <1>5 DEF TapeInv
    <2>3. \A b : TapeSum(longer, b) = Worth(t, b) + TapeSum(trades, b)
      BY <1>1, <1>3, TapeSumPush
    <2>4. /\ Worth(t, {"Realised"}) = IF t.booking = "Realised" THEN t.net_lamports ELSE 0
          /\ Worth(t, Booking \ {"None"}) = IF t.booking # "None" THEN t.net_lamports ELSE 0
      BY <1>1 DEF Worth, T
    <2> HIDE DEF longer
    <2>5. /\ totals.realised_lamports = TapeSum(trades, {"Realised"})
          /\ totals.expected_lamports = TapeSum(trades, Booking \ {"None"})
      BY <2>2 DEF TapeInv
    <2> QED BY <1>1, <1>4, <1>5, <2>1, <2>3, <2>4, <2>5
  <1>11. \A i \in DOMAIN trades' : trades'[i].net_lamports <= totals'.best_lamports
    <2>1. \A i \in DOMAIN longer : longer[i].net_lamports <= totals'.best_lamports
      <3> TAKE i \in DOMAIN longer
      <3>1. CASE i = 1
        BY <1>1, <1>5, <1>6, <3>1
      <3>2. CASE i # 1
        <4>1. i - 1 \in DOMAIN trades /\ longer[i] = trades[i - 1] /\ trades[i - 1] \in T
          BY <1>3, <1>6, <3>2
        <4>2. trades[i - 1].net_lamports <= totals.best_lamports /\ trades[i - 1].net_lamports \in Nat
          BY <1>3, <4>1 DEF TapeInv
        <4> QED BY <1>4, <1>5, <4>1, <4>2
      <3> QED BY <3>1, <3>2
    <2> HIDE DEF longer
    <2>2. DOMAIN trades' \subseteq DOMAIN longer /\ \A i \in DOMAIN trades' : trades'[i] = longer[i]
      <3>1. CASE Len(trades) + 1 > KEPT
        BY <3>1, <1>3, <1>6, <1>7
      <3>2. CASE Len(trades) + 1 <= KEPT
        BY <3>2, <1>7
      <3> QED BY <3>1, <3>2, <1>3, <1>6
    <2> QED BY <2>1, <2>2
  <1> QED BY <1>8, <1>9, <1>10, <1>11 DEF TapeInv

\* The totals are the sums of the tape for as long as it holds every trade, no
\* trade on it beats the best one shown, and no more is realised than expected.
THEOREM ExecutorTotalsMatchTape == Spec => []TotalsMatchTape
  <1>1. Init => TapeInv
    <2> SUFFICES ASSUME Init PROVE TapeInv
      OBVIOUS
    <2>1. \A b : TapeSum(<<>>, b) = 0
      <3> TAKE b
      <3> DEFINE f == [i \in DOMAIN <<>> |-> Worth(<<>>[i], b)]
      <3>1. DOMAIN f = {}
        OBVIOUS
      <3> HIDE DEF f
      <3>2. SumFunction(f) = 0
        BY <3>1, SumEmpty DEF SumFunction
      <3> QED BY <3>2 DEF TapeSum, f
    <2> QED BY <2>1, KeptAssumption DEF Init, LedgerInit, TapeInv
  <1>2. IInv /\ TapeInv /\ [Next]_vars => TapeInv'
    <2> SUFFICES ASSUME IInv, TapeInv, [Next]_vars PROVE TapeInv'
      OBVIOUS
    <2>0. TypeOK
      BY DEF IInv
    <2>1. ASSUME NEW lane \in Lanes, NEW net \in Nets, NEW balance \in Balances,
                 Refuse(lane, net, balance) \/ SkipDryRun(lane, net, balance)
          PROVE  TapeInv'
      <3>1. \E outcome : Book(lane, net, outcome)
        BY <2>1 DEF Refuse, SkipDryRun
      <3> QED BY <2>0, <3>1, BookKeepsTape
    <2>2. ASSUME NEW outcome \in BrokerOutcomes, BrokerReturns(outcome)
          PROVE  TapeInv'
      <3>1. /\ in_broker.lane \in Lanes /\ in_broker.net \in Nets
            /\ Book(in_broker.lane, in_broker.net, outcome)
        BY <2>0, <2>2 DEF BrokerReturns, TypeOK
      <3> QED BY <2>0, <3>1, BookKeepsTape
    <2>3. CASE UNCHANGED ledger
      BY <2>3 DEF ledger, TapeInv
    <2> QED BY <2>1, <2>2, <2>3 DEF Next, CallBroker, TouchKillFile, RemoveKillFile, vars
  <1>3. TapeInv => TotalsMatchTape
    BY DEF TapeInv, TotalsMatchTape, TapeSum, Worth
  <1> QED BY <1>1, <1>2, <1>3, ExecutorInvariant, PTL DEF Spec
=============================================================================
