----------------------------- MODULE DemoProofs -----------------------------
(***************************************************************************)
(* Proofs about the demonstrations (MCDemos): however runs are broken off, *)
(* no payment is made twice, and what a run reports at its end is true.    *)
(* The wallets, lanes and amounts of DemoRun are any; the scenarios of     *)
(* rounds and the two runs of the yield demo are MCDemos' own, over any    *)
(* lanes, clock, fees, interest and reserve.                               *)
(*                                                                         *)
(* One demonstration runs and the others rest, so each has an invariant of *)
(* its own; the last section puts them together.                           *)
(***************************************************************************)
EXTENDS MCDemos, RyvoYieldProofs, SequenceTheorems

\* A lane as far as payments are concerned.
LaneShape(ln) ==
  /\ {"initialized", "settled_cumulative"} \subseteq DOMAIN ln
  /\ ln.settled_cumulative \in Nat

-----------------------------------------------------------------------------
(***************************************************************************)
(* What the live rounds owe.                                               *)
(***************************************************************************)
OwedBefore(l) == [s \in DOMAIN TwoScenarios |-> TwoScenarios[s].owes[l]]

\* The scenarios are a sequence, and so are the candidates of each; candidates
\* are sets of lanes with a lane in common.
LEMMA ScenarioShape ==
  /\ Len(TwoScenarios) \in Nat \ {0} /\ DOMAIN TwoScenarios = 1 .. Len(TwoScenarios)
  /\ \A s \in DOMAIN TwoScenarios :
       /\ TwoScenarios[s].owes \in [RoundLanes -> Nat \ {0}]
       /\ Len(TwoScenarios[s].candidates) \in Nat \ {0}
       /\ DOMAIN TwoScenarios[s].candidates = 1 .. Len(TwoScenarios[s].candidates)
       /\ \A k, j \in DOMAIN TwoScenarios[s].candidates :
            /\ TwoScenarios[s].candidates[k] \subseteq RoundLanes
            /\ TwoScenarios[s].candidates[k] \cap TwoScenarios[s].candidates[j] # {}
<1>1. /\ Len(TwoScenarios) \in Nat \ {0} /\ DOMAIN TwoScenarios = 1 .. Len(TwoScenarios)
      /\ DOMAIN TwoScenarios = 1 .. 2
  BY DEF TwoScenarios
<1>2. ASSUME NEW s \in DOMAIN TwoScenarios
      PROVE  /\ Len(TwoScenarios[s].candidates) \in Nat \ {0}
             /\ DOMAIN TwoScenarios[s].candidates = 1 .. Len(TwoScenarios[s].candidates)
  BY <1>1 DEF TwoScenarios, RingsFirst, ThenChannels
<1>3. Rounding!ScenariosAssumption
  BY LiveRoundsAssumption
<1>4. ASSUME NEW s \in DOMAIN TwoScenarios
      PROVE  /\ TwoScenarios[s].owes \in [RoundLanes -> Nat \ {0}]
             /\ \A k, j \in DOMAIN TwoScenarios[s].candidates :
                  /\ TwoScenarios[s].candidates[k] \subseteq RoundLanes
                  /\ TwoScenarios[s].candidates[k] \cap TwoScenarios[s].candidates[j] # {}
  BY <1>3 DEF Rounding!ScenariosAssumption
<1>. QED
  BY <1>1, <1>2, <1>4, Zenon

\* What a lane owes over scenarios is the sum of what each owes.
LEMMA OwedIsSum ==
  ASSUME NEW l \in RoundLanes, NEW D \in SUBSET DOMAIN TwoScenarios
  PROVE  /\ IsFiniteSet(D)
         /\ \A s \in D : OwedBefore(l)[s] \in Nat
         /\ Rounding!OwedIn(l, D) = SumFunctionOnSet(OwedBefore(l), D)
<1>. DEFINE owes == [s \in D |-> TwoScenarios[s].owes[l]]
<1>1. IsFiniteSet(D)
  <2>1. IsFiniteSet(1 .. Len(TwoScenarios))
    BY ScenarioShape, FS_Interval
  <2>. QED
    BY <2>1, ScenarioShape, FS_Subset
<1>2. Rounding!OwedIn(l, D) = SumFunctionOnSet(owes, D)
  BY DEF Rounding!OwedIn, Rounding!MapThenSumSet, Rounding!MapThenFoldSet,
         SumFunctionOnSet, FoldFunctionOnSet, MapThenFoldSet
<1>3. \A s \in D : owes[s] = OwedBefore(l)[s] /\ OwedBefore(l)[s] \in Nat
  BY ScenarioShape DEF OwedBefore
<1>4. SumFunctionOnSet(owes, D) = SumFunctionOnSet(OwedBefore(l), D)
  <2>. HIDE DEF owes
  <2>. QED BY <1>1, <1>3, SumCongruence
<1>. QED
  BY <1>1, <1>2, <1>3, <1>4

\* A scenario more adds what a lane owes in it, and scenarios left out only
\* lessen the sum.
LEMMA OwedInFacts ==
  ASSUME NEW l \in RoundLanes, NEW D \in SUBSET DOMAIN TwoScenarios
  PROVE  /\ Rounding!OwedIn(l, D) \in Nat
         /\ Rounding!OwedIn(l, {}) = 0
         /\ \A s \in DOMAIN TwoScenarios \ D :
              Rounding!OwedIn(l, D \cup {s}) = Rounding!OwedIn(l, D) + TwoScenarios[s].owes[l]
         /\ \A C \in SUBSET D : Rounding!OwedIn(l, C) <= Rounding!OwedIn(l, D)
<1>. DEFINE f == OwedBefore(l)
<1>1. /\ IsFiniteSet(D) /\ \A s \in D : f[s] \in Nat
      /\ Rounding!OwedIn(l, D) = SumFunctionOnSet(f, D)
  BY OwedIsSum
<1>2. Rounding!OwedIn(l, D) \in Nat
  BY <1>1, SumOfNaturals
<1>3. Rounding!OwedIn(l, {}) = 0
  BY OwedIsSum, SumOfNone
<1>4. ASSUME NEW s \in DOMAIN TwoScenarios \ D
      PROVE  Rounding!OwedIn(l, D \cup {s}) = Rounding!OwedIn(l, D) + TwoScenarios[s].owes[l]
  <2>1. /\ IsFiniteSet(D \cup {s}) /\ \A x \in D \cup {s} : f[x] \in Nat
        /\ Rounding!OwedIn(l, D \cup {s}) = SumFunctionOnSet(f, D \cup {s})
    BY OwedIsSum
  <2>2. (D \cup {s}) \ {s} = D /\ s \in D \cup {s} /\ f[s] = TwoScenarios[s].owes[l]
    BY DEF OwedBefore
  <2>3. SumFunctionOnSet(f, D \cup {s}) = f[s] + SumFunctionOnSet(f, (D \cup {s}) \ {s})
    <3>. HIDE DEF f
    <3>. QED BY <2>1, <2>2, SumWithout
  <2>4. f[s] \in Nat /\ SumFunctionOnSet(f, D) \in Nat
    BY <1>1, <1>2, <2>1
  <2>. QED
    BY <1>1, <2>1, <2>2, <2>3, <2>4
<1>5. ASSUME NEW C \in SUBSET D
      PROVE  Rounding!OwedIn(l, C) <= Rounding!OwedIn(l, D)
  <2>1. /\ IsFiniteSet(C) /\ IsFiniteSet(D \ C) /\ C \cap (D \ C) = {} /\ C \cup (D \ C) = D
        /\ \A s \in D : f[s] \in Int
    <3>1. C \in SUBSET D /\ (D \ C) \in SUBSET D
      OBVIOUS
    <3>2. IsFiniteSet(C) /\ IsFiniteSet(D \ C)
      BY <1>1, <3>1, FS_Subset
    <3>3. \A s \in D : f[s] \in Int
      BY <1>1
    <3>. QED
      BY <3>2, <3>3
  <2>2. SumFunctionOnSet(f, D) = SumFunctionOnSet(f, C) + SumFunctionOnSet(f, D \ C)
    <3>. HIDE DEF f
    <3>. QED BY <2>1, SumUnion
  <2>3. SumFunctionOnSet(f, D \ C) \in Nat /\ SumFunctionOnSet(f, C) \in Nat
    <3>. HIDE DEF f
    <3>. QED BY <1>1, <2>1, SumOfNaturals
  <2>. QED
    BY <1>1, <2>2, <2>3, OwedIsSum
<1>. QED
  BY <1>2, <1>3, <1>4, <1>5

-----------------------------------------------------------------------------
(***************************************************************************)
(* The live rounds.  While a scenario is at work, either none of the run's *)
(* rounds of it has landed, or one has and its lanes stand one obligation  *)
(* above the cache; then every other one shares a lane with that one and   *)
(* can no longer land.  A lane stands higher than the cache and the report *)
(* say only by what strays, the rounds of earlier runs, have paid on it.   *)
(***************************************************************************)
Owes(l) == TwoScenarios[scenario].owes[l]
Candidates == TwoScenarios[scenario].candidates
AtWork == {"simulate", "send", "wait", "refresh"}

\* The scenarios of this run that are reported to have paid on a lane.
ReportedOn(l) == {r.scenario : r \in {x \in reported : l \in x.edges}}

RoundsTypes ==
  /\ pc \in AtWork \cup {"start", "done", "failed"}
  /\ scenario \in DOMAIN TwoScenarios
  /\ start \in [RoundLanes -> Nat] /\ cached \in [RoundLanes -> Nat]
  /\ strayed \in [RoundLanes -> Nat]
  /\ \A l \in RoundLanes : LaneShape(lane[l])
  /\ \A f \in flying :
       /\ {"round", "stray"} \subseteq DOMAIN f /\ f.stray \in BOOLEAN
       /\ \A l \in DOMAIN f.round.targets : f.round.targets[l] \in Nat

\* The rounds at hand are those of the scenario's candidates.
PreparedNow ==
  pc \in AtWork =>
    /\ prepared = [k \in DOMAIN Candidates |-> Rounding!RoundOf(scenario, Candidates[k])]
    /\ candidate \in DOMAIN Candidates

\* The cache holds what was settled when the run began and what it reported,
\* and perhaps what strays have paid.
CacheIsLedger ==
  \A l \in RoundLanes :
    /\ ReportedOn(l) \subseteq 1 .. (IF pc = "done" THEN scenario ELSE scenario - 1)
    /\ cached[l] >= start[l] + Rounding!OwedIn(l, ReportedOn(l))

\* A round that asks for an amount that is already settled never lands.
Dead(r) ==
  \E l \in RoundLanes \cap DOMAIN r.targets : lane[l].settled_cumulative >= r.targets[l]
OfScenario(r) ==
  \E k \in DOMAIN Candidates : r = Rounding!RoundOf(scenario, Candidates[k])

FlightsAreKnown ==
  \A f \in flying :
    f.stray = TRUE \/ Dead(f.round) \/ (pc \notin {"start", "done"} /\ OfScenario(f.round))

\* How high a lane may stand, beyond what it owes in the scenario at work.
Ceiling(l) == start[l] + Rounding!OwedIn(l, ReportedOn(l)) + strayed[l]
Between(l, extra) ==
  /\ cached[l] + extra <= lane[l].settled_cumulative
  /\ lane[l].settled_cumulative <= Ceiling(l) + extra

NoneLanded == \A l \in RoundLanes : Between(l, 0)
Landed(k) ==
  \A l \in RoundLanes : Between(l, IF l \in Candidates[k] THEN Owes(l) ELSE 0)

OneRoundLands ==
  /\ \/ NoneLanded
     \/ pc \notin {"start", "done"} /\ (\E k \in DOMAIN Candidates : Landed(k))
  /\ (pc = "refresh" \/ (pc = "wait" /\ landed = "ran")) => Landed(candidate)

RoundsInvariant ==
  RoundsTypes /\ PreparedNow /\ CacheIsLedger /\ FlightsAreKnown /\ OneRoundLands

\* The round of a candidate: its lanes, and what each asks for.
LEMMA RoundOfCandidate ==
  ASSUME RoundsTypes, NEW k \in DOMAIN Candidates
  PROVE  LET r == Rounding!RoundOf(scenario, Candidates[k])
         IN  /\ DOMAIN r.targets = Candidates[k]
             /\ Candidates[k] \subseteq RoundLanes
             /\ \A l \in Candidates[k] :
                  /\ r.targets[l] = cached[l] + Owes(l)
                  /\ cached[l] \in Nat /\ Owes(l) \in Nat \ {0}
<1>1. Candidates[k] \subseteq RoundLanes
  BY ScenarioShape DEF RoundsTypes, Candidates
<1>2. \A l \in RoundLanes : Owes(l) \in Nat \ {0} /\ cached[l] \in Nat
  BY ScenarioShape DEF RoundsTypes, Owes
<1>. QED
  BY <1>1, <1>2 DEF Rounding!RoundOf, Owes

\* settle_clearing_round moves every lane of the round to its target, which is
\* above what was settled, and no other lane.
LEMMA RoundLands ==
  ASSUME \A l \in RoundLanes : LaneShape(lane[l]),
         NEW r, \A l \in DOMAIN r.targets : r.targets[l] \in Nat,
         Rounding!SettleClearingRound(r)
  PROVE  /\ ~Dead(r)
         /\ \A l \in RoundLanes :
              /\ LaneShape(lane[l])'
              /\ lane'[l].settled_cumulative =
                   IF l \in DOMAIN r.targets THEN r.targets[l] ELSE lane[l].settled_cumulative
              /\ lane'[l].settled_cumulative >= lane[l].settled_cumulative
<1>1. \A l \in DOMAIN r.targets : r.targets[l] > lane[l].settled_cumulative
  BY DEF Rounding!SettleClearingRound, Rounding!Increases
<1>2. ~Dead(r)
  BY <1>1 DEF Dead, LaneShape
<1>3. ASSUME NEW l \in RoundLanes
      PROVE  lane'[l] = IF l \in DOMAIN r.targets
                        THEN Rounding!ApplyLaneSettlement(lane[l], r.targets[l],
                               Rounding!LockedConsumed(l, r.targets[l]))
                        ELSE lane[l]
  BY DEF Rounding!SettleClearingRound, Rounding!ApplySettlement
<1>4. ASSUME NEW l \in RoundLanes, NEW t \in Nat, NEW c
      PROVE  LET ln == Rounding!ApplyLaneSettlement(lane[l], t, c)
             IN  LaneShape(ln) /\ ln.settled_cumulative = t
  BY DEF LaneShape, Rounding!ApplyLaneSettlement, Rounding!CapPendingUnlock
<1>. QED
  BY <1>1, <1>2, <1>3, <1>4 DEF LaneShape

\* Settled amounts only grow, so a dead round stays dead.
LEMMA DeadStays ==
  ASSUME NEW r, Dead(r), \A l \in RoundLanes : LaneShape(lane[l]),
         \A l \in DOMAIN r.targets : r.targets[l] \in Nat,
         \A l \in RoundLanes :
           /\ LaneShape(lane[l])'
           /\ lane'[l].settled_cumulative >= lane[l].settled_cumulative
  PROVE  Dead(r)'
BY DEF Dead, LaneShape

\* What holds after the steps that leave the lanes, the cache and the scenario
\* alone and submit nothing.
LEMMA QuietStep ==
  ASSUME RoundsInvariant,
         UNCHANGED <<lane, scenario, cached, start, strayed, reported>>,
         flying' \subseteq flying,
         pc' \in AtWork \cup {"start", "done", "failed"},
         pc' \in {"start", "done"} => pc' = pc, pc = "done" => pc' = pc
  PROVE  /\ RoundsTypes' /\ CacheIsLedger' /\ FlightsAreKnown'
         /\ \/ NoneLanded'
            \/ (pc \notin {"start", "done"} /\ (\E k \in DOMAIN Candidates : Landed(k)))'
         /\ \A k : Landed(k)' <=> Landed(k)
         /\ \A l : Owes(l)' = Owes(l)
         /\ Candidates' = Candidates
         /\ \A k : Rounding!RoundOf(scenario, Candidates[k])' = Rounding!RoundOf(scenario, Candidates[k])
<1>1. /\ \A l : Owes(l)' = Owes(l)
      /\ Candidates' = Candidates
      /\ \A l : ReportedOn(l)' = ReportedOn(l)
  BY DEF Owes, Candidates, ReportedOn
<1>2. \A k : Rounding!RoundOf(scenario, Candidates[k])' = Rounding!RoundOf(scenario, Candidates[k])
  BY <1>1 DEF Rounding!RoundOf
<1>10. \A l, extra : Between(l, extra)' <=> Between(l, extra)
  BY <1>1 DEF Between, Ceiling
<1>3. \A k : Landed(k)' <=> Landed(k)
  BY <1>1 DEF Landed, Between, Ceiling
<1>4. NoneLanded' <=> NoneLanded
  BY <1>10 DEF NoneLanded
<1>5. RoundsTypes'
  BY DEF RoundsInvariant, RoundsTypes, LaneShape
<1>6. CacheIsLedger'
  BY <1>1 DEF RoundsInvariant, CacheIsLedger
<1>7. \A r : (Dead(r)' <=> Dead(r)) /\ (OfScenario(r)' <=> OfScenario(r))
  BY <1>1, <1>2 DEF Dead, OfScenario
<1>8. FlightsAreKnown'
  BY <1>7 DEF RoundsInvariant, FlightsAreKnown, AtWork
<1>9. \/ NoneLanded'
      \/ (pc \notin {"start", "done"} /\ (\E k \in DOMAIN Candidates : Landed(k)))'
  <2>1. CASE NoneLanded
    BY <1>4, <2>1
  <2>2. CASE ~NoneLanded
    <3>1. pc \notin {"start", "done"} /\ \E k \in DOMAIN Candidates : Landed(k)
      BY <2>2 DEF RoundsInvariant, OneRoundLands
    <3>2. PICK k \in DOMAIN Candidates : Landed(k)
      BY <3>1
    <3>3. k \in DOMAIN Candidates' /\ Landed(k)'
      BY <1>1, <1>3, <3>2
    <3>4. pc' \notin {"start", "done"}
      BY <3>1
    <3>. QED
      BY <3>3, <3>4, Zenon
  <2>. QED
    BY <2>1, <2>2
<1>. QED
  BY <1>1, <1>2, <1>3, <1>5, <1>6, <1>8, <1>9, Zenon

\* The next smaller candidate, or the end of the run.
LEMMA NextCandidateKeeps ==
  ASSUME RoundsInvariant, pc \in {"simulate", "wait"},
         Rounding!NextCandidate,
         UNCHANGED <<scenario, cached, flying, start, strayed, reported>>
  PROVE  RoundsInvariant'
<1>1. /\ lane' = lane /\ prepared' = prepared
      /\ candidate' = candidate + 1
      /\ pc' = IF candidate = Len(prepared) THEN "failed" ELSE "simulate"
  BY DEF Rounding!NextCandidate, Rounding!vars, Rounding!laneVars
<1>2. /\ prepared = [k \in DOMAIN Candidates |-> Rounding!RoundOf(scenario, Candidates[k])]
      /\ candidate \in DOMAIN Candidates
  BY DEF RoundsInvariant, PreparedNow, AtWork
<1>3. /\ Len(Candidates) \in Nat \ {0} /\ DOMAIN Candidates = 1 .. Len(Candidates)
  BY ScenarioShape DEF RoundsInvariant, RoundsTypes, Candidates
<1>4. Len(prepared) = Len(Candidates)
  BY <1>2, <1>3
<1>5. candidate' \in DOMAIN Candidates \/ pc' = "failed"
  BY <1>1, <1>2, <1>3, <1>4
<1>6. /\ pc' \in AtWork \cup {"start", "done", "failed"}
      /\ pc' \notin {"start", "done"} /\ pc' # "refresh" /\ pc' # "wait" /\ pc # "done"
  BY <1>1 DEF AtWork
<1>7. /\ RoundsTypes' /\ CacheIsLedger' /\ FlightsAreKnown'
      /\ \/ NoneLanded'
         \/ (pc \notin {"start", "done"} /\ (\E k \in DOMAIN Candidates : Landed(k)))'
      /\ Candidates' = Candidates
      /\ \A k : Rounding!RoundOf(scenario, Candidates[k])' = Rounding!RoundOf(scenario, Candidates[k])
  BY <1>1, <1>6, QuietStep
<1>8. PreparedNow'
  BY <1>1, <1>2, <1>5, <1>7 DEF PreparedNow, AtWork
<1>9. OneRoundLands'
  BY <1>6, <1>7 DEF OneRoundLands
<1>. QED
  BY <1>7, <1>8, <1>9 DEF RoundsInvariant

\* Steps that only move the process on.
LEMMA ProcessKeeps ==
  ASSUME RoundsInvariant,
         UNCHANGED <<lane, scenario, cached, start, strayed, reported, candidate, prepared, flying>>,
         \/ pc = "simulate" /\ pc' \in {"send", "failed"}
         \/ pc = "refresh" /\ pc' = "failed"
         \/ pc = "wait" /\ landed = "ran" /\ pc' = "refresh"
  PROVE  RoundsInvariant'
<1>1. /\ pc' \in AtWork \cup {"start", "done", "failed"}
      /\ pc' \notin {"start", "done"} /\ pc # "done" /\ pc \in AtWork
      /\ pc' # "wait" /\ (pc' = "refresh" => pc = "wait" /\ landed = "ran")
  BY DEF AtWork
<1>2. /\ RoundsTypes' /\ CacheIsLedger' /\ FlightsAreKnown'
      /\ \/ NoneLanded'
         \/ (pc \notin {"start", "done"} /\ (\E k \in DOMAIN Candidates : Landed(k)))'
      /\ \A k : Landed(k)' <=> Landed(k)
      /\ Candidates' = Candidates
      /\ \A k : Rounding!RoundOf(scenario, Candidates[k])' = Rounding!RoundOf(scenario, Candidates[k])
  BY <1>1, QuietStep
<1>3. PreparedNow'
  BY <1>1, <1>2 DEF RoundsInvariant, PreparedNow
<1>4. pc' = "refresh" => Landed(candidate)'
  <2>1. Landed(candidate)' <=> Landed(candidate)
    BY <1>2 DEF Landed, Candidates, Owes
  <2>. QED
    BY <1>1, <2>1 DEF RoundsInvariant, OneRoundLands
<1>5. OneRoundLands'
  BY <1>1, <1>2, <1>4 DEF OneRoundLands
<1>. QED
  BY <1>2, <1>3, <1>5 DEF RoundsInvariant
\* buildPreparedRoundTransaction reads the cache and sends nothing.
LEMMA PrepareKeeps ==
  ASSUME RoundsInvariant, Rounding!Prepare
  PROVE  RoundsInvariant'
<1>1. /\ pc = "start" /\ pc' = "simulate" /\ candidate' = 1
      /\ prepared' = [k \in DOMAIN Candidates |-> Rounding!RoundOf(scenario, Candidates[k])]
      /\ UNCHANGED <<lane, scenario, cached, flying, landed, start, strayed, reported>>
  BY DEF Rounding!Prepare, Rounding!laneVars, Candidates
<1>2. /\ RoundsTypes' /\ CacheIsLedger' /\ FlightsAreKnown'
      /\ \/ NoneLanded'
         \/ (pc \notin {"start", "done"} /\ (\E k \in DOMAIN Candidates : Landed(k)))'
      /\ Candidates' = Candidates
      /\ \A k : Rounding!RoundOf(scenario, Candidates[k])' = Rounding!RoundOf(scenario, Candidates[k])
  BY <1>1, QuietStep DEF AtWork
<1>3. 1 \in DOMAIN Candidates
  BY ScenarioShape DEF RoundsInvariant, RoundsTypes, Candidates
<1>4. PreparedNow'
  BY <1>1, <1>2, <1>3 DEF PreparedNow
<1>5. OneRoundLands'
  BY <1>1, <1>2 DEF OneRoundLands
<1>. QED
  BY <1>2, <1>4, <1>5 DEF RoundsInvariant

\* What is submitted is a round of the scenario at work.
LEMMA SubmitKeeps ==
  ASSUME RoundsInvariant, Rounding!Submit
  PROVE  RoundsInvariant'
<1>1. /\ pc = "send" /\ pc' = "wait" /\ landed' = "no"
      /\ flying' = flying \cup {Rounding!Awaited}
      /\ UNCHANGED <<lane, scenario, candidate, cached, prepared, start, strayed, reported>>
  BY DEF Rounding!Submit, Rounding!Chain, Rounding!vars, Rounding!laneVars
<1>2. /\ Candidates' = Candidates /\ \A l : ReportedOn(l)' = ReportedOn(l)
      /\ \A k : Landed(k)' <=> Landed(k)
      /\ NoneLanded' <=> NoneLanded
      /\ \A k : Rounding!RoundOf(scenario, Candidates[k])' = Rounding!RoundOf(scenario, Candidates[k])
  BY <1>1 DEF Candidates, ReportedOn, Landed, NoneLanded, Between, Ceiling, Owes,
              Rounding!RoundOf
<1>3. /\ candidate \in DOMAIN Candidates
      /\ prepared = [k \in DOMAIN Candidates |-> Rounding!RoundOf(scenario, Candidates[k])]
  BY <1>1 DEF RoundsInvariant, PreparedNow, AtWork
<1>4. prepared[candidate] = Rounding!RoundOf(scenario, Candidates[candidate])
  BY <1>3
<1>5. \A l \in DOMAIN prepared[candidate].targets : prepared[candidate].targets[l] \in Nat
  BY <1>3, <1>4, RoundOfCandidate DEF RoundsInvariant
<1>11. /\ {"round", "stray"} \subseteq DOMAIN Rounding!Awaited
       /\ Rounding!Awaited.round = prepared[candidate] /\ Rounding!Awaited.stray = FALSE
  BY DEF Rounding!Awaited
<1>6. RoundsTypes'
  BY <1>1, <1>5, <1>11 DEF RoundsInvariant, RoundsTypes, AtWork, LaneShape
<1>7. PreparedNow'
  BY <1>1, <1>2, <1>3 DEF PreparedNow
<1>8. CacheIsLedger'
  BY <1>1, <1>2 DEF RoundsInvariant, CacheIsLedger
<1>9. FlightsAreKnown'
  <2>1. \A r : (Dead(r)' <=> Dead(r)) /\ (OfScenario(r)' <=> OfScenario(r))
    BY <1>1, <1>2 DEF Dead, OfScenario
  <2>2. OfScenario(prepared[candidate])
    BY <1>3, <1>4 DEF OfScenario
  <2>. QED
    BY <1>1, <1>11, <2>1, <2>2 DEF RoundsInvariant, FlightsAreKnown
<1>10. OneRoundLands'
  <2>1. NoneLanded \/ \E k \in DOMAIN Candidates : Landed(k)
    BY DEF RoundsInvariant, OneRoundLands
  <2>2. NoneLanded' \/ (\E k \in DOMAIN Candidates : Landed(k))'
    BY <1>2, <2>1
  <2>. QED
    BY <1>1, <2>2 DEF OneRoundLands
<1>. QED
  BY <1>6, <1>7, <1>8, <1>9, <1>10 DEF RoundsInvariant

\* A round that expires pays nothing any more.
LEMMA ExpireKeeps ==
  ASSUME RoundsInvariant, Rounding!Expire
  PROVE  RoundsInvariant'
<1>1. /\ flying' \subseteq flying
      /\ UNCHANGED <<lane, pc, scenario, candidate, cached, prepared, landed, start, strayed, reported>>
  BY DEF Rounding!Expire, Rounding!Chain, Rounding!vars, Rounding!laneVars
<1>2. /\ RoundsTypes' /\ CacheIsLedger' /\ FlightsAreKnown'
      /\ \/ NoneLanded'
         \/ (pc \notin {"start", "done"} /\ (\E k \in DOMAIN Candidates : Landed(k)))'
      /\ \A k : Landed(k)' <=> Landed(k)
      /\ Candidates' = Candidates
      /\ \A k : Rounding!RoundOf(scenario, Candidates[k])' = Rounding!RoundOf(scenario, Candidates[k])
  BY <1>1, QuietStep DEF RoundsInvariant, RoundsTypes
<1>3. PreparedNow'
  BY <1>1, <1>2 DEF RoundsInvariant, PreparedNow
<1>4. Landed(candidate)' <=> Landed(candidate)
  BY <1>1, <1>2 DEF Landed, Between, Ceiling, ReportedOn, Candidates, Owes
<1>5. OneRoundLands'
  BY <1>1, <1>2, <1>4 DEF RoundsInvariant, OneRoundLands
<1>. QED
  BY <1>2, <1>3, <1>5 DEF RoundsInvariant

\* A run that starts again starts from what is settled; all that flies is a stray.
LEMMA RerunKeeps ==
  ASSUME RoundsInvariant, Rounding!Rerun
  PROVE  RoundsInvariant'
<1>1. /\ flying' = {[f EXCEPT !.stray = TRUE] : f \in flying}
      /\ pc' = "start" /\ scenario' = 1 /\ reported' = {} /\ lane' = lane
      /\ cached' = Rounding!Settled /\ start' = Rounding!Settled
      /\ strayed' = Rounding!Nothing
  BY DEF Rounding!Rerun, Rounding!Chain, Rounding!vars, Rounding!laneVars
<1>2. /\ Rounding!Settled \in [RoundLanes -> Nat]
      /\ \A l \in RoundLanes : Rounding!Settled[l] = lane[l].settled_cumulative
      /\ strayed' \in [RoundLanes -> Nat] /\ \A l \in RoundLanes : strayed'[l] = 0
  BY <1>1 DEF Rounding!Settled, Rounding!Nothing, RoundsInvariant, RoundsTypes, LaneShape
<1>7. ASSUME NEW f \in flying'
      PROVE  /\ {"round", "stray"} \subseteq DOMAIN f /\ f.stray = TRUE
             /\ \A l \in DOMAIN f.round.targets : f.round.targets[l] \in Nat
  <2>1. PICK g \in flying : f = [g EXCEPT !.stray = TRUE]
    BY <1>1, <1>7
  <2>. QED
    BY <2>1 DEF RoundsInvariant, RoundsTypes
<1>3. RoundsTypes'
  <2>1. 1 \in DOMAIN TwoScenarios
    BY ScenarioShape
  <2>. QED
    BY <1>1, <1>2, <1>7, <2>1 DEF RoundsInvariant, RoundsTypes, LaneShape
<1>4. PreparedNow' /\ FlightsAreKnown'
  BY <1>1, <1>7 DEF PreparedNow, FlightsAreKnown, AtWork
<1>5. /\ \A l : ReportedOn(l)' = {}
      /\ \A l \in RoundLanes : Rounding!OwedIn(l, {}) = 0
  BY <1>1, OwedInFacts DEF ReportedOn
<1>9. ASSUME NEW l \in RoundLanes
      PROVE  /\ Rounding!OwedIn(l, ReportedOn(l)') = 0 /\ strayed'[l] = 0
             /\ cached'[l] = lane'[l].settled_cumulative /\ start'[l] = cached'[l]
             /\ cached'[l] \in Nat
  <2>1. Rounding!OwedIn(l, ReportedOn(l)') = 0
    BY <1>5
  <2>. QED
    BY <1>1, <1>2, <2>1
<1>6. CacheIsLedger'
  BY <1>1, <1>5, <1>9 DEF CacheIsLedger
<1>8. OneRoundLands'
  BY <1>1, <1>9 DEF OneRoundLands, NoneLanded, Between, Ceiling
<1>. QED
  BY <1>3, <1>4, <1>6, <1>8 DEF RoundsInvariant

\* The report of a round that ran: the cache takes up what it paid, and the
\* other rounds of the scenario are dead from now on.
LEMMA RefreshKeeps ==
  ASSUME RoundsInvariant, Rounding!Refresh
  PROVE  RoundsInvariant'
<1>. DEFINE edges == Candidates[candidate]
<1>1. /\ prepared = [k \in DOMAIN Candidates |-> Rounding!RoundOf(scenario, Candidates[k])]
      /\ candidate \in DOMAIN Candidates
      /\ pc = "refresh" /\ Landed(candidate)
  BY DEF Rounding!Refresh, RoundsInvariant, PreparedNow, OneRoundLands, AtWork
<1>2. DOMAIN prepared[candidate].targets = edges /\ edges \subseteq RoundLanes
  BY <1>1, RoundOfCandidate DEF RoundsInvariant
<1>3. /\ cached' = Rounding!Refreshed(edges)
      /\ reported' = reported \cup {[scenario |-> scenario, edges |-> edges]}
      /\ IF scenario = Len(TwoScenarios)
         THEN pc' = "done" /\ scenario' = scenario
         ELSE pc' = "start" /\ scenario' = scenario + 1
      /\ UNCHANGED <<lane, flying, start, strayed>>
  BY <1>2 DEF Rounding!Refresh, Rounding!Chain, Rounding!vars, Rounding!laneVars
<1>4. /\ RoundsTypes
      /\ \A l \in RoundLanes : /\ cached[l] \in Nat /\ start[l] \in Nat
                               /\ strayed[l] \in Nat
                               /\ Owes(l) \in Nat \ {0} /\ lane[l].settled_cumulative \in Nat
  BY ScenarioShape DEF RoundsInvariant, RoundsTypes, LaneShape, Owes
<1>5. \A l \in RoundLanes :
        cached'[l] = IF l \in edges THEN lane[l].settled_cumulative ELSE cached[l]
  BY <1>2, <1>3 DEF Rounding!Refreshed
<1>13. \A l \in RoundLanes :
         /\ cached[l] + (IF l \in edges THEN Owes(l) ELSE 0) <= lane[l].settled_cumulative
         /\ lane[l].settled_cumulative <=
              start[l] + Rounding!OwedIn(l, ReportedOn(l)) + strayed[l]
                + (IF l \in edges THEN Owes(l) ELSE 0)
  BY <1>1 DEF Landed, Between, Ceiling
<1>6. cached' \in [RoundLanes -> Nat]
  BY <1>3, <1>4 DEF Rounding!Refreshed
<1>7. /\ scenario \in 1 .. Len(TwoScenarios) /\ scenario' \in 1 .. Len(TwoScenarios)
      /\ 1 .. (IF pc' = "done" THEN scenario' ELSE scenario' - 1) = 1 .. scenario
      /\ pc' \in {"start", "done"}
  BY <1>3, ScenarioShape DEF RoundsInvariant, RoundsTypes
<1>8. RoundsTypes'
  BY <1>3, <1>6, <1>7, ScenarioShape DEF RoundsInvariant, RoundsTypes, LaneShape
<1>9. PreparedNow'
  BY <1>7 DEF PreparedNow, AtWork
<1>10. ASSUME NEW l \in RoundLanes
       PROVE  /\ ReportedOn(l)' \subseteq 1 .. scenario
              /\ Rounding!OwedIn(l, ReportedOn(l)) \in Nat
              /\ Rounding!OwedIn(l, ReportedOn(l)') =
                   Rounding!OwedIn(l, ReportedOn(l)) + (IF l \in edges THEN Owes(l) ELSE 0)
  <2>1. ReportedOn(l) \subseteq 1 .. (scenario - 1)
    BY <1>1 DEF RoundsInvariant, CacheIsLedger
  <2>2. ReportedOn(l)' = ReportedOn(l) \cup IF l \in edges THEN {scenario} ELSE {}
    <3>. DEFINE entry == [scenario |-> scenario, edges |-> edges]
    <3>1. entry.scenario = scenario /\ entry.edges = edges
      OBVIOUS
    <3>2. \A s : s \in ReportedOn(l) <=> \E x \in reported : l \in x.edges /\ s = x.scenario
      BY DEF ReportedOn
    <3>3. \A s : s \in ReportedOn(l)' <=> \E x \in reported' : l \in x.edges /\ s = x.scenario
      BY DEF ReportedOn
    <3>4. reported' = reported \cup {entry}
      BY <1>3
    <3>. HIDE DEF entry, edges
    <3>. QED
      BY <3>1, <3>2, <3>3, <3>4
  <2>3. /\ ReportedOn(l) \in SUBSET DOMAIN TwoScenarios
        /\ scenario \in DOMAIN TwoScenarios \ ReportedOn(l)
    BY <1>7, <2>1, ScenarioShape
  <2>4. /\ Rounding!OwedIn(l, ReportedOn(l) \cup {scenario})
             = Rounding!OwedIn(l, ReportedOn(l)) + Owes(l)
        /\ Rounding!OwedIn(l, ReportedOn(l)) \in Nat
    BY <2>3, OwedInFacts DEF Owes
  <2>5. CASE l \in edges
    <3>1. ReportedOn(l)' = ReportedOn(l) \cup {scenario}
      BY <2>2, <2>5
    <3>. QED
      BY <1>7, <2>1, <2>4, <2>5, <3>1
  <2>6. CASE l \notin edges
    <3>1. ReportedOn(l)' = ReportedOn(l)
      BY <2>2, <2>6
    <3>. QED
      BY <1>7, <2>1, <2>4, <2>6, <3>1
  <2>. QED
    BY <2>5, <2>6
<1>14. CacheIsLedger'
  <2>. SUFFICES ASSUME NEW l \in RoundLanes
                PROVE  /\ ReportedOn(l)' \subseteq 1 .. scenario
                       /\ cached'[l] >= start'[l] + Rounding!OwedIn(l, ReportedOn(l)')
    BY <1>7 DEF CacheIsLedger
  <2>1. cached[l] >= start[l] + Rounding!OwedIn(l, ReportedOn(l))
    BY DEF RoundsInvariant, CacheIsLedger
  <2>. QED
    BY <1>3, <1>4, <1>5, <1>10, <1>13, <2>1
<1>11. FlightsAreKnown'
  <2>. SUFFICES ASSUME NEW f \in flying, f.stray # TRUE, NEW r, r = f.round
                PROVE  Dead(r)'
    BY <1>3 DEF FlightsAreKnown
  <2>3. Dead(r) \/ OfScenario(r)
    BY DEF RoundsInvariant, FlightsAreKnown
  <2>1. CASE Dead(r)
    BY <1>3, <2>1 DEF Dead
  <2>2. CASE OfScenario(r)
    <3>1. PICK k \in DOMAIN Candidates : r = Rounding!RoundOf(scenario, Candidates[k])
      BY <2>2 DEF OfScenario
    <3>2. PICK l \in Candidates[k] : l \in edges
      BY <1>1, <3>1, ScenarioShape DEF RoundsInvariant, RoundsTypes, Candidates
    <3>3. /\ l \in RoundLanes \cap DOMAIN r.targets
          /\ r.targets[l] = cached[l] + Owes(l)
      BY <1>4, <3>1, <3>2, RoundOfCandidate
    <3>4. cached[l] + Owes(l) <= lane[l].settled_cumulative
      BY <1>13, <3>2, <3>3
    <3>. QED
      BY <1>3, <1>4, <3>3, <3>4 DEF Dead
  <2>. QED
    BY <2>1, <2>2, <2>3
<1>12. OneRoundLands'
  <2>. SUFFICES ASSUME NEW l \in RoundLanes
                PROVE  /\ cached'[l] <= lane'[l].settled_cumulative
                       /\ lane'[l].settled_cumulative <=
                            start'[l] + Rounding!OwedIn(l, ReportedOn(l)') + strayed'[l]
    <3>1. pc' \in {"start", "done"} /\ cached' \in [RoundLanes -> Nat]
      BY <1>6, <1>7
    <3>2. \A l \in RoundLanes : cached'[l] \in Nat /\ lane'[l].settled_cumulative \in Nat
      BY <1>3, <1>4, <3>1
    <3>3. \A l \in RoundLanes :
            start'[l] + Rounding!OwedIn(l, ReportedOn(l)') + strayed'[l] \in Nat
      BY <1>3, <1>4, <1>10
    <3>. QED
      BY <3>1, <3>2, <3>3 DEF OneRoundLands, NoneLanded, Between, Ceiling
  <2>. QED
    BY <1>3, <1>4, <1>5, <1>10, <1>13
<1>. QED
  BY <1>8, <1>9, <1>14, <1>11, <1>12 DEF RoundsInvariant

\* A stray that lands moves a lane and its ceiling alike.
LEMMA StrayKeeps ==
  ASSUME RoundsInvariant, NEW f \in flying, f.stray = TRUE,
         Rounding!SettleClearingRound(f.round), Rounding!Counted(f),
         flying' = flying \ {f},
         UNCHANGED <<pc, scenario, candidate, cached, prepared, landed, start, reported>>
  PROVE  RoundsInvariant'
<1>1. /\ \A l \in RoundLanes : LaneShape(lane[l])
      /\ \A g \in flying : \A l \in DOMAIN g.round.targets : g.round.targets[l] \in Nat
  BY DEF RoundsInvariant, RoundsTypes
<1>2. \A l \in RoundLanes :
        /\ LaneShape(lane[l])'
        /\ lane'[l].settled_cumulative >= lane[l].settled_cumulative
  BY <1>1, RoundLands
<1>3. /\ Candidates' = Candidates /\ (\A l : Owes(l)' = Owes(l))
      /\ \A l : ReportedOn(l)' = ReportedOn(l)
      /\ \A k : Rounding!RoundOf(scenario, Candidates[k])' = Rounding!RoundOf(scenario, Candidates[k])
  BY DEF Candidates, ReportedOn, Owes, Rounding!RoundOf
<1>4. PreparedNow' /\ CacheIsLedger'
  BY <1>3 DEF RoundsInvariant, PreparedNow, CacheIsLedger
<1>5. \A l \in RoundLanes :
        /\ cached[l] \in Nat /\ Owes(l) \in Nat \ {0} /\ start[l] \in Nat
        /\ strayed[l] \in Nat /\ Rounding!OwedIn(l, ReportedOn(l)) \in Nat
        /\ lane[l].settled_cumulative \in Nat /\ lane'[l].settled_cumulative \in Nat
        /\ strayed'[l] = strayed[l] + (lane'[l].settled_cumulative - lane[l].settled_cumulative)
  <2>1. \A l \in RoundLanes : ReportedOn(l) \in SUBSET DOMAIN TwoScenarios
    BY ScenarioShape DEF RoundsInvariant, RoundsTypes, CacheIsLedger
  <2>2. \A l \in RoundLanes : Rounding!OwedIn(l, ReportedOn(l)) \in Nat
    BY <2>1, OwedInFacts
  <2>3. \A l \in RoundLanes :
          strayed'[l] = strayed[l] + (lane'[l].settled_cumulative - lane[l].settled_cumulative)
    BY DEF Rounding!Counted
  <2>. QED
    BY <1>1, <1>2, <2>2, <2>3, ScenarioShape DEF RoundsInvariant, RoundsTypes, LaneShape, Owes
<1>6. ASSUME NEW l \in RoundLanes, NEW extra \in Nat, Between(l, extra)
      PROVE  Between(l, extra)'
  BY <1>2, <1>3, <1>5, <1>6 DEF Between, Ceiling
<1>7. NoneLanded => NoneLanded'
  BY <1>6 DEF NoneLanded
<1>8. ASSUME NEW k, Landed(k) PROVE Landed(k)'
  <2>. SUFFICES ASSUME NEW l \in RoundLanes
                PROVE  Between(l, IF l \in Candidates[k] THEN Owes(l) ELSE 0)'
    BY DEF Landed
  <2>1. Between(l, IF l \in Candidates[k] THEN Owes(l) ELSE 0)
    BY <1>8 DEF Landed
  <2>2. CASE l \in Candidates[k]
    BY <1>3, <1>5, <1>6, <2>1, <2>2 DEF Between, Ceiling
  <2>3. CASE l \notin Candidates[k]
    BY <1>3, <1>5, <1>6, <2>1, <2>3 DEF Between, Ceiling
  <2>. QED
    BY <2>2, <2>3
<1>9. OneRoundLands'
  <2>1. (pc = "refresh" \/ (pc = "wait" /\ landed = "ran"))' => Landed(candidate)'
    <3>1. Landed(candidate)' <=> \A j : j = candidate => Landed(j)'
      BY DEF Landed, Between, Ceiling
    <3>. QED
      BY <1>8, <3>1 DEF RoundsInvariant, OneRoundLands
  <2>2. NoneLanded' \/ (pc \notin {"start", "done"} /\ (\E k \in DOMAIN Candidates : Landed(k)))'
    <3>1. CASE NoneLanded
      BY <1>7, <3>1
    <3>2. CASE ~NoneLanded
      <4>1. pc \notin {"start", "done"} /\ \E k \in DOMAIN Candidates : Landed(k)
        BY <3>2 DEF RoundsInvariant, OneRoundLands
      <4>2. PICK k \in DOMAIN Candidates : Landed(k)
        BY <4>1
      <4>. QED
        BY <1>3, <1>8, <4>1, <4>2
    <3>. QED
      BY <3>1, <3>2
  <2>. QED
    BY <2>1, <2>2 DEF OneRoundLands
<1>10. FlightsAreKnown'
  <2>. SUFFICES ASSUME NEW g \in flying, g.stray # TRUE, NEW r, r = g.round
                PROVE  Dead(r)' \/ (pc \notin {"start", "done"} /\ OfScenario(r))'
    BY DEF FlightsAreKnown
  <2>1. Dead(r) \/ (pc \notin {"start", "done"} /\ OfScenario(r))
    BY DEF RoundsInvariant, FlightsAreKnown
  <2>2. OfScenario(r)' <=> OfScenario(r)
    BY <1>3 DEF OfScenario
  <2>3. Dead(r) => Dead(r)'
    BY <1>1, <1>2, DeadStays
  <2>. QED
    BY <2>1, <2>2, <2>3
<1>11. RoundsTypes'
  <2>1. strayed' \in [RoundLanes -> Nat]
    <3>1. strayed' = [l \in RoundLanes |-> strayed[l] + (lane'[l].settled_cumulative
                                                      - lane[l].settled_cumulative)]
      BY DEF Rounding!Counted
    <3>2. \A l \in RoundLanes :
            strayed[l] + (lane'[l].settled_cumulative - lane[l].settled_cumulative) \in Nat
      BY <1>2, <1>5
    <3>. QED
      BY <3>1, <3>2
  <2>. QED
    BY <1>2, <2>1 DEF RoundsInvariant, RoundsTypes
<1>. QED
  BY <1>4, <1>9, <1>10, <1>11 DEF RoundsInvariant

\* A round of the run that lands is of the scenario at work and the first of it;
\* one that fails on chain changes nothing.
LEMMA LandKeeps ==
  ASSUME RoundsInvariant, Rounding!Land
  PROVE  RoundsInvariant'
<1>1. PICK f \in flying :
        /\ flying' = flying \ {f}
        /\ \/ /\ Rounding!SettleClearingRound(f.round) /\ Rounding!Counted(f)
              /\ Rounding!Outcome(f, "ran")
           \/ Rounding!Chain /\ UNCHANGED strayed /\ Rounding!Outcome(f, "failed")
        /\ UNCHANGED <<pc, scenario, candidate, cached, prepared, start, reported>>
  BY DEF Rounding!Land
<1>2. /\ Candidates' = Candidates /\ (\A l : Owes(l)' = Owes(l))
      /\ \A l : ReportedOn(l)' = ReportedOn(l)
      /\ \A k : Rounding!RoundOf(scenario, Candidates[k])' = Rounding!RoundOf(scenario, Candidates[k])
  BY <1>1 DEF Candidates, ReportedOn, Owes, Rounding!RoundOf
<1>3. PreparedNow' /\ CacheIsLedger'
  BY <1>1, <1>2 DEF RoundsInvariant, PreparedNow, CacheIsLedger
<1>4. CASE Rounding!Chain /\ UNCHANGED strayed /\ Rounding!Outcome(f, "failed")
  <2>1. lane' = lane /\ strayed' = strayed
    BY <1>4 DEF Rounding!Chain, Rounding!vars, Rounding!laneVars
  <2>2. /\ RoundsTypes' /\ FlightsAreKnown'
        /\ \/ NoneLanded'
           \/ (pc \notin {"start", "done"} /\ (\E k \in DOMAIN Candidates : Landed(k)))'
    BY <1>1, <2>1, QuietStep DEF RoundsInvariant, RoundsTypes
  <2>3. landed' \in {landed, "failed"}
    BY <1>4 DEF Rounding!Outcome
  <2>4. Landed(candidate)' <=> Landed(candidate)
    BY <1>1, <1>2, <2>1 DEF Landed, Between, Ceiling
  <2>5. OneRoundLands'
    BY <1>1, <2>2, <2>3, <2>4 DEF RoundsInvariant, OneRoundLands
  <2>. QED
    BY <1>3, <2>2, <2>5 DEF RoundsInvariant
<1>6. Rounding!Awaited.round = prepared[candidate] /\ Rounding!Awaited.stray = FALSE
  BY DEF Rounding!Awaited
<1>7. CASE /\ f.stray = TRUE /\ Rounding!SettleClearingRound(f.round) /\ Rounding!Counted(f)
           /\ Rounding!Outcome(f, "ran")
  <2>1. landed' = landed
    BY <1>6, <1>7 DEF Rounding!Outcome
  <2>. QED
    BY <1>1, <1>7, <2>1, StrayKeeps
<1>5. CASE /\ f.stray # TRUE /\ Rounding!SettleClearingRound(f.round) /\ Rounding!Counted(f)
           /\ Rounding!Outcome(f, "ran")
  <2>. DEFINE r == f.round
  <2>15. strayed' = strayed
    BY <1>5 DEF Rounding!Counted, RoundsInvariant, RoundsTypes
  <2>1. /\ \A l \in RoundLanes : LaneShape(lane[l])
        /\ \A g \in flying : \A l \in DOMAIN g.round.targets : g.round.targets[l] \in Nat
    BY DEF RoundsInvariant, RoundsTypes
  <2>2. /\ ~Dead(r)
        /\ \A l \in RoundLanes :
              /\ LaneShape(lane[l])'
              /\ lane'[l].settled_cumulative =
                   IF l \in DOMAIN r.targets THEN r.targets[l] ELSE lane[l].settled_cumulative
              /\ lane'[l].settled_cumulative >= lane[l].settled_cumulative
    BY <1>5, <2>1, RoundLands
  <2>3. pc \notin {"start", "done"} /\ OfScenario(r)
    BY <1>5, <2>2 DEF RoundsInvariant, FlightsAreKnown
  <2>4. PICK k \in DOMAIN Candidates : r = Rounding!RoundOf(scenario, Candidates[k])
    BY <2>3 DEF OfScenario
  <2>5. /\ DOMAIN r.targets = Candidates[k] /\ Candidates[k] \subseteq RoundLanes
        /\ \A l \in Candidates[k] : r.targets[l] = cached[l] + Owes(l)
    BY <2>4, RoundOfCandidate DEF RoundsInvariant
  <2>6. \A l \in RoundLanes : /\ cached[l] \in Nat /\ Owes(l) \in Nat \ {0}
                              /\ lane[l].settled_cumulative \in Nat
                              /\ start[l] \in Nat /\ strayed[l] \in Nat
                              /\ Rounding!OwedIn(l, ReportedOn(l)) \in Nat
    <3>1. \A l \in RoundLanes : ReportedOn(l) \in SUBSET DOMAIN TwoScenarios
      BY ScenarioShape DEF RoundsInvariant, RoundsTypes, CacheIsLedger
    <3>2. \A l \in RoundLanes : Rounding!OwedIn(l, ReportedOn(l)) \in Nat
      BY <3>1, OwedInFacts
    <3>. QED
      BY <3>2, ScenarioShape DEF RoundsInvariant, RoundsTypes, LaneShape, Owes
  <2>7. ASSUME NEW j \in DOMAIN Candidates, Landed(j) PROVE FALSE
    <3>1. PICK l \in Candidates[k] : l \in Candidates[j]
      BY ScenarioShape DEF RoundsInvariant, RoundsTypes, Candidates
    <3>2. lane[l].settled_cumulative >= r.targets[l]
      BY <2>5, <2>7, <3>1 DEF Landed, Between
    <3>. QED
      BY <2>2, <2>5, <2>6, <3>1, <3>2 DEF Dead
  <2>8. NoneLanded
    BY <2>7 DEF RoundsInvariant, OneRoundLands
  <2>9. RoundsTypes'
    BY <1>1, <2>1, <2>2, <2>15 DEF RoundsInvariant, RoundsTypes
  <2>10. FlightsAreKnown'
    <3>. SUFFICES ASSUME NEW g \in flying, g.stray # TRUE, NEW x, x = g.round, ~OfScenario(x)
                  PROVE  Dead(x)'
      BY <1>1, <1>2, <2>3 DEF FlightsAreKnown, OfScenario
    <3>1. Dead(x)
      BY DEF RoundsInvariant, FlightsAreKnown
    <3>. QED
      BY <2>1, <2>2, <3>1, DeadStays
  <2>11. ASSUME NEW j \in DOMAIN Candidates, Candidates[j] = Candidates[k]
         PROVE  Landed(j)'
    <3>. SUFFICES ASSUME NEW l \in RoundLanes
                  PROVE  Between(l, IF l \in Candidates[j] THEN Owes(l) ELSE 0)'
      BY DEF Landed
    <3>1. /\ cached[l] <= lane[l].settled_cumulative
          /\ lane[l].settled_cumulative <= Ceiling(l)
      BY <2>6, <2>8 DEF NoneLanded, Between, Ceiling
    <3>2. CASE l \in Candidates[k]
      <4>1. lane'[l].settled_cumulative = cached[l] + Owes(l)
        BY <2>2, <2>5, <3>2
      <4>. QED
        BY <1>1, <1>2, <2>6, <2>11, <2>15, <3>1, <3>2, <4>1 DEF Between, Ceiling
    <3>3. CASE l \notin Candidates[k]
      <4>1. lane'[l].settled_cumulative = lane[l].settled_cumulative
        BY <2>2, <2>5, <3>3
      <4>. QED
        BY <1>1, <1>2, <2>6, <2>11, <2>15, <3>1, <3>3, <4>1 DEF Between, Ceiling
    <3>. QED
      BY <3>2, <3>3
  <2>12. pc # "refresh" /\ ~(pc = "wait" /\ landed = "ran")
    <3>1. pc = "refresh" \/ pc = "wait" => candidate \in DOMAIN Candidates
      BY DEF RoundsInvariant, PreparedNow, AtWork
    <3>. QED
      BY <2>7, <3>1 DEF RoundsInvariant, OneRoundLands
  <2>13. ASSUME pc = "wait", landed' = "ran"
         PROVE  Landed(candidate)'
    <3>1. r = prepared[candidate]
      BY <1>5, <1>6, <2>12, <2>13 DEF Rounding!Outcome
    <3>2. /\ candidate \in DOMAIN Candidates
          /\ prepared[candidate] = Rounding!RoundOf(scenario, Candidates[candidate])
      BY <2>13 DEF RoundsInvariant, PreparedNow, AtWork
    <3>3. Candidates[candidate] = Candidates[k]
      BY <2>5, <3>1, <3>2, RoundOfCandidate DEF RoundsInvariant
    <3>4. Landed(candidate)' <=> \A j : j = candidate => Landed(j)'
      BY <1>1 DEF Landed, Between, Ceiling
    <3>. QED
      BY <2>11, <3>2, <3>3, <3>4
  <2>14. OneRoundLands'
    BY <1>1, <1>2, <2>3, <2>11, <2>12, <2>13 DEF OneRoundLands
  <2>. QED
    BY <1>3, <2>9, <2>10, <2>14 DEF RoundsInvariant
<1>. QED
  BY <1>1, <1>4, <1>5, <1>7

\* One step of the live rounds.
LEMMA RoundsStep ==
  ASSUME RoundsInvariant, Rounding!LiveNext
  PROVE  RoundsInvariant'
<1>1. CASE Rounding!Prepare
  BY <1>1, PrepareKeeps
<1>2. CASE Rounding!FinalSimulation
  <2>1. CASE pc' = "send" /\ UNCHANGED <<vars, candidate, prepared>>
    BY <1>2, <2>1, ProcessKeeps DEF Rounding!FinalSimulation, vars, laneVars
  <2>2. CASE Rounding!NextCandidate
    BY <1>2, <2>2, NextCandidateKeeps DEF Rounding!FinalSimulation
  <2>. QED
    BY <1>2, <2>1, <2>2 DEF Rounding!FinalSimulation, Rounding!vars, vars,
       Rounding!balanceVars, balanceVars, Rounding!laneVars, laneVars,
       Rounding!memberVars, memberVars
<1>3. CASE Rounding!Submit
  BY <1>3, SubmitKeeps
<1>4. CASE Rounding!Answered
  <2>1. CASE landed = "ran"
    BY <1>4, <2>1, ProcessKeeps DEF Rounding!Answered, Rounding!vars, Rounding!laneVars
  <2>2. CASE landed # "ran"
    BY <1>4, <2>2, NextCandidateKeeps DEF Rounding!Answered
  <2>. QED
    BY <2>1, <2>2
<1>5. CASE Rounding!Refresh
  BY <1>5, RefreshKeeps
<1>6. CASE Rounding!Rerun
  BY <1>6, RerunKeeps
<1>7. CASE Rounding!Land
  BY <1>7, LandKeeps
<1>8. CASE Rounding!GiveUp
  BY <1>8, NextCandidateKeeps DEF Rounding!GiveUp
<1>9. CASE Rounding!Abort
  BY <1>9, ProcessKeeps DEF Rounding!Abort, Rounding!Chain, Rounding!vars, Rounding!laneVars
<1>10. CASE Rounding!Expire
  BY <1>10, ExpireKeeps
<1>. QED
  BY <1>1, <1>2, <1>3, <1>4, <1>5, <1>6, <1>7, <1>8, <1>9, <1>10
     DEF Rounding!LiveNext, Rounding!Process

\* What leaves the rounds' variables and the lanes alone.
LEMMA RoundsStutter ==
  ASSUME RoundsInvariant, UNCHANGED <<lane, roundsOnly>>
  PROVE  RoundsInvariant'
<1>1. UNCHANGED <<lane, pc, scenario, candidate, cached, prepared, flying, landed, start, strayed, reported>>
  BY DEF roundsOnly
<1>2. /\ RoundsTypes' /\ CacheIsLedger' /\ FlightsAreKnown'
      /\ \/ NoneLanded'
         \/ (pc \notin {"start", "done"} /\ (\E k \in DOMAIN Candidates : Landed(k)))'
      /\ Candidates' = Candidates
      /\ \A k : Rounding!RoundOf(scenario, Candidates[k])' = Rounding!RoundOf(scenario, Candidates[k])
  BY <1>1, QuietStep DEF RoundsInvariant, RoundsTypes
<1>3. PreparedNow'
  BY <1>1, <1>2 DEF RoundsInvariant, PreparedNow
<1>4. Landed(candidate)' <=> Landed(candidate)
  BY <1>1 DEF Landed, Between, Ceiling, ReportedOn, Candidates, Owes
<1>5. OneRoundLands'
  BY <1>1, <1>2, <1>4 DEF RoundsInvariant, OneRoundLands
<1>. QED
  BY <1>2, <1>3, <1>5 DEF RoundsInvariant

\* The rounds start with lanes that have paid nothing.
LEMMA RoundsInit ==
  ASSUME demo = "rounds", WalletsReady, Rounding!LiveInit
  PROVE  RoundsInvariant
<1>1. /\ lane = [l \in RoundLanes |-> InitializeLane(l.payer)]
      /\ pc = "start" /\ scenario = 1 /\ flying = {} /\ reported = {}
      /\ cached = Rounding!Settled /\ start = Rounding!Settled
      /\ strayed = Rounding!Nothing
  BY DEF WalletsReady, Rounding!LiveInit
<1>2. \A l \in RoundLanes : LaneShape(lane[l])
  BY <1>1 DEF LaneShape, InitializeLane, UninitializedLane
<1>3. /\ Rounding!Settled \in [RoundLanes -> Nat]
      /\ \A l \in RoundLanes : Rounding!Settled[l] = lane[l].settled_cumulative
      /\ strayed \in [RoundLanes -> Nat] /\ \A l \in RoundLanes : strayed[l] = 0
  BY <1>1, <1>2 DEF Rounding!Settled, Rounding!Nothing, LaneShape
<1>4. RoundsTypes /\ PreparedNow /\ FlightsAreKnown
  BY <1>1, <1>2, <1>3, ScenarioShape DEF RoundsTypes, PreparedNow, FlightsAreKnown, AtWork
<1>5. \A l \in RoundLanes :
        /\ ReportedOn(l) = {} /\ Rounding!OwedIn(l, ReportedOn(l)) = 0
        /\ cached[l] = lane[l].settled_cumulative /\ start[l] = cached[l] /\ cached[l] \in Nat
  <2>1. \A l : ReportedOn(l) = {}
    BY <1>1 DEF ReportedOn
  <2>2. \A l \in RoundLanes : Rounding!OwedIn(l, {}) = 0
    BY OwedInFacts
  <2>. QED
    BY <1>1, <1>3, <2>1, <2>2
<1>6. CacheIsLedger /\ OneRoundLands
  BY <1>1, <1>3, <1>5 DEF CacheIsLedger, OneRoundLands, NoneLanded, Between, Ceiling
<1>. QED
  BY <1>4, <1>6 DEF RoundsInvariant

\* A lane has paid what is reported of it and at most the obligation of the
\* scenario at work besides, but for what strays paid.
LEMMA RoundsAreSafe ==
  ASSUME RoundsInvariant
  PROVE  Rounding!EachObligationPaidOnce /\ Rounding!RunsPayWhatTheyReport
<1>1. /\ scenario \in DOMAIN TwoScenarios /\ scenario \in 1 .. Len(TwoScenarios)
      /\ 1 .. scenario \in SUBSET DOMAIN TwoScenarios
      /\ 1 .. (scenario - 1) \in SUBSET DOMAIN TwoScenarios
      /\ scenario \notin 1 .. (scenario - 1)
      /\ (1 .. (scenario - 1)) \cup {scenario} = 1 .. scenario
  BY ScenarioShape DEF RoundsInvariant, RoundsTypes
<1>2. ASSUME NEW l \in RoundLanes
      PROVE  /\ start[l] \in Nat /\ cached[l] \in Nat /\ Owes(l) \in Nat \ {0}
             /\ strayed[l] \in Nat /\ lane[l].settled_cumulative \in Nat
  BY ScenarioShape DEF RoundsInvariant, RoundsTypes, LaneShape, Owes
<1>3. ASSUME NEW l \in RoundLanes
      PROVE  Rounding!Paid(l) <= Rounding!OwedIn(l, 1 .. scenario) + strayed[l]
  <2>. DEFINE all == Rounding!OwedIn(l, 1 .. scenario)
              earlier == Rounding!OwedIn(l, 1 .. (scenario - 1))
              told == Rounding!OwedIn(l, ReportedOn(l))
  <2>1. all = earlier + Owes(l) /\ all \in Nat /\ earlier \in Nat
    BY <1>1, OwedInFacts DEF Owes
  <2>2. Rounding!Paid(l) = lane[l].settled_cumulative - start[l]
    BY DEF Rounding!Paid
  <2>3. CASE pc = "done"
    <3>1. lane[l].settled_cumulative <= Ceiling(l) + 0
      BY <2>3 DEF RoundsInvariant, OneRoundLands, NoneLanded, Between
    <3>2. ReportedOn(l) \in SUBSET (1 .. scenario)
      BY <2>3 DEF RoundsInvariant, CacheIsLedger
    <3>3. told <= all /\ told \in Nat
      BY <1>1, <3>2, OwedInFacts
    <3>5. Ceiling(l) = start[l] + told + strayed[l]
      BY DEF Ceiling
    <3>. HIDE DEF all, told
    <3>4. lane[l].settled_cumulative - start[l] <= all + strayed[l]
      BY <1>2, <2>1, <3>1, <3>3, <3>5
    <3>. QED
      BY <2>2, <3>4 DEF all
  <2>4. CASE pc # "done"
    <3>1. ReportedOn(l) \in SUBSET (1 .. (scenario - 1))
      BY <2>4 DEF RoundsInvariant, CacheIsLedger
    <3>2. told <= earlier /\ told \in Nat
      BY <1>1, <3>1, OwedInFacts
    <3>3. lane[l].settled_cumulative <= start[l] + told + strayed[l] + Owes(l)
      <4>1. PICK extra \in {0, Owes(l)} : Between(l, extra)
        BY DEF RoundsInvariant, OneRoundLands, NoneLanded, Landed
      <4>. HIDE DEF told
      <4>2. lane[l].settled_cumulative <= start[l] + told + strayed[l] + extra
        BY <4>1 DEF Between, Ceiling, told
      <4>. QED
        <5>1. extra \in Nat /\ extra <= Owes(l)
          BY <1>2, <4>1
        <5>. QED
          BY <1>2, <3>2, <4>2, <5>1
    <3>. HIDE DEF all, earlier, told
    <3>4. lane[l].settled_cumulative - start[l] <= all + strayed[l]
      BY <1>2, <2>1, <3>2, <3>3
    <3>. QED
      BY <2>2, <3>4 DEF all
  <2>. QED
    BY <2>3, <2>4
<1>4. ASSUME pc = "done", NEW l \in RoundLanes
      PROVE  Rounding!Paid(l) \in Rounding!OwedIn(l, ReportedOn(l))
                                   .. Rounding!OwedIn(l, ReportedOn(l)) + strayed[l]
  <2>. DEFINE told == Rounding!OwedIn(l, ReportedOn(l))
  <2>1. /\ cached[l] <= lane[l].settled_cumulative
        /\ lane[l].settled_cumulative <= start[l] + told + strayed[l]
        /\ cached[l] >= start[l] + told
        /\ ReportedOn(l) \in SUBSET (1 .. scenario)
    <3>1. Between(l, 0)
      BY <1>4 DEF RoundsInvariant, OneRoundLands, NoneLanded
    <3>2. cached[l] >= start[l] + told /\ ReportedOn(l) \in SUBSET (1 .. scenario)
      BY <1>4 DEF RoundsInvariant, CacheIsLedger
    <3>3. told \in Nat
      BY <1>1, <3>2, OwedInFacts
    <3>. HIDE DEF told
    <3>4. lane[l].settled_cumulative <= start[l] + told + strayed[l] + 0
      BY <3>1 DEF Between, Ceiling, told
    <3>5. cached[l] + 0 <= lane[l].settled_cumulative
      BY <3>1 DEF Between
    <3>. QED
      BY <1>2, <3>2, <3>3, <3>4, <3>5
  <2>2. told \in Nat
    BY <1>1, <2>1, OwedInFacts
  <2>3. Rounding!Paid(l) = lane[l].settled_cumulative - start[l]
    BY DEF Rounding!Paid
  <2>. HIDE DEF told
  <2>4. lane[l].settled_cumulative - start[l] \in told .. told + strayed[l]
    BY <1>2, <2>1, <2>2
  <2>. QED
    BY <2>3, <2>4 DEF told
<1>. QED
  BY <1>3, <1>4
     DEF Rounding!EachObligationPaidOnce, Rounding!RunsPayWhatTheyReport, ReportedOn
-----------------------------------------------------------------------------
(***************************************************************************)
(* The plan of a demo run: every lane is paid in one kind of step only, by *)
(* a step that comes after all steps that read it.                         *)
(***************************************************************************)
Settling == {"single", "bundle", "round"}
Reading == {"open", "read"}
PaidAt(i, l) == i \in DOMAIN Plan /\ Plan[i].op \in Settling /\ l \in Range(Plan[i].subject)
ReadAt(i, l) == i \in DOMAIN Plan /\ Plan[i].op \in Reading /\ l \in Range(Plan[i].subject)

Ops == {"precheck", "fund", "deposit", "minimum", "open", "lock", "read", "check"} \cup Settling
Steps == [op : Ops, subject : Seq(Range(Wallets) \cup Lanes \cup Participants)]

\* The parts that the plan is put together from.
Opening == <<Do("open", <<Single>>), Do("single", <<Single>>), Do("open", Buyers)>>
Routing ==
  <<Do("minimum", <<Route[1].payer>>),
    Do("open", <<Route[1]>>), Do("lock", <<Route[1]>>), Do("open", <<Route[2]>>),
    Do("read", Route), Do("round", Route), Do("check", Route)>>

\* The single lane, the buyers' and the route's are apart, and there are no others.
LEMMA LaneNames ==
  /\ Single \in Lanes /\ Route[1] \in Lanes /\ Route[2] \in Lanes
  /\ Route[1] # Route[2] /\ Range(Route) = {Route[1], Route[2]}
  /\ Single \notin Range(Buyers) /\ Single \notin Range(Route)
  /\ Range(Buyers) \cap Range(Route) = {}
  /\ Lanes = {Single} \cup Range(Buyers) \cup Range(Route)
  /\ Buyers \in Seq(Lanes) /\ Route \in Seq(Lanes) /\ Wallets \in Seq(Range(Wallets))
  /\ Len(Route) = 2
<1>. DEFINE all == <<Single>> \o Buyers \o Route
            b == Len(Buyers)
<1>1. /\ Buyers \in Seq(Lanes) /\ Route \in Seq(Lanes) /\ Len(Route) = 2
      /\ IsInjective(all) /\ Lanes = Range(all) /\ Wallets \in Seq(Range(Wallets))
  BY DemoAssumption
<1>2. <<Single>> \in Seq(Lanes \cup {Single}) /\ Buyers \in Seq(Lanes \cup {Single})
      /\ Route \in Seq(Lanes \cup {Single}) /\ Len(<<Single>>) = 1 /\ <<Single>>[1] = Single
  BY <1>1
<1>3. /\ <<Single>> \o Buyers \in Seq(Lanes \cup {Single})
      /\ Len(<<Single>> \o Buyers) = 1 + b /\ b \in Nat
      /\ \A i \in 1 .. 1 + b :
           (<<Single>> \o Buyers)[i] = IF i <= 1 THEN Single ELSE Buyers[i - 1]
  BY <1>2, ConcatProperties
<1>4. /\ all \in Seq(Lanes \cup {Single})
      /\ Len(all) = b + 3
      /\ \A i \in 1 .. b + 3 :
           all[i] = IF i <= 1 + b THEN (<<Single>> \o Buyers)[i] ELSE Route[i - (1 + b)]
  <2>. DEFINE first == <<Single>> \o Buyers
  <2>1. first \in Seq(Lanes \cup {Single}) /\ Len(first) = 1 + b /\ b \in Nat
    BY <1>3
  <2>. HIDE DEF first, b
  <2>2. /\ first \o Route \in Seq(Lanes \cup {Single})
        /\ Len(first \o Route) = Len(first) + Len(Route)
        /\ \A i \in 1 .. Len(first) + Len(Route) :
             (first \o Route)[i] = IF i <= Len(first) THEN first[i] ELSE Route[i - Len(first)]
    BY <1>2, <2>1, ConcatProperties
  <2>3. all = first \o Route
    BY DEF first
  <2>4. Len(first) + Len(Route) = b + 3
    BY <1>1, <2>1
  <2>. QED
    BY <2>1, <2>2, <2>3, <2>4 DEF first
<1>5. /\ DOMAIN all = 1 .. b + 3 /\ DOMAIN Buyers = 1 .. b /\ DOMAIN Route = 1 .. 2
  BY <1>1, <1>4
<1>6. /\ all[1] = Single /\ all[b + 2] = Route[1] /\ all[b + 3] = Route[2]
      /\ \A i \in 1 .. b : all[i + 1] = Buyers[i]
  BY <1>3, <1>4
<1>7. \A i, j \in 1 .. b + 3 : all[i] = all[j] => i = j
  BY <1>1, <1>5 DEF IsInjective
<1>8. Range(Route) = {Route[1], Route[2]} /\ \A l \in Range(Buyers) : \E i \in 1 .. b : l = Buyers[i]
  BY <1>5 DEF Range
<1>. HIDE DEF all, b
<1>9. Route[1] # Route[2] /\ Single \notin Range(Route)
  BY <1>3, <1>6, <1>7, <1>8
<1>10. Single \notin Range(Buyers) /\ Range(Buyers) \cap Range(Route) = {}
  BY <1>3, <1>6, <1>7, <1>8
<1>11. \A i \in 1 .. b + 3 : i = 1 \/ i = b + 2 \/ i = b + 3 \/ \E j \in 1 .. b : i = j + 1
  <2>. SUFFICES ASSUME NEW i \in 1 .. b + 3, i # 1, i # b + 2, i # b + 3
                PROVE  \E j \in 1 .. b : i = j + 1
    OBVIOUS
  <2>1. i - 1 \in 1 .. b /\ i = (i - 1) + 1
    BY <1>3
  <2>. QED
    BY <2>1
<1>12. Lanes = {Single} \cup Range(Buyers) \cup Range(Route)
  <2>1. \A l \in Lanes : \E i \in 1 .. b + 3 : l = all[i]
    BY <1>1, <1>5 DEF Range
  <2>2. \A i \in 1 .. b : Buyers[i] \in Range(Buyers)
    BY <1>5 DEF Range, b
  <2>3. Lanes \subseteq {Single} \cup Range(Buyers) \cup Range(Route)
    BY <1>6, <1>8, <1>11, <2>1, <2>2
  <2>4. \A i \in 1 .. b + 3 : all[i] \in Lanes
    BY <1>1, <1>5 DEF Range
  <2>5. Single \in Lanes /\ Route[1] \in Lanes /\ Route[2] \in Lanes
    BY <1>3, <1>6, <2>4
  <2>6. Range(Buyers) \subseteq Lanes
    BY <1>1 DEF Range
  <2>. QED
    BY <1>8, <2>3, <2>5, <2>6
<1>. QED
  BY <1>1, <1>8, <1>9, <1>10, <1>12
\* How many bundles the second scenario takes.
BundleCount == (Len(Buyers) + PerBundle - 1) \div PerBundle

\* The bundles are pieces of the list of buyers' lanes, and together all of it.
LEMMA BundlesCoverBuyers ==
  /\ BundleCount \in Nat /\ Bundles \in Seq(Steps) /\ Len(Bundles) = BundleCount
  /\ \A i \in 1 .. BundleCount :
       /\ Bundles[i].op = "bundle"
       /\ Range(Bundles[i].subject) \subseteq Range(Buyers)
  /\ \A l \in Range(Buyers) : \E i \in 1 .. BundleCount : l \in Range(Bundles[i].subject)
<1>. DEFINE b == Len(Buyers)
            p == PerBundle
            last(i) == IF i * p < b THEN i * p ELSE b
<1>1. b \in Nat /\ p \in Nat \ {0} /\ Buyers \in Seq(Lanes) /\ DOMAIN Buyers = 1 .. b
  BY LaneNames, DemoAssumption
<1>2. BundleCount \in Nat /\ BundleCount * p <= b + p - 1 /\ b + p - 1 < (BundleCount + 1) * p
  BY <1>1 DEF BundleCount
<1>3. ASSUME NEW i \in 1 .. BundleCount
      PROVE  /\ (i - 1) * p + 1 \in 1 .. b + 1 /\ last(i) \in 0 .. b
             /\ (i - 1) * p + 1 <= last(i)
  <2>1. i * p \in Nat /\ (i - 1) * p = i * p - p /\ i * p <= BundleCount * p
    BY <1>1, <1>2
  <2>. QED
    BY <1>1, <1>2, <2>1
<1>4. ASSUME NEW i \in 1 .. BundleCount
      PROVE  /\ Bundles[i] = Do("bundle", SubSeq(Buyers, (i - 1) * p + 1, last(i)))
             /\ SubSeq(Buyers, (i - 1) * p + 1, last(i)) \in Seq(Lanes)
             /\ \A l : l \in Range(SubSeq(Buyers, (i - 1) * p + 1, last(i)))
                         <=> \E j \in (i - 1) * p + 1 .. last(i) : l = Buyers[j]
  <2>1. Bundles[i] = Do("bundle", SubSeq(Buyers, (i - 1) * p + 1, last(i)))
    BY DEF Bundles, BundleCount
  <2>. DEFINE lo == (i - 1) * p + 1
              hi == last(i)
              part == SubSeq(Buyers, lo, hi)
  <2>2. lo \in 1 .. b + 1 /\ hi \in 0 .. b /\ lo <= hi
    BY <1>3
  <2>. HIDE DEF lo, hi
  <2>3. /\ part \in Seq(Lanes) /\ Len(part) = hi - lo + 1
        /\ \A k \in 1 .. hi - lo + 1 : part[k] = Buyers[lo + k - 1]
    BY <1>1, <2>2, SubSeqProperties
  <2>4. DOMAIN part = 1 .. hi - lo + 1
    BY <2>3
  <2>5. ASSUME NEW l PROVE l \in Range(part) <=> \E j \in lo .. hi : l = Buyers[j]
    <3>1. ASSUME NEW k \in 1 .. hi - lo + 1
          PROVE  lo + k - 1 \in lo .. hi
      BY <1>1, <2>2
    <3>2. ASSUME NEW j \in lo .. hi
          PROVE  j - lo + 1 \in 1 .. hi - lo + 1 /\ lo + (j - lo + 1) - 1 = j
      BY <1>1, <2>2
    <3>3. l \in Range(part) <=> \E k \in 1 .. hi - lo + 1 : l = part[k]
      BY <2>4, Zenon DEF Range
    <3>. HIDE DEF part
    <3>4. ASSUME NEW k \in 1 .. hi - lo + 1, l = part[k]
          PROVE  \E j \in lo .. hi : l = Buyers[j]
      BY <2>3, <3>1, <3>4
    <3>5. ASSUME NEW j \in lo .. hi, l = Buyers[j]
          PROVE  \E k \in 1 .. hi - lo + 1 : l = part[k]
      <4>. DEFINE k == j - lo + 1
      <4>1. k \in 1 .. hi - lo + 1 /\ lo + k - 1 = j
        BY <3>2
      <4>. HIDE DEF k
      <4>. QED
        BY <2>3, <3>5, <4>1
    <3>. QED
      BY <3>3, <3>4, <3>5, Zenon
  <2>. QED
    BY <2>1, <2>3, <2>5, Zenon DEF lo, hi
<1>5. DOMAIN Bundles = 1 .. BundleCount /\ Bundles = [i \in 1 .. BundleCount |-> Bundles[i]]
  BY DEF Bundles, BundleCount
<1>. HIDE DEF b, p, last
<1>6. ASSUME NEW i \in 1 .. BundleCount
      PROVE  /\ Bundles[i] \in Steps /\ Bundles[i].op = "bundle"
             /\ Range(Bundles[i].subject) \subseteq Range(Buyers)
  <2>1. SubSeq(Buyers, (i - 1) * p + 1, last(i))
          \in Seq(Range(Wallets) \cup Lanes \cup Participants)
    BY <1>4, SeqMonotonic
  <2>. DEFINE lo == (i - 1) * p + 1
              hi == last(i)
              part == SubSeq(Buyers, lo, hi)
  <2>2. lo \in 1 .. b + 1 /\ hi \in 0 .. b
    BY <1>3
  <2>3. /\ Bundles[i] = Do("bundle", part)
        /\ part \in Seq(Range(Wallets) \cup Lanes \cup Participants)
        /\ \A l \in Range(part) : \E j \in lo .. hi : l = Buyers[j]
    BY <1>4, <2>1
  <2>. HIDE DEF lo, hi, part
  <2>4. \A j \in lo .. hi : Buyers[j] \in Range(Buyers)
    BY <1>1, <2>2 DEF Range
  <2>5. Range(part) \subseteq Range(Buyers)
    BY <2>3, <2>4
  <2>. QED
    BY <2>3, <2>5 DEF Do, Steps, Ops, Settling
<1>7. ASSUME NEW l \in Range(Buyers)
      PROVE  \E i \in 1 .. BundleCount : l \in Range(Bundles[i].subject)
  <2>1. PICK j \in 1 .. b : l = Buyers[j]
    BY <1>1 DEF Range
  <2>. DEFINE q == (j - 1) \div p
  <2>2. q \in Nat /\ q * p <= j - 1 /\ j - 1 < (q + 1) * p
    BY <1>1
  <2>. HIDE DEF q
  <2>3. q + 1 <= BundleCount
    <3>. SUFFICES ASSUME q >= BundleCount PROVE FALSE
      BY <1>2, <2>2
    <3>1. q * p >= BundleCount * p
      BY <1>1, <1>2, <2>2
    <3>2. (BundleCount + 1) * p = BundleCount * p + p
      BY <1>1, <1>2
    <3>. QED
      BY <1>1, <1>2, <2>2, <3>1, <3>2
  <2>4. PICK k \in 1 .. BundleCount : k = q + 1
    BY <1>2, <2>2, <2>3
  <2>5. j \in (k - 1) * p + 1 .. last(k)
    BY <1>1, <2>2, <2>4 DEF last
  <2>. DEFINE part == SubSeq(Buyers, (k - 1) * p + 1, last(k))
  <2>6. Bundles[k] = Do("bundle", part) /\ l \in Range(part)
    BY <1>4, <2>1, <2>5
  <2>. HIDE DEF part
  <2>. QED
    BY <2>6 DEF Do
<1>8. Bundles \in Seq(Steps) /\ Len(Bundles) = BundleCount
  <2>1. Bundles \in [1 .. BundleCount -> Steps]
    BY <1>5, <1>6
  <2>. QED
    BY <1>2, <1>5, <2>1
<1>. QED
  BY <1>2, <1>6, <1>7, <1>8
\* Where a sequence of steps ends and the one that is appended begins.
LEMMA AppendedSteps ==
  ASSUME NEW s \in Seq(Steps), NEW t \in Seq(Steps)
  PROVE  /\ s \o t \in Seq(Steps) /\ Len(s \o t) = Len(s) + Len(t)
         /\ \A i \in 1 .. Len(s) : (s \o t)[i] = s[i]
         /\ \A i \in 1 .. Len(t) : (s \o t)[Len(s) + i] = t[i]
<1>. DEFINE n == Len(s)
            m == Len(t)
<1>1. n \in Nat /\ m \in Nat
  OBVIOUS
<1>2. /\ s \o t \in Seq(Steps) /\ Len(s \o t) = n + m
      /\ \A i \in 1 .. n + m : (s \o t)[i] = IF i <= n THEN s[i] ELSE t[i - n]
  BY ConcatProperties
<1>. HIDE DEF n, m
<1>3. ASSUME NEW i \in 1 .. m PROVE n + i \in 1 .. n + m /\ ~(n + i <= n) /\ (n + i) - n = i
  BY <1>1
<1>4. ASSUME NEW i \in 1 .. n PROVE i \in 1 .. n + m /\ i <= n
  BY <1>1
<1>5. /\ \A i \in 1 .. n : (s \o t)[i] = s[i]
      /\ \A i \in 1 .. m : (s \o t)[n + i] = t[i]
  BY <1>2, <1>3, <1>4
<1>. QED
  BY <1>2, <1>5 DEF n, m

\* The parts of the plan, by position; n wallets and m bundles.
LEMMA PlanSteps ==
  LET n == Len(Wallets)
      m == BundleCount
  IN  /\ n \in Nat /\ m \in Nat
      /\ Plan \in Seq(Steps) /\ Len(Plan) = 2 * n + m + 11
      /\ Plan[1].op = "precheck"
      /\ \A i \in 2 .. 2 * n + 1 : Plan[i].op \in {"fund", "deposit"}
      /\ \A k \in 1 .. 3 : Plan[2 * n + 1 + k] = Opening[k]
      /\ \A k \in 1 .. m : Plan[2 * n + 4 + k] = Bundles[k]
      /\ \A k \in 1 .. 7 : Plan[2 * n + 4 + m + k] = Routing[k]
<1>. DEFINE n == Len(Wallets)
            m == BundleCount
            S == Range(Wallets) \cup Lanes \cup Participants
            precheck == <<Do("precheck", <<>>)>>
            fund == Each("fund", Wallets)
            deposit == Each("deposit", Wallets)
<1>1. n \in Nat /\ Wallets \in Seq(Range(Wallets)) /\ DOMAIN Wallets = 1 .. n
  BY LaneNames
<1>2. ASSUME NEW op \in Ops
      PROVE  /\ Each(op, Wallets) \in Seq(Steps) /\ Len(Each(op, Wallets)) = n
             /\ \A i \in 1 .. n : Each(op, Wallets)[i].op = op
  <2>1. ASSUME NEW i \in 1 .. n PROVE Do(op, <<Wallets[i]>>) \in Steps
    <3>1. <<Wallets[i]>> \in Seq(S)
      BY <1>1 DEF Range
    <3>. QED
      BY <3>1 DEF Steps, Do
  <2>2. Each(op, Wallets) = [i \in 1 .. n |-> Do(op, <<Wallets[i]>>)]
    BY <1>1 DEF Each
  <2>. QED
    BY <1>1, <2>1, <2>2 DEF Do
<1>3. precheck \in Seq(Steps) /\ Len(precheck) = 1 /\ precheck[1].op = "precheck"
  <2>1. <<>> \in Seq(S)
    OBVIOUS
  <2>2. Do("precheck", <<>>) \in Steps
    BY <2>1 DEF Steps, Do, Ops
  <2>. QED
    BY <2>2 DEF Do
<1>4. Opening \in Seq(Steps) /\ Len(Opening) = 3
  <2>1. <<Single>> \in Seq(S) /\ Buyers \in Seq(S)
    BY LaneNames, SeqMonotonic
  <2>2. Do("open", <<Single>>) \in Steps /\ Do("single", <<Single>>) \in Steps
        /\ Do("open", Buyers) \in Steps
    BY <2>1 DEF Steps, Do, Ops, Settling
  <2>. QED
    BY <2>2 DEF Opening
<1>5. Routing \in Seq(Steps) /\ Len(Routing) = 7
  <2>1. Route[1].payer \in Participants
    BY LaneNames, LanesAssumption
  <2>2. /\ <<Route[1].payer>> \in Seq(S) /\ <<Route[1]>> \in Seq(S) /\ <<Route[2]>> \in Seq(S)
        /\ Route \in Seq(S)
    BY <2>1, LaneNames, SeqMonotonic
  <2>3. /\ Do("minimum", <<Route[1].payer>>) \in Steps
        /\ Do("open", <<Route[1]>>) \in Steps /\ Do("lock", <<Route[1]>>) \in Steps
        /\ Do("open", <<Route[2]>>) \in Steps
        /\ Do("read", Route) \in Steps /\ Do("round", Route) \in Steps
        /\ Do("check", Route) \in Steps
    BY <2>2 DEF Steps, Do, Ops, Settling
  <2>. QED
    BY <2>3 DEF Routing
<1>6. Bundles \in Seq(Steps) /\ Len(Bundles) = m /\ m \in Nat
  BY BundlesCoverBuyers
<1>7. /\ fund \in Seq(Steps) /\ Len(fund) = n /\ \A i \in 1 .. n : fund[i].op = "fund"
      /\ deposit \in Seq(Steps) /\ Len(deposit) = n /\ \A i \in 1 .. n : deposit[i].op = "deposit"
  BY <1>2 DEF Ops
<1>8. Plan = precheck \o fund \o deposit \o Opening \o Bundles \o Routing
  BY DEF Plan, Opening, Routing
<1>. HIDE DEF n, m, precheck, fund, deposit
<1>. DEFINE first == precheck \o fund
            second == first \o deposit
            third == second \o Opening
            fourth == third \o Bundles
<1>9. /\ first \in Seq(Steps) /\ Len(first) = n + 1
      /\ first[1].op = "precheck" /\ \A i \in 1 .. n : first[1 + i].op = "fund"
  <2>1. /\ first \in Seq(Steps) /\ Len(first) = Len(precheck) + Len(fund)
        /\ \A i \in 1 .. Len(precheck) : first[i] = precheck[i]
        /\ \A i \in 1 .. Len(fund) : first[Len(precheck) + i] = fund[i]
    BY <1>3, <1>7, AppendedSteps
  <2>. HIDE DEF first
  <2>2. /\ Len(first) = n + 1 /\ first[1] = precheck[1]
        /\ \A i \in 1 .. n : first[1 + i] = fund[i]
    BY <1>1, <1>3, <1>7, <2>1
  <2>. QED
    BY <1>3, <1>7, <2>1, <2>2
<1>. HIDE DEF first
<1>10. /\ second \in Seq(Steps) /\ Len(second) = 2 * n + 1
       /\ second[1].op = "precheck" /\ \A i \in 2 .. 2 * n + 1 : second[i].op \in {"fund", "deposit"}
  <2>1. /\ second \in Seq(Steps) /\ Len(second) = (n + 1) + n
        /\ \A i \in 1 .. n + 1 : second[i] = first[i]
        /\ \A i \in 1 .. n : second[(n + 1) + i] = deposit[i]
    <3>1. /\ second \in Seq(Steps) /\ Len(second) = Len(first) + Len(deposit)
          /\ \A i \in 1 .. Len(first) : second[i] = first[i]
          /\ \A i \in 1 .. Len(deposit) : second[Len(first) + i] = deposit[i]
      BY <1>7, <1>9, AppendedSteps
    <3>. HIDE DEF second
    <3>. QED
      BY <1>7, <1>9, <3>1
  <2>. HIDE DEF second
  <2>2. ASSUME NEW i \in 2 .. 2 * n + 1 PROVE second[i].op \in {"fund", "deposit"}
    <3>1. CASE i <= n + 1
      <4>1. i - 1 \in 1 .. n /\ i = 1 + (i - 1) /\ i \in 1 .. n + 1
        BY <1>1, <3>1
      <4>. QED
        BY <1>9, <2>1, <4>1
    <3>2. CASE i > n + 1
      <4>1. i - (n + 1) \in 1 .. n /\ i = (n + 1) + (i - (n + 1))
        BY <1>1, <3>2
      <4>2. second[(n + 1) + (i - (n + 1))] = deposit[i - (n + 1)]
        BY <2>1, <4>1
      <4>3. second[i] = deposit[i - (n + 1)] /\ deposit[i - (n + 1)].op = "deposit"
        BY <1>7, <4>1, <4>2
      <4>. QED
        BY <4>3
    <3>3. i \in Int /\ n \in Int
      BY <1>1
    <3>. QED
      BY <3>1, <3>2, <3>3
  <2>. QED
    BY <1>1, <1>9, <2>1, <2>2
<1>. HIDE DEF second
<1>11. /\ third \in Seq(Steps) /\ Len(third) = (2 * n + 1) + 3
       /\ \A i \in 1 .. 2 * n + 1 : third[i] = second[i]
       /\ \A i \in 1 .. 3 : third[2 * n + 1 + i] = Opening[i]
  <2>1. /\ third \in Seq(Steps) /\ Len(third) = Len(second) + Len(Opening)
        /\ \A i \in 1 .. Len(second) : third[i] = second[i]
        /\ \A i \in 1 .. Len(Opening) : third[Len(second) + i] = Opening[i]
    BY <1>4, <1>10, AppendedSteps
  <2>. HIDE DEF third
  <2>. QED
    BY <1>4, <1>10, <2>1
<1>. HIDE DEF third
<1>12. /\ fourth \in Seq(Steps) /\ Len(fourth) = (2 * n + 4) + m
       /\ \A i \in 1 .. 2 * n + 4 : fourth[i] = third[i]
       /\ \A i \in 1 .. m : fourth[2 * n + 4 + i] = Bundles[i]
  <2>1. 2 * n + 4 \in Nat /\ Len(third) = 2 * n + 4
    BY <1>1, <1>11
  <2>2. /\ fourth \in Seq(Steps) /\ Len(fourth) = Len(third) + Len(Bundles)
        /\ \A i \in 1 .. Len(third) : fourth[i] = third[i]
        /\ \A i \in 1 .. Len(Bundles) : fourth[Len(third) + i] = Bundles[i]
    BY <1>6, <1>11, AppendedSteps
  <2>. HIDE DEF fourth
  <2>. QED
    BY <1>6, <2>1, <2>2
<1>. HIDE DEF fourth
<1>13. /\ Plan \in Seq(Steps) /\ Len(Plan) = (2 * n + 4 + m) + 7
       /\ \A i \in 1 .. 2 * n + 4 + m : Plan[i] = fourth[i]
       /\ \A i \in 1 .. 7 : Plan[2 * n + 4 + m + i] = Routing[i]
  <2>1. 2 * n + 4 + m \in Nat /\ Len(fourth) = 2 * n + 4 + m
    BY <1>1, <1>6, <1>12
  <2>2. Plan = fourth \o Routing
    BY <1>8 DEF fourth, third, second, first
  <2>3. /\ Plan \in Seq(Steps) /\ Len(Plan) = Len(fourth) + Len(Routing)
        /\ \A i \in 1 .. Len(fourth) : Plan[i] = fourth[i]
        /\ \A i \in 1 .. Len(Routing) : Plan[Len(fourth) + i] = Routing[i]
    BY <1>5, <1>12, <2>2, AppendedSteps
  <2>. QED
    BY <1>5, <2>1, <2>3
<1>14. \A i \in 1 .. 2 * n + 1 : Plan[i] = second[i]
  <2>1. \A i \in 1 .. 2 * n + 1 : i \in 1 .. 2 * n + 4 /\ i \in 1 .. 2 * n + 4 + m
    BY <1>1, <1>6
  <2>. QED
    BY <1>11, <1>12, <1>13, <2>1
<1>15. \A k \in 1 .. 3 : Plan[2 * n + 1 + k] = Opening[k]
  <2>1. \A k \in 1 .. 3 : 2 * n + 1 + k \in 1 .. 2 * n + 4 /\ 2 * n + 1 + k \in 1 .. 2 * n + 4 + m
    BY <1>1, <1>6
  <2>. QED
    BY <1>11, <1>12, <1>13, <2>1
<1>16. \A k \in 1 .. m : Plan[2 * n + 4 + k] = Bundles[k]
  <2>1. \A k \in 1 .. m : 2 * n + 4 + k \in 1 .. 2 * n + 4 + m
    BY <1>1, <1>6
  <2>. QED
    BY <1>12, <1>13, <2>1
<1>17. /\ Plan[1].op = "precheck"
       /\ \A i \in 2 .. 2 * n + 1 : Plan[i].op \in {"fund", "deposit"}
  BY <1>1, <1>10, <1>14
<1>18. Len(Plan) = 2 * n + m + 11
  BY <1>1, <1>6, <1>13
<1>. QED
  BY <1>1, <1>6, <1>13, <1>15, <1>16, <1>17, <1>18 DEF n, m
\* Where lanes are read and where they are paid.
LEMMA PlanKinds ==
  ASSUME NEW i \in DOMAIN Plan
  PROVE  LET n == Len(Wallets)
             m == BundleCount
         IN  /\ Plan[i] \in Steps
             /\ Plan[i].op \in Settling \cup Reading => Range(Plan[i].subject) \subseteq Lanes
             /\ Plan[i].op = "single" => i = 2 * n + 3 /\ Plan[i].subject = <<Single>>
             /\ Plan[i].op = "bundle" =>
                  i > 2 * n + 4 /\ i < 2 * n + m + 5 /\ Range(Plan[i].subject) \subseteq Range(Buyers)
             /\ Plan[i].op = "round" => i = 2 * n + m + 10 /\ Plan[i].subject = Route
             /\ Plan[i].op = "read" => Plan[i].subject = Route
             /\ Plan[i].op \in Reading =>
                  \/ i = 2 * n + 2 /\ Range(Plan[i].subject) = {Single}
                  \/ i = 2 * n + 4 /\ Range(Plan[i].subject) = Range(Buyers)
                  \/ i < 2 * n + m + 10 /\ Range(Plan[i].subject) \subseteq Range(Route)
<1>. DEFINE n == Len(Wallets)
            m == BundleCount
<1>1. /\ n \in Nat /\ m \in Nat
      /\ Plan \in Seq(Steps) /\ Len(Plan) = 2 * n + m + 11
      /\ Plan[1].op = "precheck"
      /\ \A k \in 2 .. 2 * n + 1 : Plan[k].op \in {"fund", "deposit"}
      /\ \A k \in 1 .. 3 : Plan[2 * n + 1 + k] = Opening[k]
      /\ \A k \in 1 .. m : Plan[2 * n + 4 + k] = Bundles[k]
      /\ \A k \in 1 .. 7 : Plan[2 * n + 4 + m + k] = Routing[k]
  BY PlanSteps
<1>0. n \in Nat /\ m \in Nat
  BY <1>1
<1>2. \A k \in 1 .. m : /\ Bundles[k].op = "bundle"
                        /\ Range(Bundles[k].subject) \subseteq Range(Buyers)
  BY BundlesCoverBuyers
<1>. HIDE DEF n, m
<1>3. /\ Range(Buyers) \subseteq Lanes /\ Range(Route) \subseteq Lanes /\ {Single} \subseteq Lanes
      /\ Range(<<Single>>) = {Single}
      /\ Range(<<Route[1]>>) \subseteq Range(Route) /\ Range(<<Route[2]>>) \subseteq Range(Route)
  BY LaneNames DEF Range
<1>4. i \in 1 .. 2 * n + m + 11 /\ Plan[i] \in Steps
  BY <1>1
<1>5. CASE i \in 1 .. 2 * n + 1
  <2>1. Plan[i].op \in {"precheck", "fund", "deposit"}
    BY <1>1, <1>5
  <2>. QED
    BY <1>4, <2>1 DEF Settling, Reading, n, m
<1>6. ASSUME NEW k \in 1 .. 3, i = 2 * n + 1 + k
      PROVE  \/ i = 2 * n + 2 /\ Plan[i] = Do("open", <<Single>>)
             \/ i = 2 * n + 3 /\ Plan[i] = Do("single", <<Single>>)
             \/ i = 2 * n + 4 /\ Plan[i] = Do("open", Buyers)
  <2>1. k = 1 \/ k = 2 \/ k = 3
    OBVIOUS
  <2>2. Opening[1] = Do("open", <<Single>>) /\ Opening[2] = Do("single", <<Single>>)
        /\ Opening[3] = Do("open", Buyers)
    BY DEF Opening
  <2>3. Plan[i] = Opening[k]
    BY <1>1, <1>6
  <2>4. (k = 1 => i = 2 * n + 2) /\ (k = 2 => i = 2 * n + 3) /\ (k = 3 => i = 2 * n + 4)
    BY <1>0, <1>6
  <2>. QED
    BY <2>1, <2>2, <2>3, <2>4
<1>7. CASE i \in 2 * n + 2 .. 2 * n + 4
  <2>1. i - (2 * n + 1) \in 1 .. 3 /\ i = 2 * n + 1 + (i - (2 * n + 1))
    BY <1>0, <1>7
  <2>2. \/ i = 2 * n + 2 /\ Plan[i] = Do("open", <<Single>>)
        \/ i = 2 * n + 3 /\ Plan[i] = Do("single", <<Single>>)
        \/ i = 2 * n + 4 /\ Plan[i] = Do("open", Buyers)
    BY <1>6, <2>1
  <2>. QED
    BY <1>3, <1>4, <2>2 DEF Do, Settling, Reading, n, m
<1>8. CASE i \in 2 * n + 5 .. 2 * n + 4 + m
  <2>1. i - (2 * n + 4) \in 1 .. m /\ i = 2 * n + 4 + (i - (2 * n + 4))
    BY <1>0, <1>8
  <2>2. Plan[i].op = "bundle" /\ Range(Plan[i].subject) \subseteq Range(Buyers)
    <3>1. Plan[i] = Bundles[i - (2 * n + 4)]
      BY <1>1, <2>1
    <3>. QED
      BY <1>2, <2>1, <3>1
  <2>3. i > 2 * n + 4 /\ i < 2 * n + m + 5
    BY <1>0, <1>8
  <2>. QED
    BY <1>3, <1>4, <2>2, <2>3 DEF Settling, Reading, n, m
<1>9. CASE i \in 2 * n + 5 + m .. 2 * n + m + 11
  <2>1. PICK k \in 1 .. 7 : i = 2 * n + 4 + m + k
    <3>1. i - (2 * n + 4 + m) \in 1 .. 7 /\ i = 2 * n + 4 + m + (i - (2 * n + 4 + m))
      BY <1>0, <1>9
    <3>. QED
      BY <3>1
  <2>2. Plan[i] = Routing[k]
    BY <1>1, <2>1
  <2>3. /\ i < 2 * n + m + 10 <=> k \in 1 .. 5
        /\ i = 2 * n + m + 10 <=> k = 6
    BY <1>0, <2>1
  <2>4. /\ k \in {1, 3, 7} => Plan[i].op \in {"minimum", "lock", "check"}
        /\ k \in {2, 4, 5} => Plan[i].op \in Reading /\ Range(Plan[i].subject) \subseteq Range(Route)
        /\ k = 6 => Plan[i].op = "round" /\ Plan[i].subject = Route
        /\ Plan[i].op = "read" => Plan[i].subject = Route
    <3>1. k = 1 \/ k = 2 \/ k = 3 \/ k = 4 \/ k = 5 \/ k = 6 \/ k = 7
      OBVIOUS
    <3>. QED
      BY <1>3, <2>2, <3>1 DEF Routing, Do, Reading
  <2>5. k \in {1, 3, 7} \/ k \in {2, 4, 5} \/ k = 6
    OBVIOUS
  <2>6. k \in {2, 4, 5} => k \in 1 .. 5
    OBVIOUS
  <2>. QED
    BY <1>3, <1>4, <2>3, <2>4, <2>5, <2>6 DEF Settling, Reading, n, m
<1>11. \/ i \in 1 .. 2 * n + 1 \/ i \in 2 * n + 2 .. 2 * n + 4
       \/ i \in 2 * n + 5 .. 2 * n + 4 + m \/ i \in 2 * n + 5 + m .. 2 * n + m + 11
  BY <1>0, <1>4
<1>. QED
  BY <1>5, <1>7, <1>8, <1>9, <1>11

\* The plan reads every lane before it pays it, in one place only.
LEMMA PlanOrder ==
  /\ Len(Plan) \in Nat /\ DOMAIN Plan = 1 .. Len(Plan)
  /\ \A i \in DOMAIN Plan :
       /\ Plan[i] \in Steps
       /\ Plan[i].op \in Settling \cup Reading => Range(Plan[i].subject) \subseteq Lanes
       /\ Plan[i].op = "single" => Plan[i].subject = <<Single>>
       /\ Plan[i].op \in {"read", "round"} => Plan[i].subject = Route
  /\ \A i, j, l : ReadAt(i, l) /\ PaidAt(j, l) => i < j
  /\ \A l \in Lanes : \E j : PaidAt(j, l)
<1>. DEFINE n == Len(Wallets)
            m == BundleCount
<1>1. /\ n \in Nat /\ m \in Nat
      /\ Plan \in Seq(Steps) /\ Len(Plan) = 2 * n + m + 11
      /\ \A k \in 1 .. 3 : Plan[2 * n + 1 + k] = Opening[k]
      /\ \A k \in 1 .. m : Plan[2 * n + 4 + k] = Bundles[k]
      /\ \A k \in 1 .. 7 : Plan[2 * n + 4 + m + k] = Routing[k]
  BY PlanSteps
<1>0. n \in Nat /\ m \in Nat
  BY <1>1
<1>2. Len(Plan) \in Nat /\ DOMAIN Plan = 1 .. Len(Plan)
  BY <1>1
<1>3. ASSUME NEW j, NEW l, PaidAt(j, l)
      PROVE  \/ j = 2 * n + 3 /\ l = Single
             \/ j > 2 * n + 4 /\ l \in Range(Buyers)
             \/ j = 2 * n + m + 10 /\ l \in Range(Route)
  <2>1. Range(<<Single>>) = {Single}
    BY DEF Range
  <2>. QED
    BY <1>3, <2>1, PlanKinds DEF PaidAt, Settling
<1>4. ASSUME NEW i, NEW l, ReadAt(i, l)
      PROVE  \/ i = 2 * n + 2 /\ l = Single
             \/ i = 2 * n + 4 /\ l \in Range(Buyers)
             \/ i < 2 * n + m + 10 /\ l \in Range(Route)
  BY <1>4, PlanKinds DEF ReadAt
<1>5. \A i, l : ReadAt(i, l) \/ PaidAt(i, l) => i \in 1 .. 2 * n + m + 11
  BY <1>1, <1>2 DEF ReadAt, PaidAt
<1>6. ASSUME NEW i, NEW j, NEW l, ReadAt(i, l), PaidAt(j, l) PROVE i < j
  <2>. HIDE DEF n, m
  <2>1. i \in 1 .. 2 * n + m + 11 /\ j \in 1 .. 2 * n + m + 11
    BY <1>5, <1>6
  <2>2. \/ j = 2 * n + 3 /\ l = Single
        \/ j > 2 * n + 4 /\ l \in Range(Buyers)
        \/ j = 2 * n + m + 10 /\ l \in Range(Route)
    BY <1>3, <1>6
  <2>3. \/ i = 2 * n + 2 /\ l = Single
        \/ i = 2 * n + 4 /\ l \in Range(Buyers)
        \/ i < 2 * n + m + 10 /\ l \in Range(Route)
    BY <1>4, <1>6
  <2>4. \/ j = 2 * n + 3 /\ i = 2 * n + 2
        \/ j > 2 * n + 4 /\ i = 2 * n + 4
        \/ j = 2 * n + m + 10 /\ i < 2 * n + m + 10
    BY <2>2, <2>3, LaneNames
  <2>. QED
    BY <1>0, <2>1, <2>4
<1>7. ASSUME NEW l \in Lanes PROVE \E j : PaidAt(j, l)
  <2>1. CASE l = Single
    <3>1. 2 * n + 3 \in DOMAIN Plan /\ Plan[2 * n + 3] = Do("single", <<Single>>)
      <4>1. 2 \in 1 .. 3 /\ 2 * n + 1 + 2 = 2 * n + 3
        BY <1>1
      <4>. QED
        BY <1>1, <1>2, <4>1 DEF Opening
    <3>2. PaidAt(2 * n + 3, l)
      BY <2>1, <3>1 DEF PaidAt, Do, Settling, Range
    <3>. QED
      BY <3>2
  <2>2. CASE l \in Range(Buyers)
    <3>1. PICK k \in 1 .. m : l \in Range(Bundles[k].subject)
      BY <2>2, BundlesCoverBuyers
    <3>2. Bundles[k].op = "bundle"
      BY BundlesCoverBuyers
    <3>3. 2 * n + 4 + k \in 1 .. 2 * n + m + 11
      BY <1>0
    <3>4. 2 * n + 4 + k \in DOMAIN Plan /\ Plan[2 * n + 4 + k] = Bundles[k]
      BY <1>1, <1>2, <3>3
    <3>5. PaidAt(2 * n + 4 + k, l)
      BY <3>1, <3>2, <3>4 DEF PaidAt, Settling
    <3>. QED
      BY <3>5
  <2>3. CASE l \in Range(Route)
    <3>0. 2 * n + 4 + m + 6 \in 1 .. 2 * n + m + 11
      BY <1>0
    <3>1. 2 * n + 4 + m + 6 \in DOMAIN Plan
      <4>1. DOMAIN Plan = 1 .. 2 * n + m + 11
        BY <1>1, <1>2
      <4>. QED
        BY <3>0, <4>1
    <3>2. Plan[2 * n + 4 + m + 6] = Routing[6]
      <4>1. \A k \in 1 .. 7 : Plan[2 * n + 4 + m + k] = Routing[k]
        BY <1>1
      <4>. QED
        BY <4>1
    <3>3. Routing[6] = Do("round", Route)
      BY DEF Routing
    <3>4. PaidAt(2 * n + 4 + m + 6, l)
      BY <2>3, <3>1, <3>2, <3>3 DEF PaidAt, Do, Settling
    <3>. QED
      BY <3>4
  <2>. QED
    BY <2>1, <2>2, <2>3, LaneNames
<1>. QED
  BY <1>2, <1>6, <1>7, PlanKinds
-----------------------------------------------------------------------------
(***************************************************************************)
(* The demo's payments.  Whatever is in flight asks for no more than what  *)
(* the run now at work will ask for, so it can only make that run's own    *)
(* payment fail or be refused itself.                                      *)
(***************************************************************************)
LaneOK(ln) == LaneShape(ln) /\ (ln.initialized \/ ln.settled_cumulative = 0)
Paying(tx) == tx.kind \in Settling

\* The settled amounts that a payment asks for are amounts of lanes.
TargetsOK(tx) ==
  Paying(tx) => DOMAIN tx.targets \subseteq Lanes /\ \A l \in DOMAIN tx.targets : tx.targets[l] \in Nat

\* A settlement moves the lanes of its targets, by whichever instruction.
LEMMA SettlementOnLanes ==
  ASSUME \A l \in Lanes : LaneOK(lane[l]),
         NEW t, NEW targets, NEW net, ApplySettlement(t, targets, net),
         \A l \in DOMAIN targets : Increases(l, targets[l]),
         DOMAIN targets \subseteq Lanes, \A l \in DOMAIN targets : targets[l] \in Nat
  PROVE  /\ Lanes \subseteq DOMAIN lane'
         /\ \A l \in Lanes :
              /\ LaneOK(lane'[l])
              /\ lane'[l].settled_cumulative >= lane[l].settled_cumulative
              /\ lane'[l].settled_cumulative
                   = IF l \in DOMAIN targets THEN targets[l] ELSE lane[l].settled_cumulative
<1>1. /\ Lanes \subseteq DOMAIN lane'
      /\ \A l \in Lanes :
           lane'[l] = IF l \in DOMAIN targets
                      THEN ApplyLaneSettlement(lane[l], targets[l], LockedConsumed(l, targets[l]))
                      ELSE lane[l]
  BY DEF ApplySettlement
<1>2. ASSUME NEW l \in Lanes, l \in DOMAIN targets
      PROVE  LET ln == ApplyLaneSettlement(lane[l], targets[l], LockedConsumed(l, targets[l]))
             IN  /\ LaneOK(ln) /\ ln.settled_cumulative = targets[l]
                 /\ targets[l] >= lane[l].settled_cumulative
  <2>1. lane[l].initialized /\ targets[l] > lane[l].settled_cumulative
    BY <1>2 DEF Increases
  <2>2. LaneShape(lane[l])
    BY DEF LaneOK
  <2>3. targets[l] \in Nat
    BY <1>2
  <2>. QED
    BY <2>1, <2>2, <2>3 DEF LaneOK, LaneShape, ApplyLaneSettlement, CapPendingUnlock
<1>. QED
  BY <1>1, <1>2 DEF LaneOK, LaneShape

\* What the lanes gain by a transaction that lands.
LEMMA TransactionOnLanes ==
  ASSUME Lanes \subseteq DOMAIN lane, \A l \in Lanes : LaneOK(lane[l]),
         NEW tx, TargetsOK(tx), Execute(tx)
  PROVE  /\ Lanes \subseteq DOMAIN lane'
         /\ \A l \in Lanes :
              /\ LaneOK(lane'[l])
              /\ lane'[l].settled_cumulative >= lane[l].settled_cumulative
              /\ \/ lane'[l].settled_cumulative = lane[l].settled_cumulative
                 \/ /\ Paying(tx) /\ l \in DOMAIN tx.targets
                    /\ lane'[l].settled_cumulative = tx.targets[l]
         /\ \/ ~Paying(tx)
            \/ tx.kind = "single" /\ ~\E k : DOMAIN tx.targets = {k}
            \/ \A l \in DOMAIN tx.targets : lane'[l].settled_cumulative = tx.targets[l]
<1>1. CASE tx.kind = "fund" /\ UNCHANGED vars
  BY <1>1 DEF vars, laneVars, Paying, Settling, LaneOK, LaneShape
<1>2. CASE tx.kind = "deposit" /\ Deposit(tx.wallet, Tok, tx.amount)
  BY <1>2 DEF Deposit, laneVars, Paying, Settling, LaneOK, LaneShape
<1>3. CASE tx.kind = "open" /\ CreateChannel(Only(tx.targets), TRUE, tx.wallet)
  <2>. DEFINE k == Only(tx.targets)
  <2>1. /\ lane' = [lane EXCEPT ![k] = InitializeLane(tx.wallet)]
        /\ ~lane[k].initialized
    BY <1>3 DEF CreateChannel
  <2>2. LaneOK(InitializeLane(tx.wallet)) /\ InitializeLane(tx.wallet).settled_cumulative = 0
    BY DEF LaneOK, LaneShape, InitializeLane, UninitializedLane
  <2>3. ~Paying(tx)
    BY <1>3 DEF Paying, Settling
  <2>. HIDE DEF k
  <2>. QED
    BY <2>1, <2>2, <2>3 DEF LaneOK, LaneShape
<1>4. CASE tx.kind = "lock" /\ LockChannelFunds(Only(tx.targets), tx.amount)
  <2>. DEFINE k == Only(tx.targets)
  <2>1. lane' = [lane EXCEPT ![k] = AddLocked(@, tx.amount)]
    BY <1>4 DEF LockChannelFunds
  <2>2. \A l \in Lanes : /\ LaneOK(AddLocked(lane[l], tx.amount))
                         /\ AddLocked(lane[l], tx.amount).settled_cumulative = lane[l].settled_cumulative
    BY DEF LaneOK, LaneShape, AddLocked
  <2>3. ~Paying(tx)
    BY <1>4 DEF Paying, Settling
  <2>. HIDE DEF k
  <2>. QED
    BY <2>1, <2>2, <2>3 DEF LaneOK, LaneShape
<1>5. CASE tx.kind = "single" /\ \E c \in Signed(tx.targets) : SettleIndividual(c, tx.wallet)
  <2>1. PICK c \in Signed(tx.targets) : SettleIndividual(c, tx.wallet)
    BY <1>5
  <2>2. PICK k \in DOMAIN tx.targets : c.lane = k /\ c.amount = tx.targets[k]
    BY <2>1 DEF Signed
  <2>3. Paying(tx) /\ k \in Lanes /\ tx.targets[k] \in Nat
    BY <1>5, <2>2 DEF Paying, Settling, TargetsOK
  <2>. DEFINE pays == [l \in {c.lane} |-> c.amount]
  <2>4. /\ ApplySettlement(c.lane.token, pays, IndividualNet(c))
        /\ Increases(k, tx.targets[k])
    BY <2>1, <2>2 DEF SettleIndividual, CommitmentAccepted
  <2>5. DOMAIN pays = {k} /\ pays[k] = tx.targets[k]
    BY <2>2
  <2>. HIDE DEF pays
  <2>6. /\ \A l \in DOMAIN pays : Increases(l, pays[l]) /\ pays[l] \in Nat
        /\ DOMAIN pays \subseteq Lanes
    BY <2>3, <2>4, <2>5
  <2>7. /\ Lanes \subseteq DOMAIN lane'
        /\ \A l \in Lanes :
              /\ LaneOK(lane'[l])
              /\ lane'[l].settled_cumulative >= lane[l].settled_cumulative
              /\ lane'[l].settled_cumulative
                   = IF l \in DOMAIN pays THEN pays[l] ELSE lane[l].settled_cumulative
    BY <2>4, <2>6, SettlementOnLanes
  <2>8. (\E x : DOMAIN tx.targets = {x}) => DOMAIN tx.targets = {k}
    BY <2>2
  <2>. QED
    BY <1>5, <2>2, <2>3, <2>5, <2>7, <2>8
<1>6. CASE /\ tx.kind = "bundle"
           /\ SettleCommitmentBundle(tx.wallet, Tok, Signed(tx.targets), tx.wallet)
  <2>. DEFINE bundle == Signed(tx.targets)
              lanes == {c.lane : c \in bundle}
              pays == [l \in lanes |-> (CHOOSE c \in bundle : c.lane = l).amount]
  <2>1. Paying(tx) /\ DOMAIN tx.targets \subseteq Lanes
        /\ \A l \in DOMAIN tx.targets : tx.targets[l] \in Nat
    BY <1>6 DEF Paying, Settling, TargetsOK
  <2>2. /\ \E net : ApplySettlement(Tok, pays, net)
        /\ \A c \in bundle : Increases(c.lane, c.amount)
    BY <1>6 DEF SettleCommitmentBundle, CommitmentAccepted
  <2>3. /\ \A c \in bundle : c.lane \in DOMAIN tx.targets /\ c.amount = tx.targets[c.lane]
        /\ \A l \in DOMAIN tx.targets : \E c \in bundle : c.lane = l
    <3>1. \A c \in bundle : c.lane \in DOMAIN tx.targets /\ c.amount = tx.targets[c.lane]
      BY DEF Signed
    <3>2. ASSUME NEW l \in DOMAIN tx.targets
          PROVE  \E c \in bundle : c.lane = l
      <4>. DEFINE c == [lane |-> l, amount |-> tx.targets[l], signer |-> l.payer, settler |-> NoKey]
      <4>1. c \in bundle
        BY DEF Signed
      <4>2. c.lane = l
        OBVIOUS
      <4>. QED
        BY <4>1, <4>2
    <3>. QED
      BY <3>1, <3>2
  <2>. HIDE DEF bundle
  <2>4. DOMAIN pays = DOMAIN tx.targets
    BY <2>3
  <2>5. \A l \in DOMAIN tx.targets : pays[l] = tx.targets[l]
    BY <2>3
  <2>6. \A l \in DOMAIN tx.targets : Increases(l, tx.targets[l])
    BY <2>2, <2>3
  <2>. HIDE DEF pays
  <2>7. /\ Lanes \subseteq DOMAIN lane'
        /\ \A l \in Lanes :
              /\ LaneOK(lane'[l])
              /\ lane'[l].settled_cumulative >= lane[l].settled_cumulative
              /\ lane'[l].settled_cumulative
                   = IF l \in DOMAIN pays THEN pays[l] ELSE lane[l].settled_cumulative
    BY <2>1, <2>2, <2>4, <2>5, <2>6, SettlementOnLanes
  <2>. QED
    BY <2>1, <2>4, <2>5, <2>7
<1>7. CASE tx.kind = "round" /\ SettleClearingRound([token |-> Tok, targets |-> tx.targets])
  <2>. DEFINE r == [token |-> Tok, targets |-> tx.targets]
  <2>1. Paying(tx) /\ DOMAIN tx.targets \subseteq Lanes
        /\ \A l \in DOMAIN tx.targets : tx.targets[l] \in Nat
    BY <1>7 DEF Paying, Settling, TargetsOK
  <2>2. r.targets = tx.targets
    OBVIOUS
  <2>. HIDE DEF r
  <2>3. /\ \E net : ApplySettlement(r.token, tx.targets, net)
        /\ \A l \in DOMAIN tx.targets : Increases(l, tx.targets[l])
    BY <1>7, <2>2 DEF SettleClearingRound, r
  <2>4. /\ Lanes \subseteq DOMAIN lane'
        /\ \A l \in Lanes :
              /\ LaneOK(lane'[l])
              /\ lane'[l].settled_cumulative >= lane[l].settled_cumulative
              /\ lane'[l].settled_cumulative
                   = IF l \in DOMAIN tx.targets THEN tx.targets[l] ELSE lane[l].settled_cumulative
    BY <2>1, <2>3, SettlementOnLanes
  <2>. QED
    BY <2>1, <2>4
<1>. QED
  BY <1>1, <1>2, <1>3, <1>4, <1>5, <1>6, <1>7 DEF Execute

-----------------------------------------------------------------------------
(***************************************************************************)
(* The invariant of the demo.  What a lane has paid lies between what the  *)
(* run last read of it and what the run will ask for; and before the run   *)
(* at work asks, neither the lane nor anything in flight has more than     *)
(* what the runs before it could pay.                                      *)
(***************************************************************************)
Prior == IF runs = 0 THEN 0 ELSE runs - 1
Earlier(l) == Prior * Due[l]
InFlight == sent \cup late
UnpaidYet(l) == at # 0 /\ \A j \in DOMAIN Plan : PaidAt(j, l) => at < j

DemoTypes ==
  /\ Lanes \subseteq DOMAIN lane /\ \A l \in Lanes : LaneOK(lane[l])
  /\ seen \in [Lanes -> Nat] /\ runs \in Nat /\ at \in 0 .. Len(Plan) + 1

AmountsAreBounded ==
  /\ \A l \in Lanes : seen[l] <= Read(l) /\ Read(l) <= Target(l) /\ seen[l] <= Earlier(l)
  /\ \A tx \in InFlight :
       /\ TargetsOK(tx)
       /\ Paying(tx) => \A l \in DOMAIN tx.targets : tx.targets[l] <= Target(l)

PaidInOrder ==
  \A l \in Lanes : \A j \in DOMAIN Plan : PaidAt(j, l) /\ j < at => Read(l) = Target(l)

NotPaidYet ==
  \A l \in Lanes :
    UnpaidYet(l) =>
      /\ Read(l) <= Earlier(l)
      /\ \A tx \in InFlight :
           Paying(tx) /\ l \in DOMAIN tx.targets => tx.targets[l] <= Earlier(l)

RunsAreCounted ==
  /\ at # 0 \/ InFlight # {} => runs # 0
  /\ runs = 0 => \A l \in Lanes : Read(l) = 0

\* What the process waits for is what its step has sent.
SentByStep ==
  /\ at = 0 => sent = {}
  /\ todo \subseteq IF Doing("open") THEN Range(Subject) ELSE {}
  /\ \A tx \in sent :
       /\ at \in DOMAIN Plan /\ Plan[at].op \notin {"precheck", "read", "check"}
       /\ tx.kind = "open" <=> Doing("open")
       /\ IF Doing("open") THEN todo \cap DOMAIN tx.targets # {} ELSE sent = {tx}
       /\ Paying(tx) \/ Plan[at].op \in Settling =>
            tx.kind = Plan[at].op /\ tx.targets = Targets(Subject)

DemoInvariant ==
  /\ DemoTypes /\ AmountsAreBounded /\ PaidInOrder /\ NotPaidYet
  /\ RunsAreCounted /\ SentByStep

\* What all steps need of a state with the invariant.
LEMMA DemoFacts ==
  ASSUME DemoInvariant
  PROVE  /\ runs \in Nat /\ at \in Nat /\ Prior \in Nat
         /\ \A l \in Lanes :
              /\ seen[l] \in Nat /\ Due[l] \in Nat \ {0} /\ Read(l) \in Nat
              /\ Target(l) \in Nat /\ Earlier(l) \in Nat
              /\ runs # 0 => Earlier(l) + Due[l] = runs * Due[l]
         /\ Len(Plan) \in Nat /\ DOMAIN Plan = 1 .. Len(Plan)
<1>1. /\ runs \in Nat /\ at \in Nat /\ Len(Plan) \in Nat /\ DOMAIN Plan = 1 .. Len(Plan)
      /\ seen \in [Lanes -> Nat] /\ \A l \in Lanes : LaneOK(lane[l])
  BY PlanOrder DEF DemoInvariant, DemoTypes
<1>2. Prior \in Nat /\ (runs # 0 => runs = Prior + 1)
  BY <1>1 DEF Prior
<1>3. ASSUME NEW l \in Lanes
      PROVE  /\ seen[l] \in Nat /\ Due[l] \in Nat \ {0} /\ Read(l) \in Nat
             /\ Target(l) \in Nat /\ Earlier(l) \in Nat
             /\ runs # 0 => Earlier(l) + Due[l] = runs * Due[l]
  <2>1. Due[l] \in Nat \ {0}
    BY DemoAssumption
  <2>2. seen[l] \in Nat /\ Read(l) \in Nat
    BY <1>1 DEF LaneOK, LaneShape, Read
  <2>. DEFINE d == Due[l]
  <2>3. d \in Nat
    BY <2>1
  <2>4. Earlier(l) = Prior * d
    BY DEF Earlier
  <2>5. Target(l) = seen[l] + d
    BY DEF Target
  <2>. HIDE DEF d
  <2>6. Prior * d \in Nat /\ (Prior + 1) * d = Prior * d + d
    BY <1>2, <2>3
  <2>7. Target(l) \in Nat
    BY <2>2, <2>3, <2>5
  <2>8. runs # 0 => Earlier(l) + d = runs * d
    BY <1>2, <2>4, <2>6
  <2>. QED
    BY <2>1, <2>2, <2>4, <2>6, <2>7, <2>8 DEF d
<1>. QED
  BY <1>1, <1>2, <1>3

\* A step that moves no lane and reads none, and sends nothing that pays.
LEMMA QuietDemoStep ==
  ASSUME DemoInvariant,
         UNCHANGED <<lane, seen, runs>>,
         \A tx \in InFlight' : tx \in InFlight \/ ~Paying(tx),
         InFlight' \subseteq InFlight \/ at # 0,
         \/ at' \in {0, at}
         \/ at' = at + 1 /\ at \in DOMAIN Plan /\ Plan[at].op \notin Settling
  PROVE  DemoTypes' /\ AmountsAreBounded' /\ PaidInOrder' /\ NotPaidYet' /\ RunsAreCounted'
<1>1. /\ runs \in Nat /\ at \in Nat /\ Len(Plan) \in Nat /\ DOMAIN Plan = 1 .. Len(Plan)
      /\ at' \in 0 .. Len(Plan) + 1
  BY DemoFacts DEF DemoInvariant, DemoTypes
<1>2. DemoTypes'
  BY <1>1 DEF DemoInvariant, DemoTypes
<1>3. \A l : Read(l)' = Read(l) /\ Target(l)' = Target(l) /\ Earlier(l)' = Earlier(l)
  BY DEF Read, Target, Earlier, Prior
<1>4. AmountsAreBounded'
  <2>1. \A tx \in InFlight' : ~Paying(tx) => TargetsOK(tx)
    BY DEF TargetsOK
  <2>. QED
    BY <1>3, <2>1 DEF DemoInvariant, AmountsAreBounded
<1>5. \A l \in Lanes : \A j \in DOMAIN Plan : PaidAt(j, l) /\ j < at' => j < at
  BY <1>1 DEF PaidAt
<1>6. PaidInOrder'
  BY <1>3, <1>5 DEF DemoInvariant, PaidInOrder, PaidAt
<1>7. \A l \in Lanes : UnpaidYet(l)' => UnpaidYet(l)
  BY <1>1 DEF UnpaidYet, PaidAt
<1>8. NotPaidYet'
  BY <1>3, <1>7 DEF DemoInvariant, NotPaidYet
<1>9. RunsAreCounted'
  BY <1>1, <1>3 DEF DemoInvariant, RunsAreCounted
<1>. QED
  BY <1>2, <1>4, <1>6, <1>8, <1>9

\* Entering a step: nothing is in the way of it.
LEMMA Entered ==
  ASSUME NEW i \in Nat, Enter(i), sent' = {}
  PROVE  SentByStep'
<1>. QED
  BY DEF Enter, SentByStep, Doing, Subject

\* An operator starts again: what earlier runs may have paid becomes the limit.
LEMMA StartKeeps ==
  ASSUME DemoInvariant, StartRun
  PROVE  DemoInvariant'
<1>1. /\ at = 0 /\ at' = 1 /\ runs' = runs + 1 /\ Enter(1)
      /\ UNCHANGED <<lane, seen, sent, late>>
  BY DEF StartRun, Enter, vars, laneVars
<1>2. /\ runs \in Nat /\ Len(Plan) \in Nat /\ DOMAIN Plan = 1 .. Len(Plan)
      /\ InFlight' = InFlight
  BY <1>1, DemoFacts DEF InFlight
<1>3. DemoTypes'
  BY <1>1, <1>2 DEF DemoInvariant, DemoTypes
<1>4. ASSUME NEW l \in Lanes
      PROVE  /\ Read(l)' = Read(l) /\ Target(l)' = Target(l)
             /\ Earlier(l)' = runs * Due[l]
             /\ Target(l) <= Earlier(l)' \/ runs = 0
             /\ Read(l) <= Earlier(l)' /\ seen[l] <= Earlier(l)'
  <2>1. /\ seen[l] \in Nat /\ Due[l] \in Nat /\ Read(l) \in Nat /\ Target(l) \in Nat
        /\ Earlier(l) \in Nat /\ (runs # 0 => Earlier(l) + Due[l] = runs * Due[l])
    BY DemoFacts
  <2>2. /\ seen[l] <= Read(l) /\ Read(l) <= Target(l) /\ seen[l] <= Earlier(l)
        /\ (runs = 0 => Read(l) = 0)
    BY DEF DemoInvariant, AmountsAreBounded, RunsAreCounted
  <2>3. Read(l)' = Read(l) /\ Target(l)' = Target(l)
    BY <1>1 DEF Read, Target
  <2>4. Prior' = runs
    BY <1>1, <1>2 DEF Prior
  <2>5. Earlier(l)' = runs * Due[l]
    BY <2>4 DEF Earlier
  <2>6. Target(l) = seen[l] + Due[l]
    BY DEF Target
  <2>. DEFINE b == runs * Due[l]
  <2>7. b \in Nat /\ (runs = 0 => b = 0) /\ (runs # 0 => Earlier(l) + Due[l] = b)
    BY <1>2, <2>1
  <2>. HIDE DEF b
  <2>8. (Target(l) <= b \/ runs = 0) /\ Read(l) <= b /\ seen[l] <= b
    BY <1>2, <2>1, <2>2, <2>6, <2>7
  <2>. QED
    BY <2>3, <2>5, <2>8 DEF b
<1>5. AmountsAreBounded'
  <2>1. \A tx \in InFlight :
          /\ TargetsOK(tx)
          /\ Paying(tx) => \A l \in DOMAIN tx.targets : tx.targets[l] <= Target(l)
    BY DEF DemoInvariant, AmountsAreBounded
  <2>2. \A tx \in InFlight : Paying(tx) => DOMAIN tx.targets \subseteq Lanes
    BY <2>1 DEF TargetsOK
  <2>3. \A l \in Lanes : seen[l] <= Read(l) /\ Read(l) <= Target(l)
    BY DEF DemoInvariant, AmountsAreBounded
  <2>. QED
    BY <1>1, <1>2, <1>4, <2>1, <2>2, <2>3 DEF AmountsAreBounded
<1>6. PaidInOrder'
  BY <1>1, <1>2 DEF PaidInOrder, PaidAt
<1>7. NotPaidYet'
  <2>1. \A tx \in InFlight :
          Paying(tx) => \A l \in DOMAIN tx.targets :
            l \in Lanes /\ tx.targets[l] \in Nat /\ tx.targets[l] <= Target(l) /\ runs # 0
    BY DEF DemoInvariant, AmountsAreBounded, TargetsOK, RunsAreCounted
  <2>2. ASSUME NEW l \in Lanes, NEW tx \in InFlight, Paying(tx), l \in DOMAIN tx.targets
        PROVE  tx.targets[l] <= Earlier(l)'
    <3>1. tx.targets[l] \in Nat /\ tx.targets[l] <= Target(l) /\ runs # 0
      BY <2>1, <2>2
    <3>2. Target(l) <= Earlier(l)' /\ Target(l) \in Nat /\ Earlier(l)' \in Nat
      <4>1. Target(l) \in Nat /\ Due[l] \in Nat
        BY DemoFacts
      <4>2. runs * Due[l] \in Nat
        BY <1>2, <4>1
      <4>. QED
        BY <1>4, <3>1, <4>1, <4>2
    <3>. QED
      BY <3>1, <3>2
  <2>. QED
    BY <1>2, <1>4, <2>2 DEF NotPaidYet
<1>8. RunsAreCounted'
  BY <1>1, <1>2 DEF RunsAreCounted
<1>9. SentByStep'
  BY <1>1, Entered DEF DemoInvariant, SentByStep
<1>. QED
  BY <1>3, <1>5, <1>6, <1>7, <1>8, <1>9 DEF DemoInvariant

\* A step that is over without a transaction of its own (Advance), and one of
\* another kind than a payment that sends its transaction.
LEMMA AdvanceKeeps ==
  ASSUME DemoInvariant, at \in DOMAIN Plan, Plan[at].op \notin Settling, sent = {}, Advance
  PROVE  DemoInvariant'
<1>1. /\ at' = at + 1 /\ Enter(at + 1) /\ sent' = {}
      /\ UNCHANGED <<lane, seen, runs, sent, late>>
  BY DEF Advance, Enter, Idle, vars, laneVars
<1>2. InFlight' = InFlight /\ at + 1 \in Nat
  BY <1>1, DemoFacts DEF InFlight
<1>3. SentByStep'
  BY <1>1, <1>2, Entered
<1>. QED
  BY <1>1, <1>2, <1>3, QuietDemoStep DEF DemoInvariant

\* A step that sends no settlement.
LEMMA QuietSendKeeps ==
  ASSUME DemoInvariant, at \in DOMAIN Plan,
         Plan[at].op \notin {"precheck", "read", "check"} \cup Settling,
         NEW tx, Quietly(tx), ~Paying(tx),
         tx.kind = "open" <=> Doing("open"),
         IF Doing("open") THEN todo \cap DOMAIN tx.targets # {} ELSE sent = {}
  PROVE  DemoInvariant'
<1>1. /\ sent' = sent \cup {tx}
      /\ UNCHANGED <<lane, at, todo, seen, runs, late>>
  BY DEF Quietly, Send, Idle, processVars, vars, laneVars
<1>2. at # 0
  BY DemoFacts
<1>3. \A x \in InFlight' : x \in InFlight \/ ~Paying(x)
  BY <1>1 DEF InFlight
<1>4. DemoTypes' /\ AmountsAreBounded' /\ PaidInOrder' /\ NotPaidYet' /\ RunsAreCounted'
  BY <1>1, <1>2, <1>3, QuietDemoStep
<1>5. SentByStep'
  BY <1>1, <1>2 DEF DemoInvariant, SentByStep, Doing, Subject, Paying, Targets, Target
<1>. QED
  BY <1>4, <1>5 DEF DemoInvariant

\* The balances are read before any money moves.
LEMMA PrecheckKeeps ==
  ASSUME DemoInvariant, Precheck
  PROVE  DemoInvariant'
<1>1. at \in DOMAIN Plan /\ Plan[at].op = "precheck" /\ Advance
  BY DEF Precheck, Doing
<1>2. sent = {}
  BY <1>1 DEF DemoInvariant, SentByStep
<1>. QED
  BY <1>1, <1>2, AdvanceKeeps DEF Settling

\* Wallets are funded and deposit.
LEMMA TopUpsKeep ==
  ASSUME DemoInvariant, TopUps
  PROVE  DemoInvariant'
<1>1. ASSUME NEW op \in {"fund", "deposit", "minimum", "lock"}, NEW kind \in {"fund", "deposit", "lock"},
             NEW w, NEW current, NEW target, NEW targets, TopUp(op, kind, w, current, target, targets)
      PROVE  DemoInvariant'
  <2>1. at \in DOMAIN Plan /\ Plan[at].op = op /\ sent = {} /\ ~Doing("open")
    BY <1>1 DEF TopUp, Doing
  <2>2. CASE Advance
    BY <2>1, <2>2, <1>1, AdvanceKeeps DEF Settling
  <2>3. CASE Quietly(Tx(kind, w, target - current, targets))
    <3>. DEFINE tx == Tx(kind, w, target - current, targets)
    <3>1. tx.kind = kind
      BY DEF Tx
    <3>. HIDE DEF tx
    <3>2. Quietly(tx)
      BY <2>3 DEF tx
    <3>3. ~Paying(tx) /\ tx.kind # "open"
      BY <1>1, <3>1 DEF Paying, Settling
    <3>4. Plan[at].op \notin {"precheck", "read", "check"} \cup Settling
      BY <2>1, <1>1 DEF Settling
    <3>. QED
      BY <2>1, <3>2, <3>3, <3>4, QuietSendKeeps
  <2>. QED
    BY <1>1, <2>2, <2>3 DEF TopUp
<1>. DEFINE w == Subject[1]
<1>2. CASE TopUp("fund", "fund", w, held[w], TokensPerWallet, NoTargets)
  BY <1>1, <1>2
<1>3. CASE TopUp("deposit", "deposit", w, Available(w), Deposits[w], NoTargets)
  BY <1>1, <1>3
<1>4. CASE TopUp("minimum", "deposit", w, Available(w), Due[Route[1]], NoTargets)
  BY <1>1, <1>4
<1>5. CASE TopUp("lock", "lock", w.payer, lane[w].locked_balance, Due[w], [k \in {w} |-> 0])
  BY <1>1, <1>5
<1>. QED
  BY <1>2, <1>3, <1>4, <1>5 DEF TopUps

\* The round's outcome is read back: the run goes on or stops there.
LEMMA CheckKeeps ==
  ASSUME DemoInvariant, CheckRound
  PROVE  DemoInvariant'
<1>1. at \in DOMAIN Plan /\ Plan[at].op = "check"
  BY DEF CheckRound, Doing
<1>2. sent = {}
  BY <1>1 DEF DemoInvariant, SentByStep
<1>3. CASE Advance
  BY <1>1, <1>2, <1>3, AdvanceKeeps DEF Settling
<1>4. CASE Stop /\ Idle /\ UNCHANGED <<vars, seen, before>>
  <2>1. at' = 0 /\ todo' = {} /\ sent' = {} /\ UNCHANGED <<lane, seen, runs, late>>
    BY <1>4 DEF Stop, Idle, vars, laneVars
  <2>2. InFlight' \subseteq InFlight
    BY <2>1 DEF InFlight
  <2>3. SentByStep'
    BY <2>1 DEF SentByStep
  <2>. QED
    BY <2>1, <2>2, <2>3, QuietDemoStep DEF DemoInvariant
<1>. QED
  BY <1>3, <1>4 DEF CheckRound

\* A run that ends early, and what is lost of an earlier one.
LEMMA FaultsKeep ==
  ASSUME DemoInvariant, Refused \/ Kill \/ DropLate
  PROVE  DemoInvariant'
<1>1. CASE Refused
  <2>1. /\ at' = 0 /\ todo' = {} /\ sent' = {} /\ late' \subseteq late \cup sent
        /\ UNCHANGED <<lane, seen, runs>>
    BY <1>1 DEF Refused, Stop, vars, laneVars
  <2>2. InFlight' \subseteq InFlight
    BY <2>1 DEF InFlight
  <2>3. SentByStep'
    BY <2>1 DEF SentByStep
  <2>. QED
    BY <2>1, <2>2, <2>3, QuietDemoStep DEF DemoInvariant
<1>2. CASE Kill
  <2>1. /\ at' = 0 /\ todo' = {} /\ sent' = {} /\ late' = late \cup sent
        /\ UNCHANGED <<lane, seen, runs>>
    BY <1>2 DEF Kill, BreakOff, vars, laneVars
  <2>2. InFlight' \subseteq InFlight
    BY <2>1 DEF InFlight
  <2>3. SentByStep'
    BY <2>1 DEF SentByStep
  <2>. QED
    BY <2>1, <2>2, <2>3, QuietDemoStep DEF DemoInvariant
<1>3. CASE DropLate
  <2>1. late' \subseteq late /\ UNCHANGED <<lane, seen, runs, at, todo, sent>>
    BY <1>3 DEF DropLate, vars, laneVars, processVars
  <2>2. InFlight' \subseteq InFlight
    BY <2>1 DEF InFlight
  <2>3. SentByStep'
    BY <2>1 DEF DemoInvariant, SentByStep, Doing, Subject, Targets, Target
  <2>. QED
    BY <2>1, <2>2, <2>3, QuietDemoStep DEF DemoInvariant
<1>. QED
  BY <1>1, <1>2, <1>3

\* Lanes are read: before their payment, so what was read is what the runs
\* before could pay at most.
LEMMA ReadKeeps ==
  ASSUME DemoInvariant, at \in DOMAIN Plan,
         NEW S \in SUBSET Lanes, \A l \in S : ReadAt(at, l),
         seen' = [l \in Lanes |-> IF l \in S THEN Read(l) ELSE seen[l]],
         at' \in {at, at + 1}, Plan[at].op \notin Settling,
         UNCHANGED <<lane, runs, sent, late>>,
         \A tx \in sent : ~Paying(tx)
  PROVE  DemoTypes' /\ AmountsAreBounded' /\ PaidInOrder' /\ NotPaidYet' /\ RunsAreCounted'
<1>1. /\ runs \in Nat /\ at \in Nat /\ Len(Plan) \in Nat /\ DOMAIN Plan = 1 .. Len(Plan)
      /\ at' \in 0 .. Len(Plan) + 1 /\ at' # 0 /\ at # 0 /\ InFlight' = InFlight
  BY DemoFacts DEF InFlight
<1>2. ASSUME NEW l \in Lanes
      PROVE  /\ Read(l)' = Read(l) /\ Read(l) \in Nat /\ Earlier(l)' = Earlier(l)
             /\ seen'[l] \in Nat /\ seen'[l] <= Read(l) /\ seen'[l] <= Earlier(l)
             /\ Target(l) <= Target(l)' /\ Read(l) <= Target(l)'
             /\ Target(l) \in Nat /\ Target(l)' \in Nat
             /\ l \notin S => Target(l)' = Target(l)
  <2>1. /\ seen[l] \in Nat /\ Due[l] \in Nat /\ Read(l) \in Nat /\ Earlier(l) \in Nat
    BY DemoFacts
  <2>2. seen[l] <= Read(l) /\ Read(l) <= Target(l) /\ seen[l] <= Earlier(l)
    BY DEF DemoInvariant, AmountsAreBounded
  <2>3. l \in S => UnpaidYet(l)
    BY <1>1, PlanOrder DEF UnpaidYet
  <2>4. l \in S => Read(l) <= Earlier(l)
    BY <2>3 DEF DemoInvariant, NotPaidYet
  <2>5. seen'[l] = IF l \in S THEN Read(l) ELSE seen[l]
    OBVIOUS
  <2>6. Read(l)' = Read(l) /\ Earlier(l)' = Earlier(l)
    BY DEF Read, Earlier, Prior
  <2>7. Target(l) = seen[l] + Due[l] /\ Target(l)' = seen'[l] + Due[l]
    BY DEF Target
  <2>. QED
    BY <2>1, <2>2, <2>4, <2>5, <2>6, <2>7
<1>3. DemoTypes'
  BY <1>1, <1>2 DEF DemoInvariant, DemoTypes
<1>4. AmountsAreBounded'
  <2>1. ASSUME NEW tx \in InFlight
        PROVE  /\ TargetsOK(tx)
               /\ Paying(tx) => \A l \in DOMAIN tx.targets : tx.targets[l] <= Target(l)'
    <3>1. /\ TargetsOK(tx)
          /\ Paying(tx) => \A l \in DOMAIN tx.targets :
               tx.targets[l] <= Target(l) /\ tx.targets[l] \in Nat /\ l \in Lanes
      BY DEF DemoInvariant, AmountsAreBounded, TargetsOK
    <3>. QED
      BY <1>2, <3>1
  <2>. QED
    BY <1>1, <1>2, <2>1 DEF AmountsAreBounded
<1>5. PaidInOrder'
  <2>1. ASSUME NEW l \in Lanes, NEW j \in DOMAIN Plan, PaidAt(j, l), j < at'
        PROVE  Read(l)' = Target(l)'
    <3>1. l \notin S
      <4>1. j \in Nat /\ j <= at
        BY <1>1, <2>1
      <4>2. l \in S => at < j
        BY <2>1, PlanOrder
      <4>. QED
        BY <1>1, <4>1, <4>2
    <3>2. j # at
      BY <2>1 DEF PaidAt
    <3>3. j < at
      BY <1>1, <2>1, <3>2
    <3>. QED
      BY <1>2, <2>1, <3>1, <3>3 DEF DemoInvariant, PaidInOrder
  <2>. QED
    BY <2>1 DEF PaidInOrder, PaidAt
<1>6. NotPaidYet'
  <2>1. \A l \in Lanes : UnpaidYet(l)' => UnpaidYet(l)
    BY <1>1 DEF UnpaidYet, PaidAt
  <2>. QED
    BY <1>1, <1>2, <2>1 DEF DemoInvariant, NotPaidYet
<1>7. RunsAreCounted'
  BY <1>1, <1>2 DEF DemoInvariant, RunsAreCounted
<1>. QED
  BY <1>3, <1>4, <1>5, <1>6, <1>7

\* Lanes are opened and their collateral locked.
LEMMA OpenLanesKeep ==
  ASSUME DemoInvariant, OpenLanes
  PROVE  DemoInvariant'
<1>1. PICK l \in todo :
        /\ ~\E tx \in sent : l \in DOMAIN tx.targets
        /\ IF lane[l].initialized
           THEN /\ seen' = [seen EXCEPT ![l] = Read(l)]
                /\ IF todo = {l} THEN Enter(at + 1) ELSE todo' = todo \ {l} /\ UNCHANGED at
                /\ Idle /\ UNCHANGED <<vars, before, sent>>
           ELSE Quietly(Tx("open", l.payer, 0, [k \in {l} |-> 0]))
  BY DEF OpenLanes
<1>2. /\ Doing("open") /\ at \in DOMAIN Plan /\ Plan[at].op = "open"
      /\ Range(Subject) \subseteq Lanes
  BY PlanOrder DEF OpenLanes, Doing, Subject, Reading
<1>3. l \in Lanes /\ l \in Range(Subject) /\ todo \subseteq Range(Subject)
  BY <1>2 DEF DemoInvariant, SentByStep
<1>4. \A tx \in sent : tx.kind = "open" /\ todo \cap DOMAIN tx.targets # {} /\ ~Paying(tx)
  BY <1>2 DEF DemoInvariant, SentByStep, Paying, Settling
<1>5. CASE lane[l].initialized
  <2>. DEFINE S == {l}
  <2>1. /\ seen' = [k \in Lanes |-> IF k \in S THEN Read(k) ELSE seen[k]]
        /\ UNCHANGED <<lane, runs, sent, late>>
    BY <1>1, <1>5, <1>3 DEF DemoInvariant, DemoTypes, Idle, vars, laneVars
  <2>2. S \subseteq Lanes /\ (\A k \in S : ReadAt(at, k))
    BY <1>2, <1>3 DEF ReadAt, Reading, Subject
  <2>3. at' \in {at, at + 1} /\ Plan[at].op \notin Settling
    BY <1>1, <1>2, <1>5 DEF Enter, Settling
  <2>. HIDE DEF S
  <2>4. DemoTypes' /\ AmountsAreBounded' /\ PaidInOrder' /\ NotPaidYet' /\ RunsAreCounted'
    BY <1>2, <1>4, <2>1, <2>2, <2>3, ReadKeeps
  <2>5. CASE todo = {l}
    <3>1. sent' = {} /\ Enter(at + 1) /\ at + 1 \in Nat
      BY <1>1, <1>4, <1>5, <2>1, <2>5, DemoFacts
    <3>. QED
      BY <2>4, <3>1, Entered DEF DemoInvariant
  <2>6. CASE todo # {l}
    <3>1. todo' = todo \ {l} /\ at' = at /\ sent' = sent
      BY <1>1, <1>5, <2>1, <2>6
    <3>2. \A tx \in sent : todo' \cap DOMAIN tx.targets # {}
      BY <1>1, <1>4, <3>1
    <3>3. at # 0 /\ Doing("open")' /\ Subject' = Subject
      BY <1>2, <3>1, DemoFacts DEF Doing, Subject
    <3>4. SentByStep'
      BY <1>2, <1>3, <1>4, <3>1, <3>2, <3>3, <2>3 DEF SentByStep
    <3>. QED
      BY <2>4, <3>4 DEF DemoInvariant
  <2>. QED
    BY <2>5, <2>6
<1>6. CASE ~lane[l].initialized
  <2>. DEFINE tx == Tx("open", l.payer, 0, [k \in {l} |-> 0])
  <2>1. tx.kind = "open" /\ DOMAIN tx.targets = {l}
    BY DEF Tx
  <2>2. Quietly(tx)
    BY <1>1, <1>6
  <2>. HIDE DEF tx
  <2>3. ~Paying(tx) /\ todo \cap DOMAIN tx.targets # {}
    BY <2>1 DEF Paying, Settling
  <2>4. Plan[at].op \notin {"precheck", "read", "check"} \cup Settling
    BY <1>2 DEF Settling
  <2>. QED
    BY <1>2, <2>1, <2>2, <2>3, <2>4, QuietSendKeeps
<1>. QED
  BY <1>5, <1>6

\* The cumulative amounts of the route's lanes are read anew.
LEMMA ReadRouteKeeps ==
  ASSUME DemoInvariant, ReadRoute
  PROVE  DemoInvariant'
<1>1. /\ at \in DOMAIN Plan /\ Plan[at].op = "read" /\ Plan[at].subject = Route
      /\ Range(Route) \subseteq Lanes
  BY PlanOrder DEF ReadRoute, Doing, Reading
<1>2. /\ seen' = [l \in Lanes |-> IF l \in Range(Route) THEN Read(l) ELSE seen[l]]
      /\ Enter(at + 1) /\ at' = at + 1 /\ at + 1 \in Nat
      /\ UNCHANGED <<lane, runs, sent, late>>
  BY DemoFacts DEF ReadRoute, Enter, Idle, vars, laneVars
<1>3. sent = {}
  BY <1>1 DEF DemoInvariant, SentByStep
<1>4. \A l \in Range(Route) : ReadAt(at, l)
  BY <1>1 DEF ReadAt, Reading
<1>5. Plan[at].op \notin Settling
  BY <1>1 DEF Settling
<1>6. DemoTypes' /\ AmountsAreBounded' /\ PaidInOrder' /\ NotPaidYet' /\ RunsAreCounted'
  BY <1>1, <1>2, <1>3, <1>4, <1>5, ReadKeeps
<1>7. SentByStep'
  BY <1>2, <1>3, Entered
<1>. QED
  BY <1>6, <1>7 DEF DemoInvariant

\* A payment is sent: it asks for what the run will have paid on its lanes.
LEMMA PaymentKeeps ==
  ASSUME DemoInvariant, at \in DOMAIN Plan, Plan[at].op \in Settling, sent = {},
         NEW tx, tx.kind = Plan[at].op, tx.targets = Targets(Subject),
         sent' = {tx}, UNCHANGED <<lane, at, todo, seen, runs, late>>
  PROVE  DemoInvariant'
<1>1. /\ runs \in Nat /\ at \in Nat /\ at # 0
      /\ Range(Subject) \subseteq Lanes /\ Plan[at].subject = Subject
  BY DemoFacts, PlanOrder DEF Subject
<1>2. \A l : Read(l)' = Read(l) /\ Target(l)' = Target(l) /\ Earlier(l)' = Earlier(l)
  BY DEF Read, Target, Earlier, Prior
<1>3. /\ DOMAIN tx.targets = Range(Subject)
      /\ \A l \in Range(Subject) : tx.targets[l] = Target(l) /\ Target(l) \in Nat
  BY <1>1, DemoFacts DEF Targets
<1>4. TargetsOK(tx) /\ \A l \in DOMAIN tx.targets : tx.targets[l] <= Target(l)
  BY <1>1, <1>3 DEF TargetsOK
<1>5. \A x \in InFlight' : x \in InFlight \/ x = tx
  BY DEF InFlight
<1>6. DemoTypes'
  BY DEF DemoInvariant, DemoTypes
<1>7. AmountsAreBounded'
  BY <1>2, <1>4, <1>5 DEF DemoInvariant, AmountsAreBounded
<1>8. PaidInOrder'
  BY <1>2 DEF DemoInvariant, PaidInOrder, PaidAt
<1>9. NotPaidYet'
  <2>1. \A l \in Lanes : UnpaidYet(l)' => UnpaidYet(l)
    BY DEF UnpaidYet, PaidAt
  <2>2. ASSUME NEW l \in DOMAIN tx.targets
        PROVE  ~UnpaidYet(l)
    <3>1. PaidAt(at, l)
      BY <1>1, <1>3, <2>2 DEF PaidAt
    <3>. QED
      BY <1>1, <3>1 DEF UnpaidYet
  <2>. QED
    BY <1>2, <1>5, <2>1, <2>2 DEF DemoInvariant, NotPaidYet
<1>10. RunsAreCounted'
  BY <1>1, <1>2 DEF DemoInvariant, RunsAreCounted
<1>11. SentByStep'
  <2>1. ~Doing("open") /\ Plan[at].op \notin {"precheck", "read", "check"} /\ tx.kind # "open"
    BY DEF Doing, Settling
  <2>2. Doing("open")' = Doing("open") /\ Subject' = Subject
    BY DEF Doing, Subject
  <2>4. Targets(Subject)' = Targets(Subject)
    BY DEF Targets, Target, Subject
  <2>5. todo' \subseteq IF Doing("open")' THEN Range(Subject)' ELSE {}
    BY <2>1, <2>2 DEF DemoInvariant, SentByStep
  <2>. QED
    BY <1>1, <2>1, <2>2, <2>4, <2>5 DEF SentByStep
<1>. QED
  BY <1>6, <1>7, <1>8, <1>9, <1>10, <1>11 DEF DemoInvariant

\* A settlement asks for what was read and what is due.
LEMMA SettlementsKeep ==
  ASSUME DemoInvariant, SettleCommitments \/ SettleRound
  PROVE  DemoInvariant'
<1>1. CASE SettleCommitments
  <2>. DEFINE tx == Tx(Plan[at].op, Subject[1].payee, 0, Targets(Subject))
  <2>1. /\ at \in DOMAIN Plan /\ Plan[at].op \in Settling /\ sent = {}
        /\ sent' = sent \cup {tx} /\ UNCHANGED <<lane, at, todo, seen, runs, late>>
    BY <1>1 DEF SettleCommitments, Doing, Settling, Signing, Send, Idle, processVars, laneVars
  <2>2. tx.kind = Plan[at].op /\ tx.targets = Targets(Subject)
    BY DEF Tx
  <2>. HIDE DEF tx
  <2>. QED
    BY <2>1, <2>2, PaymentKeeps
<1>2. CASE SettleRound
  <2>. DEFINE tx == Tx("round", Route[2].payer, 0, Targets(Route))
  <2>1. /\ at \in DOMAIN Plan /\ Plan[at].op = "round" /\ sent = {}
        /\ sent' = sent \cup {tx} /\ UNCHANGED <<lane, at, todo, seen, runs, late>>
    BY <1>2 DEF SettleRound, Doing, Signing, Send, Idle, processVars, laneVars
  <2>2. Subject = Route /\ Plan[at].op \in Settling
    BY <2>1, PlanOrder DEF Subject, Settling
  <2>3. tx.kind = Plan[at].op /\ tx.targets = Targets(Subject)
    BY <2>1, <2>2 DEF Tx
  <2>. HIDE DEF tx
  <2>. QED
    BY <2>1, <2>2, <2>3, PaymentKeeps
<1>. QED
  BY <1>1, <1>2

\* A transaction lands.  If it pays on a lane it pays what the run at work will
\* have paid, or less and then before that run does.
LEMMA ChainKeeps ==
  ASSUME DemoInvariant, NEW tx \in InFlight, Execute(tx),
         UNCHANGED <<seen, runs>>, InFlight' \subseteq InFlight,
         \/ at' = at
         \/ /\ at' = at + 1 /\ at \in DOMAIN Plan
            /\ \A l : PaidAt(at, l) => lane'[l].settled_cumulative = Target(l)
  PROVE  DemoTypes' /\ AmountsAreBounded' /\ PaidInOrder' /\ NotPaidYet' /\ RunsAreCounted'
<1>1. /\ runs \in Nat /\ at \in Nat /\ Len(Plan) \in Nat /\ DOMAIN Plan = 1 .. Len(Plan)
      /\ at' \in 0 .. Len(Plan) + 1
  BY DemoFacts DEF DemoInvariant, DemoTypes
<1>2. /\ Lanes \subseteq DOMAIN lane /\ \A l \in Lanes : LaneOK(lane[l])
      /\ \A x \in InFlight : TargetsOK(x)
      /\ runs # 0
  BY DEF DemoInvariant, DemoTypes, AmountsAreBounded, RunsAreCounted
<1>3. /\ Lanes \subseteq DOMAIN lane'
      /\ \A l \in Lanes :
           /\ LaneOK(lane'[l])
           /\ lane'[l].settled_cumulative >= lane[l].settled_cumulative
           /\ \/ lane'[l].settled_cumulative = lane[l].settled_cumulative
              \/ /\ Paying(tx) /\ l \in DOMAIN tx.targets
                 /\ lane'[l].settled_cumulative = tx.targets[l]
  BY <1>2, TransactionOnLanes
<1>4. DemoTypes'
  BY <1>1, <1>3 DEF DemoInvariant, DemoTypes
<1>5. ASSUME NEW l \in Lanes
      PROVE  /\ Read(l) \in Nat /\ Read(l)' \in Nat /\ Target(l) \in Nat /\ Earlier(l) \in Nat
             /\ Read(l)' >= Read(l) /\ Read(l)' <= Target(l)
             /\ Target(l)' = Target(l) /\ Earlier(l)' = Earlier(l)
             /\ \/ Read(l)' = Read(l)
                \/ Paying(tx) /\ l \in DOMAIN tx.targets /\ Read(l)' = tx.targets[l]
  <2>1. Read(l) \in Nat /\ Target(l) \in Nat /\ Earlier(l) \in Nat
    BY DemoFacts
  <2>2. /\ Read(l) <= Target(l)
        /\ Paying(tx) /\ l \in DOMAIN tx.targets => tx.targets[l] <= Target(l)
    BY DEF DemoInvariant, AmountsAreBounded
  <2>3. /\ Read(l)' \in Nat /\ Read(l)' >= Read(l)
        /\ \/ Read(l)' = Read(l)
           \/ Paying(tx) /\ l \in DOMAIN tx.targets /\ Read(l)' = tx.targets[l]
    BY <1>3 DEF Read, LaneOK, LaneShape
  <2>4. Target(l)' = Target(l) /\ Earlier(l)' = Earlier(l)
    BY DEF Target, Earlier, Prior
  <2>. QED
    BY <2>1, <2>2, <2>3, <2>4
<1>6. AmountsAreBounded'
  <2>1. ASSUME NEW l \in Lanes
        PROVE  seen'[l] <= Read(l)' /\ Read(l)' <= Target(l)' /\ seen'[l] <= Earlier(l)'
    <3>1. seen[l] <= Read(l) /\ seen[l] <= Earlier(l) /\ seen[l] \in Nat /\ seen' = seen
      BY DemoFacts DEF DemoInvariant, AmountsAreBounded
    <3>. QED
      BY <1>5, <3>1
  <2>2. \A x \in InFlight :
          /\ TargetsOK(x)
          /\ Paying(x) => \A l \in DOMAIN x.targets : l \in Lanes /\ x.targets[l] <= Target(l)
    BY DEF DemoInvariant, AmountsAreBounded, TargetsOK
  <2>3. \A l \in Lanes : Target(l)' = Target(l)
    BY <1>5
  <2>4. \A x \in InFlight' :
          /\ TargetsOK(x)
          /\ Paying(x) => \A l \in DOMAIN x.targets : x.targets[l] <= Target(l)'
    BY <2>2, <2>3
  <2>. QED
    BY <2>1, <2>4 DEF AmountsAreBounded
<1>7. PaidInOrder'
  <2>1. ASSUME NEW l \in Lanes, NEW j \in DOMAIN Plan, PaidAt(j, l), j < at'
        PROVE  Read(l)' = Target(l)'
    <3>1. CASE j < at
      <4>1. Read(l) = Target(l)
        BY <2>1, <3>1 DEF DemoInvariant, PaidInOrder
      <4>. QED
        BY <1>5, <4>1
    <3>2. CASE j = at /\ at' = at + 1
      <4>1. Read(l)' = Target(l)
        BY <1>1, <2>1, <3>2 DEF Read
      <4>. QED
        BY <1>5, <4>1
    <3>. QED
      BY <1>1, <2>1, <3>1, <3>2
  <2>. QED
    BY <2>1 DEF PaidInOrder, PaidAt
<1>8. NotPaidYet'
  <2>1. \A l \in Lanes : UnpaidYet(l)' => UnpaidYet(l)
    BY <1>1 DEF UnpaidYet, PaidAt
  <2>2. ASSUME NEW l \in Lanes, UnpaidYet(l)
        PROVE  /\ Read(l)' <= Earlier(l)'
               /\ \A x \in InFlight' :
                    Paying(x) /\ l \in DOMAIN x.targets => x.targets[l] <= Earlier(l)'
    <3>1. /\ Read(l) <= Earlier(l)
          /\ \A x \in InFlight :
               Paying(x) /\ l \in DOMAIN x.targets => x.targets[l] <= Earlier(l)
      BY <2>2 DEF DemoInvariant, NotPaidYet
    <3>. QED
      BY <1>5, <3>1
  <2>. QED
    BY <2>1, <2>2 DEF NotPaidYet
<1>9. RunsAreCounted'
  BY <1>2 DEF RunsAreCounted
<1>. QED
  BY <1>4, <1>6, <1>7, <1>8, <1>9

\* The transaction that is waited for lands.
LEMMA LandKeepsDemo ==
  ASSUME DemoInvariant, Land
  PROVE  DemoInvariant'
<1>1. PICK tx \in sent :
        /\ Execute(tx) /\ sent' = sent \ {tx}
        /\ IF tx.kind = "open" THEN UNCHANGED <<at, todo>> ELSE Enter(at + 1)
        /\ UNCHANGED <<seen, before, runs, faults, late>>
  BY DEF Land
<1>2. /\ at \in DOMAIN Plan /\ Plan[at].op \notin {"precheck", "read", "check"}
      /\ tx.kind = "open" <=> Doing("open")
      /\ IF Doing("open") THEN todo \cap DOMAIN tx.targets # {} ELSE sent = {tx}
      /\ Paying(tx) \/ Plan[at].op \in Settling =>
           tx.kind = Plan[at].op /\ tx.targets = Targets(Subject)
  BY <1>1 DEF DemoInvariant, SentByStep
<1>3. tx \in InFlight /\ InFlight' \subseteq InFlight /\ TargetsOK(tx)
  BY <1>1 DEF InFlight, DemoInvariant, AmountsAreBounded
<1>4. CASE tx.kind = "open"
  <2>1. at' = at /\ todo' = todo /\ sent' \subseteq sent /\ UNCHANGED <<seen, runs>>
    BY <1>1, <1>4
  <2>2. DemoTypes' /\ AmountsAreBounded' /\ PaidInOrder' /\ NotPaidYet' /\ RunsAreCounted'
    BY <1>1, <1>3, <2>1, ChainKeeps
  <2>3. SentByStep'
    BY <1>2, <1>4, <2>1 DEF DemoInvariant, SentByStep, Doing, Subject, Targets, Target
  <2>. QED
    BY <2>2, <2>3 DEF DemoInvariant
<1>5. CASE tx.kind # "open"
  <2>1. /\ Enter(at + 1) /\ at' = at + 1 /\ at + 1 \in Nat /\ UNCHANGED <<seen, runs>>
        /\ sent' = {}
    BY <1>1, <1>2, <1>5, DemoFacts DEF Enter
  <2>2. ASSUME NEW l, PaidAt(at, l)
        PROVE  lane'[l].settled_cumulative = Target(l)
    <3>1. /\ Plan[at].op \in Settling /\ l \in Range(Subject)
          /\ tx.kind = Plan[at].op /\ tx.targets = Targets(Subject) /\ Paying(tx)
      BY <1>2, <2>2 DEF PaidAt, Subject, Paying
    <3>2. DOMAIN tx.targets = Range(Subject) /\ tx.targets[l] = Target(l)
      BY <3>1 DEF Targets
    <3>3. \/ tx.kind = "single" /\ ~\E k : DOMAIN tx.targets = {k}
          \/ \A k \in DOMAIN tx.targets : lane'[k].settled_cumulative = tx.targets[k]
      BY <1>1, <1>3, <3>1, TransactionOnLanes DEF DemoInvariant, DemoTypes
    <3>4. tx.kind = "single" => DOMAIN tx.targets = {Single}
      <4>1. ASSUME tx.kind = "single"
            PROVE  Subject = <<Single>>
        BY <1>2, <3>1, <4>1, PlanOrder DEF Subject
      <4>2. Range(<<Single>>) = {Single}
        BY DEF Range
      <4>. QED
        BY <3>2, <4>1, <4>2
    <3>. QED
      BY <3>1, <3>2, <3>3, <3>4
  <2>3. DemoTypes' /\ AmountsAreBounded' /\ PaidInOrder' /\ NotPaidYet' /\ RunsAreCounted'
    BY <1>1, <1>2, <1>3, <2>1, <2>2, ChainKeeps
  <2>4. SentByStep'
    BY <2>1, Entered
  <2>. QED
    BY <2>3, <2>4 DEF DemoInvariant
<1>. QED
  BY <1>4, <1>5

\* A transaction of a run that was broken off lands late.
LEMMA LandLateKeeps ==
  ASSUME DemoInvariant, LandLate
  PROVE  DemoInvariant'
<1>1. PICK tx \in late :
        /\ Execute(tx) /\ late' = late \ {tx}
        /\ UNCHANGED <<processVars, sent, runs, faults>>
  BY DEF LandLate
<1>2. tx \in InFlight /\ InFlight' \subseteq InFlight /\ UNCHANGED <<seen, runs, at, todo, sent>>
  BY <1>1 DEF InFlight, processVars
<1>3. DemoTypes' /\ AmountsAreBounded' /\ PaidInOrder' /\ NotPaidYet' /\ RunsAreCounted'
  BY <1>1, <1>2, ChainKeeps
<1>4. SentByStep'
  BY <1>2 DEF DemoInvariant, SentByStep, Doing, Subject, Targets, Target
<1>. QED
  BY <1>3, <1>4 DEF DemoInvariant

\* Every step of the demo keeps the invariant, and so do the steps of the others.
LEMMA DemoStep ==
  ASSUME DemoInvariant, DemoNext
  PROVE  DemoInvariant'
<1>. QED
  BY StartKeeps, PrecheckKeeps, TopUpsKeep, OpenLanesKeep, ReadRouteKeeps, SettlementsKeep,
     CheckKeeps, LandKeepsDemo, FaultsKeep, LandLateKeeps DEF DemoNext, Process

\* What leaves the run and the lanes alone.
LEMMA DemoStutter ==
  ASSUME DemoInvariant, UNCHANGED <<lane, demoOnly>>
  PROVE  DemoInvariant'
<1>1. UNCHANGED <<lane, seen, runs, sent, late, at, todo>> /\ InFlight' = InFlight
  BY DEF demoOnly, InFlight
<1>2. DemoTypes' /\ AmountsAreBounded' /\ PaidInOrder' /\ NotPaidYet' /\ RunsAreCounted'
  BY <1>1, QuietDemoStep
<1>3. SentByStep'
  BY <1>1 DEF DemoInvariant, SentByStep, Doing, Subject, Targets, Target
<1>. QED
  BY <1>2, <1>3 DEF DemoInvariant

\* The demo starts with lanes that are not open yet.
LEMMA DemoStarts ==
  ASSUME demo = "demo", WalletsReady, DemoInit
  PROVE  DemoInvariant
<1>1. lane = [l \in Lanes |-> UninitializedLane] /\ seen = [l \in Lanes |-> 0]
      /\ at = 0 /\ todo = {} /\ sent = {} /\ late = {} /\ runs = 0
  BY DEF WalletsReady, DemoInit
<1>2. LaneOK(UninitializedLane) /\ UninitializedLane.settled_cumulative = 0
  BY DEF LaneOK, LaneShape, UninitializedLane
<1>3. \A l \in Lanes : Read(l) = 0 /\ seen[l] = 0 /\ Due[l] \in Nat \ {0}
  BY <1>1, <1>2, DemoAssumption DEF Read
<1>4. DemoTypes
  BY <1>1, <1>2, PlanOrder DEF DemoTypes
<1>5. AmountsAreBounded
  <2>1. InFlight = {} /\ Prior = 0
    BY <1>1 DEF InFlight, Prior
  <2>2. \A l \in Lanes : Target(l) = Due[l] /\ Earlier(l) = 0
    BY <1>3, <2>1 DEF Target, Earlier
  <2>. QED
    BY <1>3, <2>1, <2>2 DEF AmountsAreBounded
<1>6. PaidInOrder /\ NotPaidYet
  BY <1>1, PlanOrder DEF PaidInOrder, NotPaidYet, UnpaidYet
<1>7. RunsAreCounted /\ SentByStep
  BY <1>1, <1>3, PlanOrder DEF RunsAreCounted, SentByStep, InFlight
<1>. QED
  BY <1>4, <1>5, <1>6, <1>7 DEF DemoInvariant

\* What the invariant says of the runs.
LEMMA DemoIsSafe ==
  ASSUME DemoInvariant
  PROVE  EachRunPaysOnce /\ ReportedPaymentsAreExact
<1>1. ASSUME NEW l \in Lanes
      PROVE  Read(l) <= runs * Due[l]
  <2>. DEFINE b == runs * Due[l]
  <2>1. /\ seen[l] \in Nat /\ Due[l] \in Nat /\ Read(l) \in Nat /\ Earlier(l) \in Nat
        /\ runs \in Nat /\ (runs # 0 => Earlier(l) + Due[l] = b)
    BY DemoFacts
  <2>2. /\ Read(l) <= Target(l) /\ seen[l] <= Earlier(l) /\ (runs = 0 => Read(l) = 0)
        /\ Target(l) = seen[l] + Due[l]
    BY DEF DemoInvariant, AmountsAreBounded, RunsAreCounted, Target
  <2>3. b \in Nat
    BY <2>1
  <2>. HIDE DEF b
  <2>4. Read(l) <= b
    BY <2>1, <2>2, <2>3
  <2>. QED
    BY <2>4 DEF b
<1>2. ASSUME Finished, NEW l \in Lanes
      PROVE  Read(l) = Target(l)
  <2>1. PICK j : PaidAt(j, l)
    BY PlanOrder
  <2>2. j \in DOMAIN Plan /\ j < at
    BY <1>2, <2>1, DemoFacts DEF Finished, PaidAt
  <2>. QED
    BY <2>1, <2>2 DEF DemoInvariant, PaidInOrder
<1>. QED
  BY <1>1, <1>2 DEF EachRunPaysOnce, ReportedPaymentsAreExact

-----------------------------------------------------------------------------
(***************************************************************************)
(* The runs of the yield demo.  Each leaves a known trace in its two       *)
(* users' entries: at every step of its plan, all balances but one or two  *)
(* are zero.                                                               *)
(***************************************************************************)
Numbers ==
  /\ now \in Nat
  /\ reserve \in ReserveState
  /\ strategy \in Sound
  /\ shareVault \in Nat

EntryOK(e) ==
  /\ {"initialized", "available_balance", "withdrawing_balance"} \subseteq DOMAIN e
  /\ e.available_balance \in Nat /\ e.withdrawing_balance \in Nat
Owned == Participants \X {Plain, Wrapper}
Entries == Owned \subseteq DOMAIN slot /\ \A x \in Owned : EntryOK(slot[x])

Free(u, t) == slot[<<u, t>>].available_balance
Leaving(u, t) == slot[<<u, t>>].withdrawing_balance

\* Where the money of the run's first and second user is at step p of the plan:
\* free and leaving, as plain tokens and as shares of the wrapper.
FirstUserAt(p, plain, plainLeaving, shares, leaving) ==
  /\ plain = 0 /\ plainLeaving = 0
  /\ p \notin 3 .. 11 => shares = 0
  /\ p # 12 => leaving = 0

SecondUserAt(p, plain, plainLeaving, shares, leaving) ==
  /\ plainLeaving = 0
  /\ p \notin {4, 9} => plain = 0
  /\ p = 4 => plain = 32
  /\ p \notin 5 .. 13 => shares = 0
  /\ p # 14 => leaving = 0

Positions ==
  LET a == TwoRuns[run][1]
      b == TwoRuns[run][2]
  IN  /\ FirstUserAt(place, Free(a, Plain), Leaving(a, Plain), Free(a, Wrapper), Leaving(a, Wrapper))
      /\ SecondUserAt(place, Free(b, Plain), Leaving(b, Plain), Free(b, Wrapper), Leaving(b, Wrapper))

\* The users of later runs have not come yet.
LaterUsers ==
  \A r \in DOMAIN TwoRuns : \A i \in 1 .. 2 : \A t \in {Plain, Wrapper} :
    r > run => Free(TwoRuns[r][i], t) = 0 /\ Leaving(TwoRuns[r][i], t) = 0

\* The transaction that is waited for is that of the step, as read.
AwaitedIsCurrent ==
  \A tx \in waiting :
    /\ ~Yielding!Finished
    /\ tx.op = Yielding!Plan[place].op /\ tx.user = TwoRuns[run][Yielding!Plan[place].user]
    /\ tx.amount \in Nat \ {0} /\ tx.amount = Yielding!Amount(tx.op, tx.user)

YieldInvariant ==
  /\ Numbers /\ Entries
  /\ place \in 1 .. 15 /\ run \in DOMAIN TwoRuns
  /\ Positions /\ LaterUsers /\ AwaitedIsCurrent


-----------------------------------------------------------------------------
(***************************************************************************)
(* The numbers of the strategy and of the reserve.                         *)
(***************************************************************************)
\* The operators of the demo's instance of RyvoYield are those of RyvoYield.
LEMMA SameConversions ==
  /\ \A r, ts : Yielding!Accrued(r, ts) = Accrued(r, ts)
  /\ \A n, r : /\ Yielding!CusdcToUsdc(n, r) = CusdcToUsdc(n, r)
              /\ Yielding!UsdcToCusdc(n, r) = UsdcToCusdc(n, r)
              /\ Yielding!CanUsdcToCusdc(n, r) = CanUsdcToCusdc(n, r)
              /\ Yielding!SharesFor(r, n) = SharesFor(r, n)
              /\ Yielding!LiquidityDeposited(r, n) = LiquidityDeposited(r, n)
              /\ Yielding!CanRedeem(r, n) = CanRedeem(r, n)
              /\ Yielding!Redeemed(r, n) = Redeemed(r, n)
  /\ \A st, n : /\ Yielding!UsdcToShares(st, n) = UsdcToShares(st, n)
               /\ Yielding!SharesToUsdc(st, n) = SharesToUsdc(st, n)
               /\ Yielding!SharesMinted(st, n) = SharesMinted(st, n)
  /\ \A st, n, x : Yielding!SharesBurned(st, n, x) = SharesBurned(st, n, x)
<1>1. \A r, ts : Yielding!Accrued(r, ts) = Accrued(r, ts)
  BY DEF Yielding!Accrued, Accrued, Yielding!Interest, Interest
<1>2. \A n, r : /\ Yielding!CusdcToUsdc(n, r) = CusdcToUsdc(n, r)
                /\ Yielding!UsdcToCusdc(n, r) = UsdcToCusdc(n, r)
                /\ Yielding!SharesFor(r, n) = SharesFor(r, n)
                /\ Yielding!UnderlyingFor(r, n) = UnderlyingFor(r, n)
  BY DEF Yielding!CusdcToUsdc, CusdcToUsdc, Yielding!UsdcToCusdc, UsdcToCusdc,
     Yielding!SharesFor, SharesFor, Yielding!UnderlyingFor, UnderlyingFor
<1>3. \A n, r : Yielding!CanUsdcToCusdc(n, r) = CanUsdcToCusdc(n, r)
  BY <1>2 DEF Yielding!CanUsdcToCusdc, CanUsdcToCusdc, Yielding!Fits, Fits
<1>4. \A n, r : /\ Yielding!LiquidityDeposited(r, n) = LiquidityDeposited(r, n)
                /\ Yielding!Redeemed(r, n) = Redeemed(r, n)
  BY <1>2, Zenon DEF Yielding!LiquidityDeposited, LiquidityDeposited,
     Yielding!Redeemed, Redeemed
<1>5. \A n, r : Yielding!CanRedeem(r, n) = CanRedeem(r, n)
  BY <1>2 DEF Yielding!CanRedeem, CanRedeem, Yielding!Fits, Fits
<1>6. \A st, n : /\ Yielding!UsdcToShares(st, n) = UsdcToShares(st, n)
                 /\ Yielding!SharesToUsdc(st, n) = SharesToUsdc(st, n)
  BY DEF Yielding!UsdcToShares, UsdcToShares, Yielding!SharesToUsdc, SharesToUsdc,
     Yielding!IndexOne, IndexOne
<1>7. \A st, n : Yielding!SharesMinted(st, n) = SharesMinted(st, n)
  BY <1>6, Zenon DEF Yielding!SharesMinted, SharesMinted
<1>8. \A st, n, x : Yielding!SharesBurned(st, n, x) = SharesBurned(st, n, x)
  BY Zenon DEF Yielding!SharesBurned, SharesBurned, Yielding!Greater, Greater
<1>. QED
  BY <1>1, <1>2, <1>3, <1>4, <1>5, <1>6, <1>7, <1>8

\* Accruing of the demo's instance is that of RyvoYield.
LEMMA SameAccrual ==
  ASSUME NEW st, NEW r, NEW n
  PROVE  Yielding!AccruedStrategy(st, r, n) = AccruedStrategy(st, r, n)
<1>1. Yielding!CusdcToUsdc(n, r) = CusdcToUsdc(n, r)
  BY SameConversions
<1>2. Yielding!NewYield(st, r, n) = NewYield(st, r, n)
  BY <1>1 DEF Yielding!NewYield, NewYield
<1>3. ASSUME NEW x
      PROVE  Yielding!ApplyYieldDelta(st, x) = ApplyYieldDelta(st, x)
  <2>1. Yielding!ProtocolCut(st, x) = ProtocolCut(st, x)
    BY DEF Yielding!ProtocolCut, ProtocolCut
  <2>2. Yielding!IndexDelta(st, x) = IndexDelta(st, x)
    BY <2>1 DEF Yielding!IndexDelta, IndexDelta, Yielding!IndexOne, IndexOne
  <2>. QED
    BY <2>1, <2>2, Zenon DEF Yielding!ApplyYieldDelta, ApplyYieldDelta
<1>. QED
  BY <1>1, <1>2, <1>3, Zenon DEF Yielding!AccruedStrategy, AccruedStrategy

\* Accruing keeps the numbers what they are.
LEMMA FreshNumbers ==
  ASSUME Numbers
  PROVE  /\ Yielding!FreshReserve \in ReserveState
         /\ Yielding!FreshStrategy \in Sound
         /\ Yielding!FreshStrategy.total_user_shares = strategy.total_user_shares
         /\ Yielding!FreshReserve.share_supply = reserve.share_supply
<1>1. /\ Yielding!FreshReserve \in ReserveState
      /\ Yielding!FreshReserve.share_supply = reserve.share_supply
  BY SameConversions, AccruedType DEF Numbers, Yielding!FreshReserve
<1>2. /\ Yielding!FreshStrategy \in Sound
      /\ Yielding!FreshStrategy.total_user_shares = strategy.total_user_shares
  <2>. DEFINE r == Yielding!FreshReserve
  <2>2. /\ AccruedStrategy(strategy, r, shareVault) \in Sound
        /\ AccruedStrategy(strategy, r, shareVault).total_user_shares
             = strategy.total_user_shares
    BY <1>1, AccruedStrategyType DEF Numbers
  <2>. QED
    BY <2>2, SameAccrual DEF Yielding!FreshStrategy
<1>. QED
  BY <1>1, <1>2

\* What the conversions of a transaction give, once the books are accrued.
LEMMA ConvertedNumbers ==
  ASSUME Numbers, NEW n \in Nat
  PROVE  /\ Yielding!UsdcToShares(Yielding!FreshStrategy, n) \in Nat
         /\ Yielding!SharesToUsdc(Yielding!FreshStrategy, n) \in Nat
         /\ Yielding!CusdcToUsdc(n, Yielding!FreshReserve) \in Nat
         /\ Yielding!CanUsdcToCusdc(n, Yielding!FreshReserve) =>
              Yielding!UsdcToCusdc(n, Yielding!FreshReserve) \in Nat
<1>. QED
  BY FreshNumbers, SameConversions, UserValueTypes, ConversionTypes

\* deposit_reserve_liquidity and the shares that are minted for it.
LEMMA MintNumbers ==
  ASSUME Numbers, NEW n \in Nat, NEW p, Yielding!Mint(p, n), now' = now
  PROVE  Numbers'
<1>. DEFINE r == Yielding!FreshReserve
            st == Yielding!FreshStrategy
<1>1. /\ reserve' = LiquidityDeposited(r, n)
      /\ shareVault' = shareVault + SharesFor(r, n)
      /\ strategy' = SharesMinted(st, n)
  BY SameConversions DEF Yielding!Mint
<1>2. r \in ReserveState /\ st \in Sound
  BY FreshNumbers
<1>. HIDE DEF r, st
<1>3. reserve' \in ReserveState
  BY <1>1, <1>2, LiquidityDepositedType
<1>4. strategy' \in Sound
  BY <1>1, <1>2, SharesMintedType
<1>5. SharesFor(r, n) \in Nat
  BY <1>2, SharesForType
<1>. QED
  BY <1>1, <1>3, <1>4, <1>5 DEF Numbers

\* Reserve shares are redeemed and wrapper shares burned.
LEMMA BurnNumbers ==
  ASSUME Numbers, NEW r \in ReserveState, NEW k \in Nat, NEW n \in Nat, NEW u \in Nat,
         n <= strategy.total_user_shares, k <= shareVault,
         reserve' = r, shareVault' = shareVault - k, now' = now,
         strategy' = Yielding!SharesBurned(Yielding!FreshStrategy, n, u)
  PROVE  Numbers'
<1>. DEFINE st == Yielding!FreshStrategy
<1>1. st \in Sound /\ n <= st.total_user_shares /\ strategy' = SharesBurned(st, n, u)
  BY FreshNumbers, SameConversions
<1>. HIDE DEF st
<1>2. strategy' \in Sound
  BY <1>1, SharesBurnedType
<1>. QED
  BY <1>2 DEF Numbers

\* opt_out_yield redeems reserve shares and burns wrapper shares.
LEMMA OptOutNumbers ==
  ASSUME Numbers, NEW n \in Nat, NEW p, Yielding!OptOutYield(p, n)
  PROVE  /\ Numbers'
         /\ Yielding!CusdcToUsdc(
               Yielding!UsdcToCusdc(Yielding!SharesToUsdc(Yielding!FreshStrategy, n), Yielding!FreshReserve),
               Yielding!FreshReserve) \in Nat
<1>. DEFINE r == Yielding!FreshReserve
            owed == Yielding!SharesToUsdc(Yielding!FreshStrategy, n)
            cusdc == Yielding!UsdcToCusdc(owed, r)
            received == Yielding!CusdcToUsdc(cusdc, r)
<1>1. /\ Yielding!CanUsdcToCusdc(owed, r) /\ cusdc <= shareVault
      /\ Yielding!CanRedeem(r, cusdc) /\ n <= strategy.total_user_shares
      /\ reserve' = Yielding!Redeemed(r, cusdc) /\ shareVault' = shareVault - cusdc
      /\ strategy' = Yielding!SharesBurned(Yielding!FreshStrategy, n, received)
      /\ now' = now
  BY DEF Yielding!OptOutYield
<1>2. owed \in Nat
  BY ConvertedNumbers
<1>. HIDE DEF owed
<1>3. cusdc \in Nat
  BY <1>1, <1>2, ConvertedNumbers
<1>. HIDE DEF cusdc
<1>4. received \in Nat
  BY <1>3, ConvertedNumbers
<1>5. reserve' \in ReserveState
  BY <1>1, <1>3, FreshNumbers, SameConversions, RedeemedType
<1>. HIDE DEF received
<1>6. Numbers'
  BY <1>1, <1>3, <1>4, <1>5, BurnNumbers
<1>. QED
  BY <1>4, <1>6 DEF received, cusdc, owed

\* claim_protocol_yield_fee redeems the protocol's cut.
LEMMA ClaimNumbers ==
  ASSUME Numbers, NEW n \in Nat, Yielding!ClaimProtocolYieldFee(n)
  PROVE  Numbers'
<1>. DEFINE r == Yielding!FreshReserve
            st == Yielding!FreshStrategy
            cusdc == Yielding!UsdcToCusdc(n, r)
            burned == SharesBurned(st, 0, n)
<1>1. /\ Yielding!CanUsdcToCusdc(n, r) /\ cusdc <= shareVault
      /\ n <= st.protocol_owed_underlying
      /\ Yielding!CanRedeem(r, cusdc)
      /\ reserve' = Yielding!Redeemed(r, cusdc) /\ shareVault' = shareVault - cusdc
      /\ strategy' = [burned EXCEPT !.protocol_owed_underlying = @ - n]
      /\ now' = now
  BY SameConversions DEF Yielding!ClaimProtocolYieldFee, Yielding!vars
<1>2. cusdc \in Nat
  BY <1>1, ConvertedNumbers
<1>. HIDE DEF cusdc
<1>3. reserve' \in ReserveState
  BY <1>1, <1>2, FreshNumbers, SameConversions, RedeemedType
<1>4. st \in Sound
  BY FreshNumbers
<1>. HIDE DEF r, st
<1>5. 0 <= st.total_user_shares /\ st.protocol_owed_underlying \in Nat
  BY <1>4, StrategyTypes
<1>6. burned \in Sound /\ burned.protocol_owed_underlying = st.protocol_owed_underlying
  BY <1>4, <1>5, SharesBurnedType
<1>. HIDE DEF burned
<1>7. burned.protocol_owed_underlying - n \in Nat
  BY <1>1, <1>5, <1>6
<1>8. strategy' \in Sound
  <2>1. burned \in StrategyState /\ burned.user_index >= IndexOne
    BY <1>6, StrategyTypes
  <2>. DEFINE x == burned.protocol_owed_underlying - n
  <2>2. x \in Nat /\ strategy' = [burned EXCEPT !.protocol_owed_underlying = x]
    BY <1>1, <1>7
  <2>. HIDE DEF x
  <2>3. strategy' \in StrategyState /\ strategy'.user_index = burned.user_index
    BY <2>1, <2>2, Zenon DEF StrategyState
  <2>. QED
    BY <2>1, <2>3 DEF Sound
<1>. QED
  BY <1>1, <1>2, <1>3, <1>8 DEF Numbers

\* The shares of a withdrawal are redeemed in two parts, the payout and the fee.
LEMMA CashNumbers ==
  ASSUME Numbers, NEW p \in Participants, EntryOK(slot[<<p, Wrapper>>]), Yielding!CashWithdrawal(p)
  PROVE  Numbers'
<1>. DEFINE r == Yielding!FreshReserve
            shares == slot[<<p, Wrapper>>].withdrawing_balance
            gross == Yielding!SharesToUsdc(Yielding!FreshStrategy, shares)
            fee == Yielding!WithdrawalFee(Wrapper, gross)
            net == Yielding!UsdcToCusdc(gross - fee, r)
            cut == Yielding!UsdcToCusdc(fee, r)
            netPaid == Yielding!RedeemPart(r, net)
<1>1. /\ Yielding!ScaledMinFee(Wrapper) \in 0 .. MaxU64
      /\ Yielding!CanUsdcToCusdc(gross - fee, r) /\ Yielding!CanUsdcToCusdc(fee, r)
      /\ net + cut <= shareVault
      /\ Yielding!CanRedeemPart(r, net) /\ Yielding!CanRedeemPart(netPaid, cut)
      /\ shares <= strategy.total_user_shares
      /\ reserve' = Yielding!RedeemPart(netPaid, cut)
      /\ shareVault' = shareVault - net - cut
      /\ strategy' = Yielding!SharesBurned(Yielding!FreshStrategy, shares, gross)
      /\ now' = now
  BY DEF Yielding!CashWithdrawal
<1>2. shares \in Nat
  BY DEF EntryOK
<1>. HIDE DEF shares
<1>3. gross \in Nat
  BY <1>2, ConvertedNumbers
<1>. HIDE DEF gross
<1>4. fee \in Nat /\ gross - fee \in Nat
  <2>1. Yielding!ScaledMinFee(Wrapper) = ScaledMinFee(Wrapper)
    BY DEF Yielding!ScaledMinFee, ScaledMinFee, Yielding!Greater, Greater
  <2>2. fee = WithdrawalFee(Wrapper, gross)
    BY <2>1 DEF Yielding!WithdrawalFee, WithdrawalFee, Yielding!Lesser, Lesser, Yielding!Greater, Greater
  <2>. QED
    BY <1>1, <1>3, <2>1, <2>2, FeeIsPart
<1>. HIDE DEF fee
<1>5. net \in Nat /\ cut \in Nat
  BY <1>1, <1>4, ConvertedNumbers
<1>. HIDE DEF net, cut
<1>6. ASSUME NEW x \in ReserveState, NEW k \in Nat, Yielding!CanRedeemPart(x, k)
      PROVE  Yielding!RedeemPart(x, k) \in ReserveState
  <2>1. CASE k > 0
    <3>1. CanRedeem(x, k) /\ Yielding!RedeemPart(x, k) = Redeemed(x, k)
      BY <1>6, <2>1, SameConversions DEF Yielding!CanRedeemPart, Yielding!RedeemPart
    <3>. QED
      BY <3>1, RedeemedType
  <2>2. CASE ~(k > 0)
    BY <2>2 DEF Yielding!RedeemPart
  <2>. QED
    BY <2>1, <2>2
<1>7. netPaid \in ReserveState
  BY <1>1, <1>5, <1>6, FreshNumbers
<1>. HIDE DEF netPaid, r
<1>8. reserve' \in ReserveState
  BY <1>1, <1>5, <1>6, <1>7
<1>9. /\ net + cut \in Nat /\ shareVault' = shareVault - (net + cut)
  BY <1>1, <1>5 DEF Numbers
<1>. DEFINE k == net + cut
<1>10. k \in Nat /\ k <= shareVault /\ shareVault' = shareVault - k
  BY <1>1, <1>9
<1>. HIDE DEF k
<1>. QED
  BY <1>1, <1>2, <1>3, <1>8, <1>10, BurnNumbers


-----------------------------------------------------------------------------
(***************************************************************************)
(* The users' entries.                                                     *)
(***************************************************************************)
\* What the writes of a transaction make of an entry.
LEMMA WrittenEntries ==
  ASSUME NEW e, EntryOK(e), NEW n \in Nat
  PROVE  /\ EntryOK(Yielding!Credit(e, n))
         /\ Yielding!Credit(e, n).withdrawing_balance \in {0, e.withdrawing_balance}
         /\ Yielding!Credit(e, n).available_balance \in {n, e.available_balance + n}
         /\ n <= e.available_balance => EntryOK(Yielding!DebitAvailable(e, n))
         /\ Yielding!DebitAvailable(e, n).available_balance = e.available_balance - n
         /\ Yielding!DebitAvailable(e, n).withdrawing_balance = e.withdrawing_balance
         /\ EntryOK(Yielding!ClearWithdrawal(e))
         /\ Yielding!ClearWithdrawal(e).available_balance = e.available_balance
         /\ Yielding!ClearWithdrawal(e).withdrawing_balance = 0
<1>1. /\ EntryOK(Yielding!Credit(e, n))
      /\ Yielding!Credit(e, n).withdrawing_balance \in {0, e.withdrawing_balance}
      /\ Yielding!Credit(e, n).available_balance \in {n, e.available_balance + n}
  <2>1. CASE e.initialized
    BY <2>1 DEF EntryOK, Yielding!Credit, Yielding!FindOrCreate
  <2>2. CASE ~e.initialized
    BY <2>2 DEF EntryOK, Yielding!Credit, Yielding!FindOrCreate, Yielding!EmptyEntry
  <2>. QED
    BY <2>1, <2>2
<1>2. /\ n <= e.available_balance => EntryOK(Yielding!DebitAvailable(e, n))
      /\ Yielding!DebitAvailable(e, n).available_balance = e.available_balance - n
      /\ Yielding!DebitAvailable(e, n).withdrawing_balance = e.withdrawing_balance
  BY DEF EntryOK, Yielding!DebitAvailable
<1>3. /\ EntryOK(Yielding!ClearWithdrawal(e))
      /\ Yielding!ClearWithdrawal(e).available_balance = e.available_balance
      /\ Yielding!ClearWithdrawal(e).withdrawing_balance = 0
  BY DEF EntryOK, Yielding!ClearWithdrawal
<1>. QED
  BY <1>1, <1>2, <1>3

\* What a withdrawal request makes of an entry.
LEMMA RequestedEntry ==
  ASSUME NEW e, EntryOK(e), NEW n \in Nat, n <= e.available_balance, NEW d, NEW x
  PROVE  /\ EntryOK(Yielding!InitiateWithdrawal(e, n, d, x))
         /\ Yielding!InitiateWithdrawal(e, n, d, x).available_balance = e.available_balance - n
<1>. QED
  BY DEF EntryOK, Yielding!InitiateWithdrawal

\* One entry or two entries of a user are written.
LEMMA OneEntryMoves ==
  ASSUME Entries, NEW x \in Owned, NEW e, EntryOK(e), slot' = [slot EXCEPT ![x] = e]
  PROVE  Entries' /\ slot'[x] = e /\ \A y \in Owned : y # x => slot'[y] = slot[y]
<1>. QED
  BY DEF Entries

BothWritten(x, e, z, f) == slot' = [slot EXCEPT ![x] = e, ![z] = f]

\* Writing both entries of a user leaves those of others alone.
LEMMA TwoEntriesMoved ==
  ASSUME Entries, NEW x \in Owned, NEW z \in Owned, x # z,
         NEW e, EntryOK(e), NEW f, EntryOK(f), BothWritten(x, e, z, f)
  PROVE  /\ Entries' /\ slot'[x] = e /\ slot'[z] = f
         /\ \A y \in Owned : y # x /\ y # z => slot'[y] = slot[y]
<1>. QED
  BY DEF Entries, BothWritten

\* What a transaction of the plan makes of its user's entries.
Awaited(tx) == tx.user \in Participants /\ tx.amount \in Nat \ {0}

Effect(tx) ==
  LET u == tx.user
      Plainly(free) == Free(u, Plain)' = free /\ Leaving(u, Plain)' = Leaving(u, Plain)
  IN  /\ tx.op \in {"buffer", "accrue", "apy", "claim"} => slot' = slot
      /\ tx.op \in {"depositYield", "request", "execute"} => Plainly(Free(u, Plain))
      /\ tx.op \in {"optIn", "backIn"} => Plainly(Free(u, Plain) - tx.amount)
      /\ tx.op \in {"deposit", "optOut"} => Leaving(u, Plain)' \in {0, Leaving(u, Plain)}
      /\ tx.op = "deposit" =>
           /\ Free(u, Plain)' \in {tx.amount, Free(u, Plain) + tx.amount}
           /\ slot'[<<u, Wrapper>>] = slot[<<u, Wrapper>>]
      /\ tx.op \in {"depositYield", "optIn", "backIn", "optOut"} =>
           Leaving(u, Wrapper)' \in {0, Leaving(u, Wrapper)}
      /\ tx.op = "request" => Free(u, Wrapper)' = Free(u, Wrapper) - tx.amount
      /\ tx.op = "execute" => Leaving(u, Wrapper)' = 0 /\ Free(u, Wrapper)' = Free(u, Wrapper)

OthersKeep(tx) == \A x \in Owned : x[1] # tx.user => slot'[x] = slot[x]

\* A participant's plain and wrapper entries are two of the entries at hand.
LEMMA OwnedAccounts ==
  ASSUME NEW u \in Participants
  PROVE  /\ <<u, Plain>> \in Owned /\ <<u, Wrapper>> \in Owned /\ <<u, Plain>> # <<u, Wrapper>>
         /\ <<u, Plain>>[1] = u /\ <<u, Wrapper>>[1] = u
<1>. QED
  BY YieldAssumption DEF Owned

\* Transactions that move the reserve only.
LEMMA ReserveTransactions ==
  ASSUME Numbers, Entries, NEW tx, Awaited(tx),
         \/ tx.op = "buffer" /\ Yielding!FillBuffer(tx.amount)
         \/ tx.op = "accrue" /\ Yielding!AccrueYield
         \/ tx.op = "apy" /\ Yielding!UpdateApyBps(2)
         \/ tx.op = "claim" /\ Yielding!ClaimProtocolYieldFee(tx.amount)
  PROVE  Numbers' /\ Entries' /\ OthersKeep(tx) /\ Effect(tx)
<1>1. slot' = slot /\ now' = now
  BY DEF Yielding!FillBuffer, Yielding!AccrueYield, Yielding!UpdateApyBps,
     Yielding!ClaimProtocolYieldFee, Yielding!vars, Yielding!balanceVars
<1>2. Entries' /\ OthersKeep(tx)
  BY <1>1 DEF Entries, OthersKeep
<1>3. Effect(tx)
  BY <1>1 DEF Effect
<1>4. Numbers'
  <2>1. CASE Yielding!FillBuffer(tx.amount)
    <3>1. /\ reserve' = [reserve EXCEPT !.liquidity = @ + tx.amount]
          /\ UNCHANGED <<strategy, shareVault>>
      BY <2>1 DEF Yielding!FillBuffer
    <3>. DEFINE x == reserve.liquidity + tx.amount
    <3>2. x \in Nat /\ reserve' = [reserve EXCEPT !.liquidity = x]
      BY <3>1, ReserveTypes DEF Numbers, Awaited
    <3>. HIDE DEF x
    <3>3. reserve' \in ReserveState
      BY <3>2, Zenon DEF Numbers, ReserveState
    <3>. QED
      BY <1>1, <3>1, <3>3 DEF Numbers
  <2>2. CASE Yielding!AccrueYield
    <3>1. /\ reserve' = Yielding!FreshReserve /\ strategy' = Yielding!FreshStrategy
          /\ shareVault' = shareVault
      BY <2>2 DEF Yielding!AccrueYield
    <3>. QED
      BY <1>1, <3>1, FreshNumbers DEF Numbers
  <2>3. CASE Yielding!UpdateApyBps(2)
    <3>. DEFINE r == Accrued(reserve, now)
    <3>1. /\ 2 <= MaxApyBps /\ reserve' = [r EXCEPT !.apy_bps = 2]
          /\ UNCHANGED <<strategy, shareVault>>
      BY <2>3, SameConversions
         DEF Yielding!UpdateApyBps, Yielding!CanUpdateApy, Yielding!UpdatedApy
    <3>2. r \in ReserveState /\ 2 \in 0 .. MaxApyBps
      BY <3>1, AccruedType, InterestAssumption DEF Numbers
    <3>. HIDE DEF r
    <3>3. reserve' \in ReserveState
      BY <3>1, <3>2, Zenon DEF ReserveState
    <3>. QED
      BY <1>1, <3>1, <3>3 DEF Numbers
  <2>4. CASE Yielding!ClaimProtocolYieldFee(tx.amount)
    BY <2>4, ClaimNumbers DEF Awaited
  <2>. QED
    BY <2>1, <2>2, <2>3, <2>4
<1>. QED
  BY <1>1, <1>2, <1>3, <1>4

\* Transactions that bring tokens and shares into a user's entries.
LEMMA DepositTransactions ==
  ASSUME Numbers, Entries, NEW tx, Awaited(tx),
         \/ tx.op = "depositYield" /\ Yielding!DepositYieldBearing(tx.user, tx.amount)
         \/ tx.op = "deposit" /\ Yielding!Deposit(tx.user, Plain, tx.amount) /\ UNCHANGED Yielding!yieldVars
  PROVE  Numbers' /\ Entries' /\ OthersKeep(tx) /\ Effect(tx)
<1>. DEFINE u == tx.user
            n == tx.amount
<1>1. /\ <<u, Plain>> \in Owned /\ <<u, Wrapper>> \in Owned /\ <<u, Plain>> # <<u, Wrapper>>
      /\ <<u, Plain>>[1] = u /\ <<u, Wrapper>>[1] = u /\ n \in Nat
      /\ EntryOK(slot[<<u, Plain>>]) /\ EntryOK(slot[<<u, Wrapper>>])
  BY OwnedAccounts DEF Awaited, Entries
<1>2. CASE tx.op = "depositYield" /\ Yielding!DepositYieldBearing(u, n)
  <2>. DEFINE shares == Yielding!UsdcToShares(Yielding!FreshStrategy, n)
              e == Yielding!Credit(slot[<<u, Wrapper>>], shares)
  <2>1. /\ slot' = [slot EXCEPT ![<<u, Wrapper>>] = e] /\ now' = now /\ Yielding!Mint(u, n)
    BY <1>2 DEF Yielding!DepositYieldBearing
  <2>2. shares \in Nat /\ Numbers'
    BY <1>1, <2>1, ConvertedNumbers, MintNumbers
  <2>. HIDE DEF shares
  <2>3. EntryOK(e) /\ e.withdrawing_balance \in {0, Leaving(u, Wrapper)}
    BY <1>1, <2>2, WrittenEntries DEF Leaving
  <2>. HIDE DEF e
  <2>4. Entries' /\ slot'[<<u, Wrapper>>] = e /\ \A y \in Owned : y # <<u, Wrapper>> => slot'[y] = slot[y]
    BY <1>1, <2>1, <2>3, OneEntryMoves
  <2>5. OthersKeep(tx)
    BY <1>1, <2>4 DEF OthersKeep
  <2>6. Effect(tx)
    BY <1>1, <1>2, <2>3, <2>4 DEF Effect, Free, Leaving
  <2>. QED
    BY <2>2, <2>4, <2>5, <2>6
<1>3. CASE tx.op = "deposit" /\ Yielding!Deposit(u, Plain, n) /\ UNCHANGED Yielding!yieldVars
  <2>. DEFINE e == Yielding!Credit(slot[<<u, Plain>>], n)
  <2>1. /\ slot' = [slot EXCEPT ![<<u, Plain>>] = e]
        /\ now' = now /\ UNCHANGED <<strategy, shareVault, reserve>>
    BY <1>3 DEF Yielding!Deposit, Yielding!yieldVars
  <2>2. /\ EntryOK(e) /\ e.withdrawing_balance \in {0, Leaving(u, Plain)}
        /\ e.available_balance \in {n, Free(u, Plain) + n}
    BY <1>1, WrittenEntries DEF Leaving, Free
  <2>. HIDE DEF e
  <2>3. Entries' /\ slot'[<<u, Plain>>] = e /\ \A y \in Owned : y # <<u, Plain>> => slot'[y] = slot[y]
    BY <1>1, <2>1, <2>2, OneEntryMoves
  <2>4. Numbers'
    BY <2>1 DEF Numbers
  <2>5. OthersKeep(tx)
    BY <1>1, <2>3 DEF OthersKeep
  <2>6. Effect(tx)
    BY <1>1, <1>3, <2>2, <2>3 DEF Effect, Free, Leaving
  <2>. QED
    BY <2>3, <2>4, <2>5, <2>6
<1>. QED
  BY <1>2, <1>3

\* Transactions between the two entries of a user.
LEMMA ConversionTransactions ==
  ASSUME Numbers, Entries, NEW tx, Awaited(tx),
         \/ tx.op \in {"optIn", "backIn"} /\ Yielding!OptInYield(tx.user, tx.amount)
         \/ tx.op = "optOut" /\ Yielding!OptOutYield(tx.user, tx.amount)
  PROVE  Numbers' /\ Entries' /\ OthersKeep(tx) /\ Effect(tx)
<1>. DEFINE u == tx.user
            n == tx.amount
<1>1. /\ <<u, Plain>> \in Owned /\ <<u, Wrapper>> \in Owned /\ <<u, Plain>> # <<u, Wrapper>>
      /\ <<u, Plain>>[1] = u /\ <<u, Wrapper>>[1] = u /\ n \in Nat
      /\ EntryOK(slot[<<u, Plain>>]) /\ EntryOK(slot[<<u, Wrapper>>])
  BY OwnedAccounts DEF Awaited, Entries
<1>2. CASE tx.op \in {"optIn", "backIn"} /\ Yielding!OptInYield(u, n)
  <2>. DEFINE shares == Yielding!UsdcToShares(Yielding!FreshStrategy, n)
              e == Yielding!Credit(slot[<<u, Wrapper>>], shares)
              f == Yielding!DebitAvailable(slot[<<u, Plain>>], n)
  <2>1. /\ slot' = [slot EXCEPT ![<<u, Wrapper>>] = e, ![<<u, Plain>>] = f]
        /\ now' = now /\ Yielding!Mint(u, n) /\ n <= Free(u, Plain)
    BY <1>1, <1>2 DEF Yielding!OptInYield, Yielding!CanDebitAvailable, Free, EntryOK
  <2>2. shares \in Nat /\ Numbers'
    BY <1>1, <2>1, ConvertedNumbers, MintNumbers
  <2>. HIDE DEF shares
  <2>3. EntryOK(e) /\ e.withdrawing_balance \in {0, Leaving(u, Wrapper)}
    BY <1>1, <2>2, WrittenEntries DEF Leaving
  <2>4. /\ EntryOK(f) /\ f.available_balance = Free(u, Plain) - n
        /\ f.withdrawing_balance = Leaving(u, Plain)
    BY <1>1, <2>1, WrittenEntries DEF Leaving, Free
  <2>. HIDE DEF e, f
  <2>5. /\ Entries' /\ slot'[<<u, Wrapper>>] = e /\ slot'[<<u, Plain>>] = f
        /\ \A y \in Owned : y # <<u, Wrapper>> /\ y # <<u, Plain>> => slot'[y] = slot[y]
    <3>. DEFINE x == <<u, Wrapper>>
                z == <<u, Plain>>
    <3>1. x \in Owned /\ z \in Owned /\ x # z
      BY <1>1
    <3>2. BothWritten(x, e, z, f)
      BY <2>1, Zenon DEF BothWritten
    <3>. HIDE DEF x, z
    <3>3. Entries' /\ slot'[x] = e /\ slot'[z] = f /\ \A y \in Owned : y # x /\ y # z => slot'[y] = slot[y]
      BY <2>3, <2>4, <3>1, <3>2, TwoEntriesMoved
    <3>. QED
      BY <3>3 DEF x, z
  <2>6. OthersKeep(tx)
    BY <1>1, <2>5 DEF OthersKeep
  <2>7. Effect(tx)
    BY <1>1, <1>2, <2>3, <2>4, <2>5 DEF Effect, Free, Leaving
  <2>. QED
    BY <2>2, <2>5, <2>6, <2>7
<1>3. CASE tx.op = "optOut" /\ Yielding!OptOutYield(u, n)
  <2>. DEFINE received == Yielding!CusdcToUsdc(
                Yielding!UsdcToCusdc(Yielding!SharesToUsdc(Yielding!FreshStrategy, n), Yielding!FreshReserve),
                Yielding!FreshReserve)
              e == Yielding!DebitAvailable(slot[<<u, Wrapper>>], n)
              f == Yielding!Credit(slot[<<u, Plain>>], received)
  <2>1. /\ slot' = [slot EXCEPT ![<<u, Wrapper>>] = e, ![<<u, Plain>>] = f]
        /\ now' = now /\ n <= Free(u, Wrapper)
    BY <1>1, <1>3 DEF Yielding!OptOutYield, Yielding!CanDebitAvailable, Free, EntryOK
  <2>2. received \in Nat /\ Numbers'
    BY <1>1, <1>3, OptOutNumbers
  <2>. HIDE DEF received
  <2>3. EntryOK(f) /\ f.withdrawing_balance \in {0, Leaving(u, Plain)}
    BY <1>1, <2>2, WrittenEntries DEF Leaving
  <2>4. EntryOK(e) /\ e.withdrawing_balance = Leaving(u, Wrapper)
    BY <1>1, <2>1, WrittenEntries DEF Leaving, Free
  <2>. HIDE DEF e, f
  <2>5. /\ Entries' /\ slot'[<<u, Wrapper>>] = e /\ slot'[<<u, Plain>>] = f
        /\ \A y \in Owned : y # <<u, Wrapper>> /\ y # <<u, Plain>> => slot'[y] = slot[y]
    <3>. DEFINE x == <<u, Wrapper>>
                z == <<u, Plain>>
    <3>1. x \in Owned /\ z \in Owned /\ x # z
      BY <1>1
    <3>2. BothWritten(x, e, z, f)
      BY <2>1, Zenon DEF BothWritten
    <3>. HIDE DEF x, z
    <3>3. Entries' /\ slot'[x] = e /\ slot'[z] = f /\ \A y \in Owned : y # x /\ y # z => slot'[y] = slot[y]
      BY <2>3, <2>4, <3>1, <3>2, TwoEntriesMoved
    <3>. QED
      BY <3>3 DEF x, z
  <2>6. OthersKeep(tx)
    BY <1>1, <2>5 DEF OthersKeep
  <2>7. Effect(tx)
    BY <1>1, <1>3, <2>3, <2>4, <2>5 DEF Effect, Free, Leaving
  <2>. QED
    BY <2>2, <2>5, <2>6, <2>7
<1>. QED
  BY <1>2, <1>3

\* Transactions that take a user's shares out.
LEMMA WithdrawalTransactions ==
  ASSUME Numbers, Entries, NEW tx, Awaited(tx),
         \/ tx.op = "request" /\ Yielding!RequestWithdrawalYieldBearing(tx.user, tx.amount, tx.user)
         \/ tx.op = "execute" /\ Yielding!ExecuteWithdrawalYieldBearing(tx.user)
  PROVE  Numbers' /\ Entries' /\ OthersKeep(tx) /\ Effect(tx)
<1>. DEFINE u == tx.user
            n == tx.amount
            own == <<u, Wrapper>>
<1>1. /\ <<u, Plain>> \in Owned /\ own \in Owned /\ <<u, Plain>> # own
      /\ <<u, Plain>>[1] = u /\ own[1] = u /\ n \in Nat
      /\ EntryOK(slot[<<u, Plain>>]) /\ EntryOK(slot[own])
  BY OwnedAccounts DEF Awaited, Entries
<1>2. CASE tx.op = "request" /\ Yielding!RequestWithdrawalYieldBearing(u, n, u)
  <2>. DEFINE e == Yielding!InitiateWithdrawal(slot[own], n, u, now + WithdrawalTimelock)
  <2>1. /\ slot' = [slot EXCEPT ![own] = e] /\ UNCHANGED <<now, strategy, shareVault, reserve>>
        /\ n <= Free(u, Wrapper)
    BY <1>1, <1>2 DEF Yielding!RequestWithdrawalYieldBearing, Yielding!CanInitiateWithdrawal,
       Yielding!yieldVars, Free, EntryOK
  <2>2. EntryOK(e) /\ e.available_balance = Free(u, Wrapper) - n
    BY <1>1, <2>1, RequestedEntry DEF Free
  <2>. HIDE DEF e
  <2>3. Entries' /\ slot'[own] = e /\ \A y \in Owned : y # own => slot'[y] = slot[y]
    BY <1>1, <2>1, <2>2, OneEntryMoves
  <2>4. Numbers'
    BY <2>1 DEF Numbers
  <2>5. OthersKeep(tx)
    BY <1>1, <2>3 DEF OthersKeep
  <2>6. Effect(tx)
    BY <1>1, <1>2, <2>2, <2>3 DEF Effect, Free, Leaving
  <2>. QED
    BY <2>3, <2>4, <2>5, <2>6
<1>3. CASE tx.op = "execute" /\ Yielding!ExecuteWithdrawalYieldBearing(u)
  <2>. DEFINE e == Yielding!ClearWithdrawal(slot[own])
  <2>1. slot' = [slot EXCEPT ![own] = e] /\ Numbers'
    <3>1. CASE Yielding!ClearDrainedWithdrawal(u)
      <4>1. /\ slot' = [slot EXCEPT ![own] = e] /\ UNCHANGED <<now, shareVault>>
            /\ reserve' = Yielding!FreshReserve /\ strategy' = Yielding!FreshStrategy
        BY <3>1 DEF Yielding!ClearDrainedWithdrawal
      <4>. QED
        BY <4>1, FreshNumbers DEF Numbers
    <3>2. CASE Yielding!CashWithdrawal(u)
      <4>1. slot' = [slot EXCEPT ![own] = e]
        BY <3>2 DEF Yielding!CashWithdrawal
      <4>2. Numbers'
        BY <1>1, <3>2, CashNumbers DEF Awaited
      <4>. QED
        BY <4>1, <4>2
    <3>. QED
      BY <1>3, <3>1, <3>2 DEF Yielding!ExecuteWithdrawalYieldBearing
  <2>2. /\ EntryOK(e) /\ e.available_balance = Free(u, Wrapper) /\ e.withdrawing_balance = 0
    BY <1>1, WrittenEntries DEF Free
  <2>. HIDE DEF e
  <2>3. Entries' /\ slot'[own] = e /\ \A y \in Owned : y # own => slot'[y] = slot[y]
    BY <1>1, <2>1, <2>2, OneEntryMoves
  <2>4. OthersKeep(tx)
    BY <1>1, <2>3 DEF OthersKeep
  <2>5. Effect(tx)
    BY <1>1, <1>3, <2>2, <2>3 DEF Effect, Free, Leaving
  <2>. QED
    BY <2>1, <2>3, <2>4, <2>5
<1>. QED
  BY <1>2, <1>3

\* Any transaction of the plan.
LEMMA TransactionMoves ==
  ASSUME Numbers, Entries, NEW tx, Awaited(tx), Yielding!Execute(tx)
  PROVE  Numbers' /\ Entries' /\ OthersKeep(tx) /\ Effect(tx)
<1>. QED
  BY ReserveTransactions, DepositTransactions, ConversionTransactions, WithdrawalTransactions
     DEF Yielding!Execute

-----------------------------------------------------------------------------
(***************************************************************************)
(* The steps of the yield demo.                                            *)
(***************************************************************************)
\* The users are distinct participants.
LEMMA DemoUsers ==
  /\ DOMAIN TwoRuns = 1 .. Len(TwoRuns) /\ Len(TwoRuns) = 2
  /\ \A r \in DOMAIN TwoRuns : \A i \in 1 .. 2 : TwoRuns[r][i] \in Participants
  /\ \A r, t \in DOMAIN TwoRuns : \A i, j \in 1 .. 2 :
       TwoRuns[r][i] = TwoRuns[t][j] => r = t /\ i = j
<1>1. /\ TwoRuns \in Seq(Participants \X Participants)
      /\ \A r, t \in DOMAIN TwoRuns : \A i, j \in 1 .. 2 :
           TwoRuns[r][i] = TwoRuns[t][j] => r = t /\ i = j
  BY YieldDemoAssumption DEF Yielding!DemoAssumption
<1>2. Len(TwoRuns) = 2
  BY DEF TwoRuns
<1>3. \A r \in DOMAIN TwoRuns : TwoRuns[r] \in Participants \X Participants
  BY <1>1
<1>4. \A r \in DOMAIN TwoRuns : TwoRuns[r][1] \in Participants /\ TwoRuns[r][2] \in Participants
  BY <1>3
<1>. QED
  BY <1>1, <1>2, <1>4

\* The plan, step by step.
LEMMA PlanOfYield ==
  /\ Len(Yielding!Plan) = 14
  /\ \A i \in 1 .. 14 : Yielding!Plan[i].user \in 1 .. 2
  /\ Yielding!Plan[1].op = "buffer" /\ Yielding!Plan[2].op = "depositYield"
  /\ Yielding!Plan[3].op = "deposit" /\ Yielding!Plan[4].op = "optIn"
  /\ Yielding!Plan[5].op = "accrue" /\ Yielding!Plan[6].op = "apy"
  /\ Yielding!Plan[7].op = "accrue" /\ Yielding!Plan[8].op = "optOut"
  /\ Yielding!Plan[9].op = "backIn" /\ Yielding!Plan[10].op = "claim"
  /\ Yielding!Plan[11].op = "request" /\ Yielding!Plan[12].op = "execute"
  /\ Yielding!Plan[13].op = "request" /\ Yielding!Plan[14].op = "execute"
  /\ \A i \in {2, 11, 12} : Yielding!Plan[i].user = 1
  /\ \A i \in {3, 4, 8, 9, 13, 14} : Yielding!Plan[i].user = 2
<1>. QED
  BY DEF Yielding!Plan, Yielding!Do

\* A transaction of a run is one of its users'.
LEMMA AwaitedTransactions ==
  ASSUME YieldInvariant, NEW tx \in waiting
  PROVE  Awaited(tx) /\ \E i \in 1 .. 2 : tx.user = TwoRuns[run][i]
<1>1. /\ place \in 1 .. 14 /\ run \in DOMAIN TwoRuns
      /\ tx.user = TwoRuns[run][Yielding!Plan[place].user] /\ tx.amount \in Nat \ {0}
  BY PlanOfYield DEF YieldInvariant, AwaitedIsCurrent, Yielding!Finished
<1>2. Yielding!Plan[place].user \in 1 .. 2
  BY <1>1, PlanOfYield
<1>. QED
  BY <1>1, <1>2, DemoUsers DEF Awaited

\* What the steps send.
LEMMA PlanAmounts ==
  ASSUME NEW u
  PROVE  /\ Yielding!Amount("buffer", u) = Yielding!BufferMissing
         /\ \A op \in {"depositYield", "deposit", "optIn"} : Yielding!Amount(op, u) = 32
         /\ Yielding!Amount("optOut", u) = Free(u, Wrapper) \div 4
         /\ Yielding!Amount("backIn", u) = Free(u, Plain)
         /\ Yielding!Amount("claim", u) = strategy.protocol_owed_underlying
         /\ Yielding!Amount("request", u) = Free(u, Wrapper)
         /\ Yielding!Amount("execute", u) = Leaving(u, Wrapper)
         /\ \A op \in {"accrue", "apy"} : Yielding!Amount(op, u) = 1
<1>. QED
  BY DEF Yielding!Amount, Yielding!Available, Free, Leaving

\* What a step reads to send is a number.
LEMMA AmountIsNumber ==
  ASSUME Numbers, Entries, NEW u \in Participants, NEW i \in 1 .. 14
  PROVE  Yielding!Amount(Yielding!Plan[i].op, u) \in Nat
<1>1. Free(u, Plain) \in Nat /\ Free(u, Wrapper) \in Nat /\ Leaving(u, Wrapper) \in Nat
  BY OwnedAccounts DEF Entries, EntryOK, Free, Leaving
<1>2. Yielding!BufferMissing \in Nat
  <2>1. reserve.liquidity \in Nat
    BY ReserveTypes DEF Numbers
  <2>. QED
    BY <2>1 DEF Yielding!BufferMissing
<1>3. strategy.protocol_owed_underlying \in Nat
  BY StrategyTypes DEF Numbers
<1>4. Free(u, Wrapper) \div 4 \in Nat
  BY <1>1
<1>. QED
  BY <1>1, <1>2, <1>3, <1>4, PlanAmounts, PlanOfYield

\* The balances that the positions are about.
LEMMA UsersBalances ==
  ASSUME YieldInvariant
  PROVE  LET a == TwoRuns[run][1]
             b == TwoRuns[run][2]
         IN  /\ a \in Participants /\ b \in Participants /\ a # b
             /\ \A u \in {a, b} : \A t \in {Plain, Wrapper} :
                  <<u, t>> \in Owned /\ Free(u, t) \in Nat /\ Leaving(u, t) \in Nat
<1>. QED
  BY DemoUsers DEF YieldInvariant, Entries, EntryOK, Free, Leaving, Owned

\* A step that has nothing to send is skipped.
LEMMA SkipKeepsPositions ==
  ASSUME YieldInvariant, place \in 1 .. 14, place' = place + 1, UNCHANGED <<slot, run>>,
         Yielding!Amount(Yielding!Plan[place].op, TwoRuns[run][Yielding!Plan[place].user]) = 0
  PROVE  Positions'
<1>. DEFINE a == TwoRuns[run][1]
            b == TwoRuns[run][2]
<1>1. /\ FirstUserAt(place, Free(a, Plain), Leaving(a, Plain), Free(a, Wrapper), Leaving(a, Wrapper))
      /\ SecondUserAt(place, Free(b, Plain), Leaving(b, Plain), Free(b, Wrapper), Leaving(b, Wrapper))
  BY DEF YieldInvariant, Positions
<1>2. /\ place \notin {2, 3, 4}
      /\ place = 9 => Free(b, Plain) = 0
      /\ place = 11 => Free(a, Wrapper) = 0
      /\ place = 12 => Leaving(a, Wrapper) = 0
      /\ place = 13 => Free(b, Wrapper) = 0
      /\ place = 14 => Leaving(b, Wrapper) = 0
  BY PlanAmounts, PlanOfYield
<1>3. FirstUserAt(place + 1, Free(a, Plain), Leaving(a, Plain), Free(a, Wrapper), Leaving(a, Wrapper))
  BY <1>1, <1>2 DEF FirstUserAt
<1>4. SecondUserAt(place + 1, Free(b, Plain), Leaving(b, Plain), Free(b, Wrapper), Leaving(b, Wrapper))
  BY <1>1, <1>2 DEF SecondUserAt
<1>. QED
  BY <1>3, <1>4 DEF Positions, Free, Leaving, FirstUserAt, SecondUserAt

\* The transaction of a step leaves the money where the next step looks for it.
LEMMA LandKeepsPositions ==
  ASSUME YieldInvariant, NEW tx \in waiting, Yielding!Execute(tx),
         NEW a, NEW b, a = TwoRuns[run][1], b = TwoRuns[run][2]
  PROVE  /\ FirstUserAt(place + 1, Free(a, Plain)', Leaving(a, Plain)', Free(a, Wrapper)', Leaving(a, Wrapper)')
         /\ SecondUserAt(place + 1, Free(b, Plain)', Leaving(b, Plain)', Free(b, Wrapper)', Leaving(b, Wrapper)')
<1>1. /\ FirstUserAt(place, Free(a, Plain), Leaving(a, Plain), Free(a, Wrapper), Leaving(a, Wrapper))
      /\ SecondUserAt(place, Free(b, Plain), Leaving(b, Plain), Free(b, Wrapper), Leaving(b, Wrapper))
  BY DEF YieldInvariant, Positions
<1>2. place \in 1 .. 14
  BY PlanOfYield DEF YieldInvariant, AwaitedIsCurrent, Yielding!Finished
<1>3. /\ tx.op = Yielding!Plan[place].op
      /\ place \in {2, 11, 12} => tx.user = a
      /\ place \in {3, 4, 8, 9, 13, 14} => tx.user = b
      /\ tx.amount = Yielding!Amount(tx.op, tx.user)
  BY PlanOfYield DEF YieldInvariant, AwaitedIsCurrent
<1>4. /\ a # b
      /\ \A u \in {a, b} : \A t \in {Plain, Wrapper} :
           <<u, t>> \in Owned /\ Free(u, t) \in Nat /\ Leaving(u, t) \in Nat
  BY UsersBalances
<1>5. OthersKeep(tx) /\ Effect(tx)
  BY AwaitedTransactions, TransactionMoves DEF YieldInvariant
<1>6. \A u \in {a, b} : \A t \in {Plain, Wrapper} :
        tx.user # u \/ slot' = slot => Free(u, t)' = Free(u, t) /\ Leaving(u, t)' = Leaving(u, t)
  BY <1>4, <1>5 DEF OthersKeep, Free, Leaving
<1>7. CASE place \in {1, 5, 6, 7, 10}
  <2>1. slot' = slot
    BY <1>3, <1>5, <1>7, PlanOfYield DEF Effect
  <2>. QED
    BY <1>1, <1>6, <1>7, <2>1 DEF FirstUserAt, SecondUserAt
<1>8. CASE place \in {2, 11, 12}
  <2>1. tx.user = a /\ tx.op \in {"depositYield", "request", "execute"}
    BY <1>3, <1>8, PlanOfYield
  <2>2. /\ Free(a, Plain)' = Free(a, Plain) /\ Leaving(a, Plain)' = Leaving(a, Plain)
        /\ \A t \in {Plain, Wrapper} : Free(b, t)' = Free(b, t) /\ Leaving(b, t)' = Leaving(b, t)
    BY <1>4, <1>5, <1>6, <2>1 DEF Effect
  <2>3. SecondUserAt(place + 1, Free(b, Plain)', Leaving(b, Plain)', Free(b, Wrapper)', Leaving(b, Wrapper)')
    BY <1>1, <1>8, <2>2 DEF SecondUserAt
  <2>4. /\ place = 2 => Leaving(a, Wrapper)' = 0
        /\ place = 11 => Free(a, Wrapper)' = 0
        /\ place = 12 => Leaving(a, Wrapper)' = 0 /\ Free(a, Wrapper)' = 0
    <3>1. place # 12 => Leaving(a, Wrapper) = 0
      BY <1>1 DEF FirstUserAt
    <3>2. place = 2 => Leaving(a, Wrapper)' \in {0, Leaving(a, Wrapper)}
      BY <1>3, <1>5, <2>1, PlanOfYield DEF Effect
    <3>3. place = 11 => Free(a, Wrapper)' = Free(a, Wrapper) - Free(a, Wrapper)
      BY <1>3, <1>5, <2>1, PlanOfYield, PlanAmounts DEF Effect
    <3>4. place = 12 => Leaving(a, Wrapper)' = 0 /\ Free(a, Wrapper)' = Free(a, Wrapper)
      BY <1>3, <1>5, <2>1, PlanOfYield DEF Effect
    <3>5. place = 12 => Free(a, Wrapper) = 0
      BY <1>1 DEF FirstUserAt
    <3>. QED
      BY <1>4, <3>1, <3>2, <3>3, <3>4, <3>5
  <2>5. FirstUserAt(place + 1, Free(a, Plain)', Leaving(a, Plain)', Free(a, Wrapper)', Leaving(a, Wrapper)')
    BY <1>1, <1>8, <2>2, <2>4 DEF FirstUserAt
  <2>. QED
    BY <2>3, <2>5
<1>9. CASE place \in {3, 4, 8, 9, 13, 14}
  <2>1. tx.user = b
    BY <1>3, <1>9
  <2>2. \A t \in {Plain, Wrapper} : Free(a, t)' = Free(a, t) /\ Leaving(a, t)' = Leaving(a, t)
    BY <1>4, <1>6, <2>1
  <2>3. FirstUserAt(place + 1, Free(a, Plain)', Leaving(a, Plain)', Free(a, Wrapper)', Leaving(a, Wrapper)')
    BY <1>1, <1>9, <2>2 DEF FirstUserAt
  <2>4. /\ Leaving(b, Plain) = 0
        /\ place # 14 => Leaving(b, Wrapper) = 0
        /\ place = 3 => Free(b, Plain) = 0
        /\ place \in {3, 14} => Free(b, Wrapper) = 0
        /\ place = 4 => Free(b, Plain) = 32
        /\ place \in {13, 14} => Free(b, Plain) = 0
    BY <1>1 DEF SecondUserAt
  <2>5. CASE place = 3
    <3>1. tx.op = "deposit" /\ tx.amount = 32
      BY <1>3, <2>5, PlanOfYield, PlanAmounts
    <3>2. /\ Leaving(b, Plain)' \in {0, Leaving(b, Plain)}
          /\ Free(b, Plain)' \in {32, Free(b, Plain) + 32}
          /\ Free(b, Wrapper)' = Free(b, Wrapper) /\ Leaving(b, Wrapper)' = Leaving(b, Wrapper)
      BY <1>5, <2>1, <3>1 DEF Effect, Free, Leaving
    <3>3. Leaving(b, Plain)' = 0 /\ Free(b, Plain)' = 32 /\ Free(b, Wrapper)' = 0 /\ Leaving(b, Wrapper)' = 0
      BY <2>4, <2>5, <3>2
    <3>. QED
      BY <2>3, <2>5, <3>3 DEF SecondUserAt
  <2>6. CASE place \in {4, 9}
    <3>1. /\ tx.op \in {"optIn", "backIn"}
          /\ place = 4 => tx.amount = 32
          /\ place = 9 => tx.amount = Free(b, Plain)
      BY <1>3, <2>1, <2>6, PlanOfYield, PlanAmounts
    <3>2. /\ Leaving(b, Plain)' = Leaving(b, Plain)
          /\ Free(b, Plain)' = Free(b, Plain) - tx.amount
          /\ Leaving(b, Wrapper)' \in {0, Leaving(b, Wrapper)}
      BY <1>5, <2>1, <3>1 DEF Effect
    <3>3. Free(b, Plain)' = 0
      BY <1>4, <2>4, <2>6, <3>1, <3>2
    <3>4. Leaving(b, Plain)' = 0 /\ Leaving(b, Wrapper)' = 0
      BY <2>4, <2>6, <3>2
    <3>. QED
      BY <2>3, <2>6, <3>3, <3>4 DEF SecondUserAt
  <2>7. CASE place = 8
    <3>1. tx.op = "optOut"
      BY <1>3, <2>7, PlanOfYield
    <3>2. Leaving(b, Plain)' \in {0, Leaving(b, Plain)} /\ Leaving(b, Wrapper)' \in {0, Leaving(b, Wrapper)}
      BY <1>5, <2>1, <3>1 DEF Effect
    <3>3. Leaving(b, Plain)' = 0 /\ Leaving(b, Wrapper)' = 0
      BY <2>4, <2>7, <3>2
    <3>. QED
      BY <2>3, <2>7, <3>3 DEF SecondUserAt
  <2>8. CASE place = 13
    <3>1. tx.op = "request" /\ tx.amount = Free(b, Wrapper)
      BY <1>3, <2>1, <2>8, PlanOfYield, PlanAmounts
    <3>2. /\ Leaving(b, Plain)' = Leaving(b, Plain) /\ Free(b, Plain)' = Free(b, Plain)
          /\ Free(b, Wrapper)' = Free(b, Wrapper) - Free(b, Wrapper)
      BY <1>5, <2>1, <3>1 DEF Effect
    <3>3. Leaving(b, Plain)' = 0 /\ Free(b, Plain)' = 0 /\ Free(b, Wrapper)' = 0
      BY <1>4, <2>4, <2>8, <3>2
    <3>. QED
      BY <2>3, <2>8, <3>3 DEF SecondUserAt
  <2>9. CASE place = 14
    <3>1. tx.op = "execute"
      BY <1>3, <2>9, PlanOfYield
    <3>2. /\ Leaving(b, Plain)' = Leaving(b, Plain) /\ Free(b, Plain)' = Free(b, Plain)
          /\ Leaving(b, Wrapper)' = 0 /\ Free(b, Wrapper)' = Free(b, Wrapper)
      BY <1>5, <2>1, <3>1 DEF Effect
    <3>3. /\ Leaving(b, Plain)' = 0 /\ Free(b, Plain)' = 0
          /\ Leaving(b, Wrapper)' = 0 /\ Free(b, Wrapper)' = 0
      BY <2>4, <2>9, <3>2
    <3>. QED
      BY <2>3, <2>9, <3>3 DEF SecondUserAt
  <2>. QED
    BY <1>9, <2>5, <2>6, <2>7, <2>8, <2>9
<1>. QED
  BY <1>2, <1>7, <1>8, <1>9

\* No transaction touches a user of a later run.
LEMMA LaterUsersWait ==
  ASSUME YieldInvariant, NEW tx \in waiting, Yielding!Execute(tx),
         NEW r \in DOMAIN TwoRuns, r > run, NEW i \in 1 .. 2, NEW t \in {Plain, Wrapper}
  PROVE  Free(TwoRuns[r][i], t)' = 0 /\ Leaving(TwoRuns[r][i], t)' = 0
<1>1. PICK u : u = TwoRuns[r][i]
  OBVIOUS
<1>2. Free(u, t) = 0 /\ Leaving(u, t) = 0
  BY <1>1 DEF YieldInvariant, LaterUsers
<1>3. \E j \in 1 .. 2 : tx.user = TwoRuns[run][j]
  BY AwaitedTransactions
<1>4. run \in DOMAIN TwoRuns /\ run # r
  BY DemoUsers DEF YieldInvariant
<1>5. tx.user # u
  BY <1>1, <1>3, <1>4, DemoUsers
<1>6. <<u, t>> \in Owned /\ <<u, t>>[1] = u
  BY <1>1, DemoUsers DEF Owned
<1>7. OthersKeep(tx)
  BY AwaitedTransactions, TransactionMoves DEF YieldInvariant
<1>8. slot'[<<u, t>>] = slot[<<u, t>>]
  BY <1>5, <1>6, <1>7 DEF OthersKeep
<1>9. slot'[<<u, t>>].available_balance = 0 /\ slot'[<<u, t>>].withdrawing_balance = 0
  BY <1>2, <1>8 DEF Free, Leaving
<1>10. u = TwoRuns'[r][i]
  BY <1>1 DEF TwoRuns
<1>. QED
  BY <1>1, <1>9 DEF Free, Leaving

\* A transaction lands and the process goes on.
LEMMA LandKeepsYield ==
  ASSUME YieldInvariant, Yielding!Land
  PROVE  YieldInvariant'
<1>1. PICK tx \in waiting : Yielding!Execute(tx) /\ waiting' = {} /\ place' = place + 1 /\ run' = run
  BY DEF Yielding!Land
<1>2. Numbers' /\ Entries'
  BY <1>1, AwaitedTransactions, TransactionMoves DEF YieldInvariant
<1>3. place \in 1 .. 14 /\ run \in DOMAIN TwoRuns
  BY <1>1, PlanOfYield DEF YieldInvariant, AwaitedIsCurrent, Yielding!Finished
<1>4. Positions'
  <2>1. PICK a, b : a = TwoRuns[run][1] /\ b = TwoRuns[run][2]
    OBVIOUS
  <2>2. /\ FirstUserAt(place + 1, Free(a, Plain)', Leaving(a, Plain)', Free(a, Wrapper)', Leaving(a, Wrapper)')
        /\ SecondUserAt(place + 1, Free(b, Plain)', Leaving(b, Plain)', Free(b, Wrapper)', Leaving(b, Wrapper)')
    BY <1>1, <2>1, LandKeepsPositions
  <2>3. a = TwoRuns[run'][1] /\ b = TwoRuns[run'][2]
    BY <1>1, <2>1
  <2>. QED
    BY <1>1, <2>2, <2>3 DEF Positions, Free, Leaving, FirstUserAt, SecondUserAt
<1>5. LaterUsers'
  BY <1>1, LaterUsersWait DEF LaterUsers
<1>6. AwaitedIsCurrent'
  BY <1>1 DEF AwaitedIsCurrent
<1>. QED
  BY <1>1, <1>2, <1>3, <1>4, <1>5, <1>6 DEF YieldInvariant

\* The process reads what its step has to send; with nothing to send it goes on.
LEMMA LookKeepsYield ==
  ASSUME YieldInvariant, Yielding!Look
  PROVE  YieldInvariant'
<1>. DEFINE step == Yielding!Plan[place]
            amount == Yielding!Amount(step.op, TwoRuns[run][step.user])
<1>1. UNCHANGED <<slot, now, strategy, shareVault, reserve, run>> /\ waiting = {} /\ place # 15
  BY PlanOfYield DEF Yielding!Look, Yielding!Finished, Yielding!allVars, Yielding!vars,
     Yielding!balanceVars, Yielding!yieldVars
<1>2. place \in 1 .. 14 /\ run \in DOMAIN TwoRuns
  BY <1>1 DEF YieldInvariant
<1>3. Numbers' /\ Entries' /\ run' \in DOMAIN TwoRuns
  BY <1>1 DEF YieldInvariant, Numbers, Entries
<1>4. LaterUsers'
  BY <1>1 DEF YieldInvariant, LaterUsers, Free, Leaving
<1>5. CASE amount = 0
  <2>1. place' = place + 1 /\ waiting' = {}
    BY <1>1, <1>5 DEF Yielding!Look, Yielding!Skips
  <2>2. Positions'
    BY <1>1, <1>2, <1>5, <2>1, SkipKeepsPositions
  <2>3. AwaitedIsCurrent'
    BY <2>1 DEF AwaitedIsCurrent
  <2>. QED
    BY <1>2, <1>3, <1>4, <2>1, <2>2, <2>3 DEF YieldInvariant
<1>6. CASE amount # 0
  <2>1. /\ place' = place
        /\ waiting' = {[op |-> step.op, user |-> TwoRuns[run][step.user], amount |-> amount]}
    BY <1>1, <1>6 DEF Yielding!Look, Yielding!Skips
  <2>2. Positions'
    BY <1>1, <2>1 DEF YieldInvariant, Positions, Free, Leaving, FirstUserAt, SecondUserAt
  <2>3. step.user \in 1 .. 2 /\ TwoRuns[run][step.user] \in Participants
    BY <1>2, PlanOfYield, DemoUsers
  <2>4. amount \in Nat \ {0}
    BY <1>2, <1>6, <2>3, AmountIsNumber DEF YieldInvariant
  <2>5. \A tx \in waiting' :
          /\ tx.op = step.op /\ tx.user = TwoRuns[run][step.user] /\ tx.amount = amount
    BY <2>1
  <2>6. amount' = amount /\ ~Yielding!Finished'
    <3>1. ~Yielding!Finished'
      BY <1>1, <2>1, PlanOfYield DEF Yielding!Finished, Yielding!Plan
    <3>2. step' = step /\ TwoRuns' = TwoRuns
      BY <2>1 DEF Yielding!Plan, TwoRuns, Yielding!Do
    <3>3. Yielding!BufferMissing' = Yielding!BufferMissing
      BY <1>1 DEF Yielding!BufferMissing
    <3>4. amount' = amount
      BY <1>1, <3>2, <3>3 DEF Yielding!Amount, Yielding!Available
    <3>. QED
      BY <3>1, <3>4
  <2>7. AwaitedIsCurrent'
    BY <1>1, <2>1, <2>4, <2>5, <2>6 DEF AwaitedIsCurrent
  <2>. QED
    BY <1>2, <1>3, <1>4, <2>1, <2>2, <2>7 DEF YieldInvariant
<1>. QED
  BY <1>5, <1>6

\* The next run starts with users who have nothing.
LEMMA NextRunStarts ==
  ASSUME YieldInvariant, Yielding!NextRun, run < Len(TwoRuns), Numbers', Entries',
         \A r \in DOMAIN TwoRuns : \A i \in 1 .. 2 : \A t \in {Plain, Wrapper} :
           r > run => Free(TwoRuns[r][i], t)' = 0 /\ Leaving(TwoRuns[r][i], t)' = 0
  PROVE  YieldInvariant'
<1>1. place' = 1 /\ run' = run + 1 /\ waiting' = {}
  BY DEF Yielding!NextRun
<1>2. run \in Nat /\ run' \in DOMAIN TwoRuns /\ run' > run
  BY <1>1, DemoUsers DEF YieldInvariant
<1>3. \A r \in DOMAIN TwoRuns : r > run' => r > run
  BY <1>1, <1>2, DemoUsers
<1>4. LaterUsers'
  BY <1>3 DEF LaterUsers
<1>5. Positions'
  <2>1. PICK a, b : a = TwoRuns[run'][1] /\ b = TwoRuns[run'][2]
    OBVIOUS
  <2>2. \A u \in {a, b} : \A t \in {Plain, Wrapper} : Free(u, t)' = 0 /\ Leaving(u, t)' = 0
    BY <1>2, <2>1
  <2>3. /\ FirstUserAt(1, Free(a, Plain)', Leaving(a, Plain)', Free(a, Wrapper)', Leaving(a, Wrapper)')
        /\ SecondUserAt(1, Free(b, Plain)', Leaving(b, Plain)', Free(b, Wrapper)', Leaving(b, Wrapper)')
    BY <2>2 DEF FirstUserAt, SecondUserAt
  <2>. QED
    BY <1>1, <2>1, <2>3 DEF Positions, Free, Leaving, FirstUserAt, SecondUserAt
<1>6. AwaitedIsCurrent'
  BY <1>1 DEF AwaitedIsCurrent
<1>. QED
  BY <1>1, <1>2, <1>4, <1>5, <1>6 DEF YieldInvariant

\* What does not write the entries leaves later users without money.
LEMMA QuietLaterUsers ==
  ASSUME YieldInvariant, slot' = slot
  PROVE  /\ Entries'
         /\ \A r \in DOMAIN TwoRuns : \A i \in 1 .. 2 : \A t \in {Plain, Wrapper} :
              r > run => Free(TwoRuns[r][i], t)' = 0 /\ Leaving(TwoRuns[r][i], t)' = 0
<1>. QED
  BY DEF YieldInvariant, Entries, LaterUsers, Free, Leaving

\* A run that is refused or killed; what it waits for may have landed.
LEMMA BreakKeepsYield ==
  ASSUME YieldInvariant, Yielding!Refused \/ Yielding!Kill
  PROVE  YieldInvariant'
<1>1. Yielding!NextRun /\ run < Len(TwoRuns)
  BY DEF Yielding!Refused, Yielding!Kill
<1>2. CASE UNCHANGED <<Yielding!allVars, paid>>
  <2>1. UNCHANGED <<slot, now, strategy, shareVault, reserve>>
    BY <1>2 DEF Yielding!allVars, Yielding!vars, Yielding!balanceVars, Yielding!yieldVars
  <2>2. Numbers'
    BY <2>1 DEF YieldInvariant, Numbers
  <2>. QED
    BY <1>1, <2>1, <2>2, QuietLaterUsers, NextRunStarts
<1>3. CASE \E tx \in waiting : Yielding!Execute(tx)
  <2>1. PICK tx \in waiting : Yielding!Execute(tx)
    BY <1>3
  <2>2. Numbers' /\ Entries'
    BY <2>1, AwaitedTransactions, TransactionMoves DEF YieldInvariant
  <2>. QED
    BY <1>1, <2>1, <2>2, LaterUsersWait, NextRunStarts
<1>. QED
  BY <1>2, <1>3 DEF Yielding!Refused, Yielding!Kill

\* Whatever leaves the books and the process alone.
LEMMA QuietKeepsYield ==
  ASSUME YieldInvariant, now' \in Nat,
         UNCHANGED <<slot, strategy, shareVault, reserve, place, run, waiting>>
  PROVE  YieldInvariant'
<1>1. Numbers' /\ Entries'
  BY DEF YieldInvariant, Numbers, Entries
<1>2. Positions'
  BY DEF YieldInvariant, Positions, Free, Leaving, FirstUserAt, SecondUserAt
<1>3. LaterUsers'
  BY DEF YieldInvariant, LaterUsers, Free, Leaving
<1>4. AwaitedIsCurrent'
  <2>1. Yielding!BufferMissing' = Yielding!BufferMissing
    BY DEF Yielding!BufferMissing
  <2>2. ASSUME NEW op, NEW u
        PROVE  Yielding!Amount(op, u)' = Yielding!Amount(op, u)
    BY <2>1 DEF Yielding!Amount, Yielding!Available
  <2>. QED
    BY <2>2 DEF YieldInvariant, AwaitedIsCurrent, Yielding!Finished, Yielding!Plan, Yielding!Do
<1>. QED
  BY <1>1, <1>2, <1>3, <1>4 DEF YieldInvariant

\* The clock moves between any two steps.
LEMMA WaitKeepsYield ==
  ASSUME YieldInvariant, Yielding!Wait
  PROVE  YieldInvariant'
<1>1. now' = now + 1 /\ UNCHANGED <<slot, strategy, shareVault, reserve, place, run, waiting>>
  BY DEF Yielding!Wait, Yielding!Tick, Yielding!yieldVars, Yielding!balanceVars
<1>2. now' \in Nat
  BY <1>1 DEF YieldInvariant, Numbers
<1>. QED
  BY <1>1, <1>2, QuietKeepsYield

\* One step of the yield demo.
LEMMA YieldStep ==
  ASSUME YieldInvariant, Yielding!DemoNext
  PROVE  YieldInvariant'
<1>. QED
  BY LookKeepsYield, LandKeepsYield, BreakKeepsYield, WaitKeepsYield DEF Yielding!DemoNext

\* What leaves the books and the yield demo's run alone.
LEMMA YieldStutter ==
  ASSUME YieldInvariant, UNCHANGED <<vars, yieldOnly>>
  PROVE  YieldInvariant'
<1>1. UNCHANGED <<slot, now, strategy, shareVault, reserve, place, run, waiting>>
  BY DEF vars, balanceVars, yieldOnly
<1>2. now' \in Nat
  BY <1>1 DEF YieldInvariant, Numbers
<1>. QED
  BY <1>1, <1>2, QuietKeepsYield

\* A run that is through has left its users nothing.
LEMMA YieldIsSafe ==
  ASSUME YieldInvariant
  PROVE  Yielding!RunLeavesNothing
<1>. SUFFICES ASSUME Yielding!Finished,
                     NEW i \in 1 .. 2, NEW t \in {Plain, Wrapper}
              PROVE  Yielding!Total(slot[<<TwoRuns[run][i], t>>]) = 0
  BY DEF Yielding!RunLeavesNothing
<1>1. place = 15
  BY PlanOfYield DEF Yielding!Finished
<1>2. Free(TwoRuns[run][i], t) = 0 /\ Leaving(TwoRuns[run][i], t) = 0
  BY <1>1 DEF YieldInvariant, Positions, FirstUserAt, SecondUserAt
<1>. QED
  BY <1>2 DEF Yielding!Total, Free, Leaving

\* The yield demo starts over an empty wrapper and a reserve with its buffer.
LEMMA YieldStarts ==
  ASSUME demo = "yield", WalletsReady, Yielding!RunInit
  PROVE  YieldInvariant
<1>1. /\ strategy = Yielding!InitialStrategy(YieldShareBps) /\ shareVault = 0
      /\ reserve = Yielding!InitialReserve(1, now, Buffer)
      /\ place = 1 /\ run = 1 /\ waiting = {}
  BY DEF Yielding!RunInit
<1>2. now = 1 /\ \A x \in Accounts : slot[x] = EmptyEntry /\ x \in DOMAIN slot
  <2>. DEFINE Start(x) == IF demo = "rounds" /\ x[2] = Plain THEN 10 ELSE 0
  <2>1. \A x : Start(x) = 0 /\ ~(Start(x) > 0)
    OBVIOUS
  <2>2. slot = [x \in Accounts |->
                  IF Start(x) > 0 THEN Credit(EmptyEntry, Start(x)) ELSE EmptyEntry]
    BY Zenon DEF WalletsReady
  <2>. HIDE DEF Start
  <2>3. \A x \in Accounts : slot[x] = EmptyEntry /\ x \in DOMAIN slot
    BY <2>1, <2>2
  <2>. QED
    BY <2>3 DEF WalletsReady
<1>3. 1 \in Apys /\ Buffer \in Nat /\ 1 \in 0 .. MaxApyBps
  BY YieldDemoAssumption, YieldAssumption, InterestAssumption DEF Yielding!DemoAssumption
<1>4. reserve \in ReserveState
  BY <1>1, <1>2, <1>3 DEF Yielding!InitialReserve, ReserveState
<1>5. strategy \in Sound
  <2>1. strategy \in StrategyState /\ strategy.user_index = IndexOne
    BY <1>1, YieldAssumption, ShareBpsAssumption, IndexOneType
       DEF Yielding!InitialStrategy, StrategyState, Yielding!IndexOne, IndexOne
  <2>. QED
    BY <2>1, IndexOneType DEF Sound
<1>6. Numbers
  BY <1>1, <1>2, <1>4, <1>5 DEF Numbers
<1>7. Owned \subseteq Accounts
  BY YieldAssumption DEF Owned, Accounts
<1>8. Entries
  BY <1>2, <1>7 DEF Entries, EntryOK, EmptyEntry
<1>9. \A x \in Owned : slot[x].available_balance = 0 /\ slot[x].withdrawing_balance = 0
  BY <1>2, <1>7 DEF EmptyEntry
<1>10. \A r \in DOMAIN TwoRuns : \A i \in 1 .. 2 : \A t \in {Plain, Wrapper} :
         Free(TwoRuns[r][i], t) = 0 /\ Leaving(TwoRuns[r][i], t) = 0
  BY <1>9, DemoUsers DEF Owned, Free, Leaving
<1>11. run \in DOMAIN TwoRuns
  BY <1>1, DemoUsers
<1>12. Positions
  BY <1>1, <1>10, <1>11 DEF Positions, FirstUserAt, SecondUserAt
<1>13. LaterUsers /\ AwaitedIsCurrent
  BY <1>1, <1>10 DEF LaterUsers, AwaitedIsCurrent
<1>. QED
  BY <1>1, <1>6, <1>8, <1>11, <1>12, <1>13 DEF YieldInvariant

-----------------------------------------------------------------------------
(***************************************************************************)
(* The demonstrations together: one runs and the others rest.              *)
(***************************************************************************)
DemosInvariant ==
  /\ demo = "demo" => DemoInvariant
  /\ demo = "rounds" => RoundsInvariant
  /\ demo = "yield" => YieldInvariant

\* The payments of the protocol demo's runs and of its live rounds stay within
\* what their invariants say, and the money of the yield demo's users where its
\* plan looks for it, however runs are broken off and whatever of them still
\* lands (main and runClearingRound of ryvo-protocol-demo.ts, main of
\* yield-bearing-demo.ts).
THEOREM DemosInvariance == DemosSpec => []DemosInvariant
<1>1. DemosInit => DemosInvariant
  BY RoundsInit, DemoStarts, YieldStarts DEF DemosInit, DemosInvariant
<1>2. DemosInvariant /\ [DemosNext]_demosVars => DemosInvariant'
  <2>. SUFFICES ASSUME DemosInvariant, [DemosNext]_demosVars
                PROVE  DemosInvariant'
    OBVIOUS
  <2>1. CASE DemoRuns /\ DemoNext
    BY <2>1, DemoStep DEF DemosInvariant, DemoRuns, Running
  <2>2. CASE RoundsRun /\ Rounding!LiveNext
    BY <2>2, RoundsStep DEF DemosInvariant, RoundsRun, Running
  <2>3. CASE YieldRuns /\ Yielding!DemoNext
    BY <2>3, YieldStep DEF DemosInvariant, YieldRuns, Running
  <2>4. CASE UNCHANGED demosVars
    <3>1. UNCHANGED <<demo, lane, vars, demoOnly, roundsOnly, yieldOnly>>
      BY <2>4 DEF demosVars, vars, laneVars
    <3>. QED
      BY <3>1, DemoStutter, RoundsStutter, YieldStutter DEF DemosInvariant
  <2>. QED
    BY <2>1, <2>2, <2>3, <2>4 DEF DemosNext
<1>. QED
  BY <1>1, <1>2, PTL DEF DemosSpec

\* No lane pays more often than runs were started, and no run pays an obligation
\* of a scenario of rounds twice, though transactions of runs that were broken off
\* land late (lines 4253-4310, 4421-4490 and 4690-4770 of ryvo-protocol-demo.ts,
\* and its live rounds, where strays add exactly what they move).
THEOREM PaymentsHappenOnce == DemosSpec => []PaidOnce
<1>1. DemosInvariant => PaidOnce
  BY RoundsAreSafe, DemoIsSafe DEF DemosInvariant, PaidOnce
<1>. QED
  BY <1>1, DemosInvariance, PTL

\* A run that gets to its end has paid on every lane what it read there and owed,
\* a run of rounds what it reports and no more than that and what rounds of
\* earlier runs paid meanwhile, and the yield demo leaves its users
\* neither shares nor tokens, though earlier runs left theirs behind (lines
\* 4253-4770 of ryvo-protocol-demo.ts, 1270-1447 of yield-bearing-demo.ts).
THEOREM ReportsHold == DemosSpec => []ReportsAreTrue
<1>1. DemosInvariant => ReportsAreTrue
  BY RoundsAreSafe, DemoIsSafe, YieldIsSafe DEF DemosInvariant, ReportsAreTrue
<1>. QED
  BY <1>1, DemosInvariance, PTL
=============================================================================
