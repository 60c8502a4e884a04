---------------------------- MODULE RoundSearch ----------------------------
(***************************************************************************)
(* How the demo looks for the largest clearing round that the cluster can  *)
(* execute (ryvo-protocol-demo.ts): it opens a bounded dense graph of      *)
(* channels among its wallets, then searches                               *)
(*                                                                         *)
(*   participants  for the longest ring of the first wallets, by halving   *)
(*   channels      for the most channels: for each number of participants  *)
(*                 from all of them down to 3, by halving                  *)
(*                                                                         *)
(* A candidate is probed by building its transaction, measuring it and     *)
(* simulating it.  What the cluster can execute is an input: with the same *)
(* participants, a round of fewer channels fits if one of more does.  A    *)
(* probe may also throw, when the node stays unreachable.                  *)
(***************************************************************************)
EXTENDS Integers, Sequences, FiniteSets, FiniteSetsExt, SequencesExt

CONSTANTS
  Wallets,      \* number of demo wallets
  DenseCaps,    \* values of --bls-max-dense-channels to consider
  MaxErrors     \* bound on probes that throw

SearchAssumption ==
  Wallets \in Nat /\ Wallets >= 3 /\ DenseCaps \subseteq Nat /\ MaxErrors \in Nat

VARIABLES
  mode,         \* participants or channels
  cap,          \* denseChannelCap
  pairs,        \* the channels of the dense graph, in the order they were opened
  mostChannels, \* channels that fit, for each number of participants
  longestRing,  \* participants of the longest ring that fits
  pc,           \* next, probe, done, failed
  count,        \* participants of the current search for channels
  low, high,    \* bounds of the halving
  found,        \* largest candidate of the current halving, 0 if none
  best,         \* [participants, channels] of the best candidate so far
  errors

inputs == <<mode, cap, pairs, mostChannels, longestRing>>
searchVars == <<inputs, pc, count, low, high, found, best, errors>>

-----------------------------------------------------------------------------
(***************************************************************************)
(* The dense graph; wallets are numbered from 0, as in the code.           *)
(***************************************************************************)
AllPairs(n) == n * (n - 1)

\* buildOrderedParticipantPairs: by the distance from payer to payee.
OrderedPairs(n) ==
  [i \in 1 .. AllPairs(n) |->
     LET payer == (i - 1) % n
     IN  <<payer, (payer + 1 + (i - 1) \div n) % n>>]

\* The ring of three, then two channels for each wallet more.
PrefixRings(n) ==
  <<<<0, 1>>, <<1, 2>>, <<2, 0>>>> \o
  FlattenSeq([i \in 1 .. n - 3 |-> <<<<i + 1, i + 2>>, <<i + 2, 0>>>>])

\* Each pair once, as many as the cap admits (buildBoundedDenseGraphPairs).
DensePairs(n, most) ==
  LET Add(chosen, pair) ==
        IF pair \in ToSet(chosen) \/ Len(chosen) >= Min({most, AllPairs(n)})
        THEN chosen ELSE Append(chosen, pair)
  IN  FoldLeft(Add, <<>>, PrefixRings(n) \o OrderedPairs(n))

Edges == ToSet(pairs)
Eligible(n) == {e \in Edges : e[1] < n /\ e[2] < n}
Ring(n) == {<<i, (i + 1) % n>> : i \in 0 .. n - 1}

\* maxSupportedPrefixRingParticipantCount: up to the first ring that is missing.
SupportedRing ==
  Max({0} \cup {n \in 3 .. Wallets : \A k \in 3 .. n : Ring(k) \subseteq Edges})

-----------------------------------------------------------------------------
(***************************************************************************)
(* The search.                                                             *)
(***************************************************************************)
None == [participants |-> 0, channels |-> 0]

SearchInit ==
  /\ mode \in {"participants", "channels"}
  /\ cap \in DenseCaps
  /\ pairs = DensePairs(Wallets, cap)
  /\ IF mode = "channels"
     THEN /\ mostChannels \in {f \in [3 .. Wallets -> 2 .. Len(pairs) + 1] :
                                 \A n \in 3 .. Wallets : f[n] \in n - 1 .. AllPairs(n)}
          /\ longestRing = 0
     ELSE /\ mostChannels = [n \in 3 .. Wallets |-> 0]
          /\ longestRing \in 2 .. Wallets
  /\ pc = "next" /\ count = Wallets
  /\ low = 0 /\ high = 0 /\ found = 0
  /\ best = None
  /\ errors = 0

\* runBinarySearchMultilateralScenario up to its search.
StartRings ==
  /\ pc = "next" /\ mode = "participants"
  /\ IF SupportedRing < 3
     THEN pc' = "failed" /\ UNCHANGED <<low, high>>
     ELSE pc' = "probe" /\ low' = 3 /\ high' = Min({Wallets, SupportedRing})
  /\ UNCHANGED <<inputs, count, found, best, errors>>

UpperBound(n) == Min({cap, Cardinality(Eligible(n))})

\* A number of participants that cannot do better than the best is skipped.
WorthTryingMutant(n) == UpperBound(n) >= n /\ (best = None \/ n > best.participants)
WorthTrying(n) ==
  /\ UpperBound(n) >= n
  /\ best = None \/ UpperBound(n) > best.channels

\* The body of the loop of runAdaptiveMaxChannelsScenario up to its search.
StartChannels ==
  /\ pc = "next" /\ mode = "channels"
  /\ IF count < 3
     THEN /\ pc' = IF best = None THEN "failed" ELSE "done"
          /\ UNCHANGED <<low, high, found, count>>
     ELSE IF WorthTrying(count)
     THEN /\ low' = Max({count, best.channels + 1})
          /\ high' = UpperBound(count)
          /\ found' = 0
          /\ pc' = "probe"
          /\ UNCHANGED count
     ELSE count' = count - 1 /\ UNCHANGED <<pc, low, high, found>>
  /\ UNCHANGED <<inputs, best, errors>>

Executable(value) ==
  IF mode = "participants" THEN value <= longestRing ELSE value <= mostChannels[count]

Above(value) == value + 1

Probe ==
  LET value == (low + high) \div 2
  IN  /\ pc = "probe" /\ low <= high
      /\ IF Executable(value)
         THEN found' = value /\ low' = Above(value) /\ UNCHANGED high
         ELSE high' = value - 1 /\ UNCHANGED <<found, low>>
      /\ UNCHANGED <<inputs, pc, count, best, errors>>

\* A search that found nothing, or a probe that threw: the search for channels
\* goes on with fewer participants, the search for rings gives up.
GiveUp ==
  /\ pc' = IF mode = "channels" THEN "next" ELSE "failed"
  /\ count' = count - 1
  /\ UNCHANGED best

ProbeThrows ==
  /\ pc = "probe" /\ low <= high /\ errors < MaxErrors
  /\ errors' = errors + 1
  /\ GiveUp
  /\ UNCHANGED <<inputs, low, high, found>>

Candidate ==
  IF mode = "participants"
  THEN [participants |-> found, channels |-> found]
  ELSE [participants |-> count, channels |-> found]

IsBetter(candidate) ==
  \/ candidate.channels > best.channels
  \/ candidate.channels = best.channels /\ candidate.participants > best.participants

EndSearch ==
  /\ pc = "probe" /\ low > high
  /\ IF found = 0
     THEN GiveUp
     ELSE /\ best' = IF IsBetter(Candidate) THEN Candidate ELSE best
          /\ pc' = IF mode = "channels" THEN "next" ELSE "done"
          /\ count' = count - 1
  /\ UNCHANGED <<inputs, low, high, found, errors>>

SearchStep == StartRings \/ StartChannels \/ Probe \/ EndSearch
SearchNext == SearchStep \/ ProbeThrows

-----------------------------------------------------------------------------
(***************************************************************************)
(* Properties.                                                             *)
(***************************************************************************)
\* All rounds that could be chosen: what the graph has and the cluster executes.
Options ==
  IF mode = "participants"
  THEN {[participants |-> n, channels |-> n] :
          n \in {k \in 3 .. longestRing : \A j \in 3 .. k : Ring(j) \subseteq Edges}}
  ELSE {r \in [participants : 3 .. Wallets, channels : 3 .. AllPairs(Wallets)] :
          /\ r.channels >= r.participants
          /\ r.channels <= mostChannels[r.participants]
          /\ r.channels <= Cardinality(Eligible(r.participants))}

\* The search picks a round that can be executed, and when no probe threw there
\* is none with more channels, nor one as large with more participants: the
\* bounds that it carries from one halving into the next, and the numbers it
\* skips, lose nothing (lines 5937-6005, 6508-6600).
SearchFindsTheLargest ==
  /\ best # None => best \in Options
  /\ pc \in {"done", "failed"} /\ errors = 0 =>
       \A r \in Options : ~IsBetter(r)

\* A probe that throws costs the search for channels one number of participants
\* and no more: whatever was found before or after it is still used.
ErrorsCostOneCount ==
  pc = "failed" /\ mode = "channels" =>
    Cardinality({r.participants : r \in Options}) <= errors

\* The graph has the ring of the first n wallets whenever the cap leaves room
\* for it: 2n - 3 channels (lines 1132-1190).
SmallRingsComeFirst ==
  \A n \in 3 .. Wallets : Ring(n) \subseteq Edges <=> 2 * n - 3 <= Len(pairs)
=============================================================================
