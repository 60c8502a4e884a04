---------------------------- MODULE WireProofs -----------------------------
(***************************************************************************)
(* Proofs about messages and searches.                                     *)
(*                                                                         *)
(* Searches (RoundSearch).  The best round that a search ends with is the  *)
(* best of all, for every number of wallets, every cap and everything that *)
(* the cluster may execute: a halving keeps what it found just below its   *)
(* lower bound and nothing that is executed above its upper one, and the   *)
(* numbers of participants that were tried or skipped have nothing better  *)
(* than the best so far.                                                   *)
(*                                                                         *)
(* Messages (MessageReader).  Whatever the bytes are, an accepted round    *)
(* was read as it is settled: the first reading has read what the second   *)
(* one sees of the entries so far, and stands where the next one begins.   *)
(* What a client wrote is found where it was written, part by part, and an *)
(* integer is the sum of its digits, so the reader goes on until it        *)
(* accepts.                                                                *)
(*                                                                         *)
(* Rings (RoundSearch).  The channels of all rings are the first that the  *)
(* demo's graph wants, in an order that has no channel twice and ends each *)
(* ring's channels with its closing one; as many of them are opened as     *)
(* there is room for.                                                      *)
(*                                                                         *)
(* Capacities (RoundCapacity).  A transaction with more channels, with     *)
(* more entries or of a longer cycle is never smaller, so a row that is    *)
(* broken off at its first miss loses nothing.  For cycles this takes a    *)
(* look at the buckets: the longer cycle opens every bucket of the shorter *)
(* one, or another one in the place of the bucket of the pair that closed  *)
(* it.                                                                     *)
(*                                                                         *)
(* The library's sequences and sums are recursive functions; that they are *)
(* defined and what they do on one more element is proved first, with      *)
(* induction as a fact about sets: a set with 0 that has n + 1 for every n *)
(* has all naturals, and one that has a set whenever it has its proper     *)
(* subsets has all finite sets.                                            *)
(***************************************************************************)
EXTENDS MCWire, FiniteSetTheorems, SequenceTheorems, WellFoundedInduction, TLAPS

-----------------------------------------------------------------------------
(***************************************************************************)
(* Numbers and finite sets.                                                *)
(***************************************************************************)
\* A set of naturals that is not empty has a least element.
LEMMA Least ==
  ASSUME NEW S, S \subseteq Nat, S # {}
  PROVE  \E i \in S : \A j \in S : i <= j
<1>. DEFINE Less == {ss \in Nat \X Nat : ss[1] < ss[2]}
<1>1. IsWellFoundedOn(Less, Nat)
  BY NatLessThanWellFounded DEF OpToRel
<1>. HIDE DEF Less
<1>2. \E i \in S : \A j \in S : ~(<<j, i>> \in Less)
  BY <1>1, WFMin
<1>3. \A j, i \in S : <<j, i>> \in Less <=> j < i
  BY DEF Less
<1>4. PICK i \in S : \A j \in S : ~(j < i)
  BY <1>2, <1>3
<1>5. \A j \in S : i <= j
  BY <1>4
<1>. QED
  BY <1>5

\* A set of numbers up to a bound has a greatest element.
LEMMA Greatest ==
  ASSUME NEW b \in Nat, NEW S, S \subseteq 0 .. b, S # {}
  PROVE  \E i \in S : \A j \in S : j <= i
<1>. DEFINE T == {b - i : i \in S}
<1>1. T \subseteq Nat /\ T # {}
  OBVIOUS
<1>. HIDE DEF T
<1>2. PICK t \in T : \A u \in T : t <= u
  BY <1>1, Least
<1>3. PICK i \in S : t = b - i
  BY DEF T
<1>4. ASSUME NEW j \in S PROVE j <= i
  <2>1. b - j \in T
    BY DEF T
  <2>2. t <= b - j
    BY <1>2, <2>1
  <2>. QED
    BY <1>3, <2>2
<1>. QED
  BY <1>4

\* A set that has 0, and with every number the next one, has all.
LEMMA Induction ==
  ASSUME NEW T, 0 \in T, \A n \in Nat : n \in T => n + 1 \in T
  PROVE  \A n \in Nat : n \in T
<1>. DEFINE Bad == Nat \ T
<1>1. SUFFICES ASSUME Bad # {} PROVE FALSE
  OBVIOUS
<1>2. Bad \subseteq Nat
  OBVIOUS
<1>3. PICK i \in Bad : \A j \in Bad : i <= j
  <2>. HIDE DEF Bad
  <2>. QED
    BY <1>1, <1>2, Least
<1>4. i \in Nat /\ i # 0 /\ i \notin T
  OBVIOUS
<1>5. i - 1 \in Nat /\ i - 1 \notin Bad
  BY <1>2, <1>3, <1>4
<1>6. i - 1 \in T
  BY <1>5
<1>7. (i - 1) + 1 \in T
  BY <1>5, <1>6
<1>. QED
  BY <1>4, <1>7

\* RoundSearch counts as this module does.
LEMMA SameCardinality ==
  \A S : Searching!Cardinality(S) = Cardinality(S)
BY DEF Searching!Cardinality, Cardinality

\* The smaller and the larger of two numbers.
LEMMA SmallerLarger ==
  ASSUME NEW i \in Int, NEW j \in Int
  PROVE  /\ Searching!Min({i, j}) = IF i <= j THEN i ELSE j
         /\ Searching!Max({i, j}) = IF i >= j THEN i ELSE j
<1>1. \E x \in {i, j} : \A y \in {i, j} : x <= y
  OBVIOUS
<1>2. \E x \in {i, j} : \A y \in {i, j} : x >= y
  OBVIOUS
<1>3. \A x, z \in {i, j} : (\A y \in {i, j} : x <= y) /\ (\A y \in {i, j} : z <= y) => x = z
  OBVIOUS
<1>4. Searching!Min({i, j}) \in {i, j} /\ \A y \in {i, j} : Searching!Min({i, j}) <= y
  BY <1>1 DEF Searching!Min
<1>5. Searching!Max({i, j}) \in {i, j} /\ \A y \in {i, j} : Searching!Max({i, j}) >= y
  BY <1>2 DEF Searching!Max
<1>. QED
  BY <1>4, <1>5

\* Finite sets with a bounded number of elements.
LEMMA AtMostOneMore ==
  ASSUME NEW S, IsFiniteSet(S), NEW T, NEW x, T \subseteq S \cup {x}
  PROVE  IsFiniteSet(T) /\ Cardinality(T) <= Cardinality(S) + 1
<1>1. IsFiniteSet(S \cup {x}) /\ Cardinality(S \cup {x}) <= Cardinality(S) + 1
  <2>1. /\ IsFiniteSet(S \cup {x})
        /\ Cardinality(S \cup {x}) = IF x \in S THEN Cardinality(S) ELSE Cardinality(S) + 1
    BY FS_AddElement
  <2>2. Cardinality(S) \in Nat
    BY FS_CardinalityType
  <2>. QED
    BY <2>1, <2>2
<1>2. /\ IsFiniteSet(T) /\ Cardinality(T) <= Cardinality(S \cup {x})
      /\ Cardinality(T) \in Nat /\ Cardinality(S \cup {x}) \in Nat /\ Cardinality(S) \in Nat
  BY <1>1, FS_Subset, FS_CardinalityType
<1>. QED
  BY <1>1, <1>2

-----------------------------------------------------------------------------
(***************************************************************************)
(* Flattening a sequence of sequences.                                     *)
(***************************************************************************)
\* g[i] is the concatenation of the first i sequences of s.
Flattening(s, n, g) ==
  g = [i \in 1 .. n |-> IF i = 1 THEN s[i] ELSE g[i - 1] \o s[i]]

\* One step of the recursion.
LEMMA FlatteningStep ==
  ASSUME NEW s, NEW n \in Nat, NEW g, Flattening(s, n, g), NEW i \in 1 .. n
  PROVE  g[i] = IF i = 1 THEN s[i] ELSE g[i - 1] \o s[i]
<1>1. g = [j \in 1 .. n |-> IF j = 1 THEN s[j] ELSE g[j - 1] \o s[j]]
  BY DEF Flattening
<1>. QED
  BY <1>1, Zenon

\* There is such a g for every length.
LEMMA FlatteningExists ==
  ASSUME NEW s
  PROVE  \A n \in Nat : \E g : Flattening(s, n, g)
<1>. DEFINE T == {n \in Nat : \E g : Flattening(s, n, g)}
<1>1. 0 \in T
  <2>1. Flattening(s, 0, [i \in 1 .. 0 |-> IF i = 1 THEN s[i] ELSE <<>>])
    BY DEF Flattening
  <2>. QED
    BY <2>1
<1>2. ASSUME NEW n \in Nat, n \in T PROVE n + 1 \in T
  <2>1. PICK g : Flattening(s, n, g)
    BY <1>2
  <2>. DEFINE last == IF n + 1 = 1 THEN s[n + 1] ELSE g[n] \o s[n + 1]
              h == [i \in 1 .. n + 1 |-> IF i = n + 1 THEN last ELSE g[i]]
  <2>2. ASSUME NEW i \in 1 .. n + 1
        PROVE  h[i] = IF i = 1 THEN s[i] ELSE h[i - 1] \o s[i]
    <3>1. CASE i = n + 1
      <4>1. h[i] = last
        BY <3>1
      <4>2. i # 1 => i - 1 = n /\ i - 1 \in 1 .. n + 1 /\ i - 1 # n + 1
        BY <3>1
      <4>3. i # 1 => h[i - 1] = g[n]
        BY <4>2
      <4>. HIDE DEF h
      <4>. QED
        BY <3>1, <4>1, <4>3
    <3>2. CASE i # n + 1
      <4>1. i \in 1 .. n /\ (i # 1 => i - 1 \in 1 .. n + 1 /\ i - 1 # n + 1)
        BY <3>2
      <4>2. h[i] = g[i] /\ (i # 1 => h[i - 1] = g[i - 1])
        BY <3>2, <4>1
      <4>3. g[i] = IF i = 1 THEN s[i] ELSE g[i - 1] \o s[i]
        BY <2>1, <4>1, FlatteningStep
      <4>. HIDE DEF h
      <4>. QED
        BY <4>2, <4>3
    <3>. QED
      BY <3>1, <3>2
  <2>3. h = [i \in 1 .. n + 1 |-> IF i = 1 THEN s[i] ELSE h[i - 1] \o s[i]]
    <3>1. h = [i \in 1 .. n + 1 |-> h[i]]
      OBVIOUS
    <3>. HIDE DEF h
    <3>. QED
      BY <2>2, <3>1
  <2>. HIDE DEF h
  <2>4. Flattening(s, n + 1, h)
    BY <2>3 DEF Flattening
  <2>. QED
    BY <2>4
<1>3. \A n \in Nat : n \in T
  <2>. HIDE DEF T
  <2>. QED
    BY <1>1, <1>2, Induction
<1>. QED
  BY <1>3

\* Sequences that agree so far are flattened to the same so far.
LEMMA FlatteningAgrees ==
  ASSUME NEW s, NEW n \in Nat, NEW g, Flattening(s, n, g),
         NEW t, NEW k \in Nat, NEW h, Flattening(t, k, h),
         n <= k, \A i \in 1 .. n : s[i] = t[i]
  PROVE  \A i \in 1 .. n : g[i] = h[i]
<1>. DEFINE T == {i \in Nat : i \in 1 .. n => g[i] = h[i]}
<1>1. 0 \in T
  OBVIOUS
<1>2. ASSUME NEW i \in Nat, i \in T PROVE i + 1 \in T
  <2>1. SUFFICES ASSUME i + 1 \in 1 .. n PROVE g[i + 1] = h[i + 1]
    OBVIOUS
  <2>2. i + 1 \in 1 .. k /\ (i + 1) - 1 = i /\ (i + 1 # 1 => i \in 1 .. n)
    BY <2>1
  <2>3. g[i + 1] = IF i + 1 = 1 THEN s[i + 1] ELSE g[(i + 1) - 1] \o s[i + 1]
    BY <2>1, FlatteningStep
  <2>4. h[i + 1] = IF i + 1 = 1 THEN t[i + 1] ELSE h[(i + 1) - 1] \o t[i + 1]
    BY <2>2, FlatteningStep
  <2>5. s[i + 1] = t[i + 1] /\ (i + 1 # 1 => g[i] = h[i])
    BY <1>2, <2>1, <2>2
  <2>. QED
    BY <2>2, <2>3, <2>4, <2>5
<1>3. \A i \in Nat : i \in T
  <2>. HIDE DEF T
  <2>. QED
    BY <1>1, <1>2, Induction
<1>. QED
  BY <1>3

\* The flattened sequence is the last of them.
LEMMA FlattenIs ==
  ASSUME NEW s, Len(s) \in Nat, Len(s) # 0
  PROVE  \E g : Flattening(s, Len(s), g) /\ FlattenSeq(s) = g[Len(s)]
<1>1. FlattenSeq(s) = (CHOOSE g : Flattening(s, Len(s), g))[Len(s)]
  BY DEF FlattenSeq, Flattening
<1>2. Flattening(s, Len(s), CHOOSE g : Flattening(s, Len(s), g))
  BY FlatteningExists
<1>. QED
  BY <1>1, <1>2

\* Nothing flattens to nothing.
LEMMA FlattenEmpty == FlattenSeq(<<>>) = <<>>
BY DEF FlattenSeq

\* Sequences over S flatten to a sequence over S.
LEMMA FlattenType ==
  ASSUME NEW S, NEW s \in Seq(Seq(S))
  PROVE  FlattenSeq(s) \in Seq(S)
<1>1. CASE Len(s) = 0
  <2>1. s = <<>> /\ <<>> \in Seq(S)
    BY <1>1
  <2>. QED
    BY <2>1, FlattenEmpty
<1>2. CASE Len(s) # 0
  <2>1. Len(s) \in Nat
    OBVIOUS
  <2>2. PICK g : Flattening(s, Len(s), g) /\ FlattenSeq(s) = g[Len(s)]
    BY <1>2, <2>1, FlattenIs
  <2>. DEFINE T == {i \in Nat : i \in 1 .. Len(s) => g[i] \in Seq(S)}
  <2>3. 0 \in T
    OBVIOUS
  <2>4. ASSUME NEW i \in Nat, i \in T PROVE i + 1 \in T
    <3>1. SUFFICES ASSUME i + 1 \in 1 .. Len(s) PROVE g[i + 1] \in Seq(S)
      OBVIOUS
    <3>2. g[i + 1] = IF i + 1 = 1 THEN s[i + 1] ELSE g[(i + 1) - 1] \o s[i + 1]
      BY <2>1, <2>2, <3>1, FlatteningStep
    <3>3. s[i + 1] \in Seq(S)
      BY <3>1
    <3>4. i + 1 # 1 => g[(i + 1) - 1] \in Seq(S)
      BY <2>4, <3>1
    <3>. QED
      BY <3>2, <3>3, <3>4
  <2>5. \A i \in Nat : i \in T
    <3>. HIDE DEF T
    <3>. QED
      BY <2>3, <2>4, Induction
  <2>. QED
    BY <1>2, <2>1, <2>2, <2>5
<1>. QED
  BY <1>1, <1>2

\* A sequence more is appended to what the others give.
LEMMA FlattenAppend ==
  ASSUME NEW S, NEW s \in Seq(Seq(S)), NEW x \in Seq(S)
  PROVE  FlattenSeq(Append(s, x)) = FlattenSeq(s) \o x
<1>. DEFINE t == Append(s, x)
            n == Len(s)
<1>1. /\ n \in Nat /\ Len(t) = n + 1 /\ t[n + 1] = x
      /\ \A i \in 1 .. n : s[i] = t[i]
  OBVIOUS
<1>. HIDE DEF t
<1>2. PICK h : Flattening(t, n + 1, h) /\ FlattenSeq(t) = h[n + 1]
  BY <1>1, FlattenIs
<1>3. h[n + 1] = IF n + 1 = 1 THEN t[n + 1] ELSE h[(n + 1) - 1] \o t[n + 1]
  BY <1>1, <1>2, FlatteningStep
<1>4. CASE n = 0
  <2>1. s = <<>> /\ h[n + 1] = x
    BY <1>1, <1>3, <1>4
  <2>. QED
    BY <1>2, <2>1, FlattenEmpty DEF t
<1>5. CASE n # 0
  <2>1. PICK g : Flattening(s, n, g) /\ FlattenSeq(s) = g[n]
    BY <1>1, <1>5, FlattenIs
  <2>2. g[n] = h[n]
    <3>1. n + 1 \in Nat /\ n <= n + 1 /\ Flattening(s, n, g) /\ Flattening(t, n + 1, h)
      BY <1>1, <1>2, <2>1
    <3>2. \A i \in 1 .. n : g[i] = h[i]
      <4>. HIDE DEF n
      <4>. QED
        BY <1>1, <3>1, FlatteningAgrees
    <3>. QED
      BY <1>1, <1>5, <3>2
  <2>3. h[n + 1] = h[n] \o x
    BY <1>1, <1>3, <1>5
  <2>. QED
    BY <1>2, <2>1, <2>2, <2>3 DEF t
<1>. QED
  BY <1>4, <1>5

-----------------------------------------------------------------------------
(***************************************************************************)
(* The search for the largest round.                                       *)
(***************************************************************************)
Channels(n) == Cardinality(Searching!Eligible(n))

\* A round of n participants and k channels that the graph has and the cluster
\* executes.
Possible(n, k) == n <= k /\ k <= mostChannels[n] /\ k <= Channels(n)

\* A ring of n participants that the graph has and the cluster executes.
RingPossible(n) == n <= longestRing /\ n <= Searching!SupportedRing

Round(n, k) == [participants |-> n, channels |-> k]

\* What never changes: the mode, the graph and what the cluster executes.
SearchInputs ==
  /\ cap \in Nat
  /\ \A n \in 3 .. Wallets : Channels(n) \in Nat /\ Channels(n) <= cap
  /\ \/ /\ mode = "channels"
        /\ \A n \in 3 .. Wallets :
             mostChannels[n] \in Nat /\ mostChannels[n] <= Searching!AllPairs(Wallets)
     \/ /\ mode = "participants"
        /\ longestRing \in Nat /\ longestRing <= Wallets

\* The halving keeps what it found just below its lower bound, and nothing above
\* its upper bound is executed, up to the bounds that it was started with.
Halving(first, last, executable) ==
  /\ low \in Nat /\ high \in Nat
  /\ first <= low /\ low <= high + 1 /\ high <= last
  /\ \/ found = 0 /\ low = first
     \/ found = low - 1 /\ first <= found /\ found <= executable
  /\ high = last \/ executable <= high

\* The value that is probed.
Middle == (low + high) \div 2

RingsInvariant ==
  \/ pc = "next" /\ best = Searching!None /\ found = 0
  \/ /\ pc = "probe" /\ best = Searching!None
     /\ Halving(3, Searching!SupportedRing, longestRing)
  \/ /\ pc = "failed" /\ best = Searching!None
     /\ errors = 0 => \A n \in 3 .. Wallets : ~RingPossible(n)
  \/ /\ pc = "done"
     /\ \E n \in 3 .. Wallets :
          /\ best = Round(n, n) /\ RingPossible(n)
          /\ \A j \in 3 .. Wallets : RingPossible(j) => j <= n

\* The numbers of participants that were searched, and those that have a round.
Searched == tried + 1 .. Wallets
HasRound(n) == \E k \in Nat : Possible(n, k)

\* Of the numbers searched the best round is known, but for probes that threw.
ChannelsProgress ==
  /\ tried \in 2 .. Wallets
  /\ \/ best = Searching!None
     \/ \E n \in Searched, k \in Nat : best = Round(n, k) /\ Possible(n, k)
  /\ errors = 0 =>
       \A n \in Searched, k \in Nat : Possible(n, k) => ~Searching!IsBetter(Round(n, k))
  /\ best = Searching!None => Cardinality({n \in Searched : HasRound(n)}) <= errors

\* A round of the number that is tried is of use from here on.
Lowest == IF tried > best.channels THEN tried ELSE best.channels + 1

ChannelsInvariant ==
  /\ ChannelsProgress
  /\ \/ pc = "next"
     \/ pc = "probe" /\ tried >= 3 /\ Halving(Lowest, Channels(tried), mostChannels[tried])
     \/ pc = "done" /\ tried = 2 /\ best # Searching!None
     \/ pc = "failed" /\ tried = 2 /\ best = Searching!None

SearchInvariant ==
  /\ SearchInputs
  /\ errors \in Nat
  /\ mode = "participants" => RingsInvariant
  /\ mode = "channels" => ChannelsInvariant

\* The greatest number up to which all rings are there.
LEMMA SupportedRings ==
  /\ Searching!SupportedRing \in Nat /\ Searching!SupportedRing <= Wallets
  /\ \A n \in 3 .. Wallets :
       n <= Searching!SupportedRing <=>
         \A j \in 3 .. n : Searching!Ring(j) \subseteq Searching!Edges
<1>. DEFINE S == {0} \cup {n \in 3 .. Wallets :
                             \A k \in 3 .. n : Searching!Ring(k) \subseteq Searching!Edges}
            top == Searching!SupportedRing
<1>1. Wallets \in Nat
  BY RoundSearchAssumption DEF Searching!SearchAssumption
<1>2. S \subseteq 0 .. Wallets /\ S # {}
  BY <1>1
<1>3. \E i \in S : \A j \in S : i >= j
  <2>. HIDE DEF S
  <2>1. PICK i \in S : \A j \in S : j <= i
    BY <1>1, <1>2, Greatest
  <2>2. \A j \in S : i >= j
    BY <1>1, <1>2, <2>1
  <2>. QED
    BY <2>2
<1>4. top \in S /\ \A j \in S : top >= j
  <2>1. top = CHOOSE i \in S : \A j \in S : i >= j
    BY DEF Searching!SupportedRing, Searching!Max
  <2>. HIDE DEF S, top
  <2>. QED
    BY <1>3, <2>1
<1>5. top \in Nat /\ top <= Wallets
  BY <1>1, <1>2, <1>4
<1>6. ASSUME NEW n \in 3 .. Wallets
      PROVE  n <= top <=> \A j \in 3 .. n : Searching!Ring(j) \subseteq Searching!Edges
  <2>. HIDE DEF top
  <2>1. ASSUME n <= top, NEW j \in 3 .. n
        PROVE  Searching!Ring(j) \subseteq Searching!Edges
    <3>1. top # 0 /\ j \in 3 .. top
      BY <1>1, <1>5, <2>1
    <3>. QED
      BY <1>4, <3>1
  <2>2. ASSUME \A j \in 3 .. n : Searching!Ring(j) \subseteq Searching!Edges
        PROVE  n <= top
    <3>1. n \in S
      BY <2>2
    <3>. QED
      BY <1>1, <1>4, <1>5, <3>1
  <2>. QED
    BY <2>1, <2>2
<1>. QED
  BY <1>5, <1>6

\* The options of either mode.
LEMMA RingOptions ==
  ASSUME SearchInputs, mode = "participants"
  PROVE  \A r : r \in Searching!Options <=>
                  \E n \in 3 .. Wallets : r = Round(n, n) /\ RingPossible(n)
<1>1. Wallets \in Nat /\ longestRing \in Nat /\ longestRing <= Wallets
  BY RoundSearchAssumption DEF Searching!SearchAssumption, SearchInputs
<1>2. \A n : n \in {k \in 3 .. longestRing : \A j \in 3 .. k : Searching!Ring(j) \subseteq Searching!Edges}
             <=> n \in 3 .. Wallets /\ RingPossible(n)
  <2>1. \A n \in 3 .. longestRing : n \in 3 .. Wallets
    BY <1>1
  <2>2. \A n \in 3 .. Wallets : n <= longestRing => n \in 3 .. longestRing
    BY <1>1
  <2>3. \A n \in 3 .. longestRing : n <= longestRing
    BY <1>1
  <2>. QED
    BY <2>1, <2>2, <2>3, SupportedRings DEF RingPossible
<1>. QED
  BY <1>2 DEF Searching!Options, Round

\* The rounds that a search for channels could choose.
LEMMA ChannelOptions ==
  ASSUME SearchInputs, mode = "channels"
  PROVE  \A r : r \in Searching!Options <=>
                  \E n \in 3 .. Wallets, k \in Nat : r = Round(n, k) /\ Possible(n, k)
<1>1. Wallets \in Nat
  BY RoundSearchAssumption DEF Searching!SearchAssumption
<1>2. ASSUME NEW n \in 3 .. Wallets, NEW k
      PROVE  k \in 3 .. Searching!AllPairs(Wallets) /\ k >= n
               /\ k <= mostChannels[n] /\ k <= Channels(n)
             <=> k \in Nat /\ Possible(n, k)
  <2>1. Searching!AllPairs(Wallets) \in Int
    BY <1>1 DEF Searching!AllPairs
  <2>2. mostChannels[n] \in Nat /\ mostChannels[n] <= Searching!AllPairs(Wallets)
    BY DEF SearchInputs
  <2>. DEFINE all == Searching!AllPairs(Wallets)
              most == mostChannels[n]
              there == Channels(n)
  <2>3. all \in Int /\ most \in Nat /\ most <= all /\ n \in Nat /\ n >= 3 /\ there \in Nat
    BY <1>1, <2>1, <2>2 DEF SearchInputs
  <2>. HIDE DEF all, most, there
  <2>4. k \in 3 .. all /\ k >= n /\ k <= most /\ k <= there
          <=> k \in Nat /\ n <= k /\ k <= most /\ k <= there
    BY <2>3
  <2>. QED
    BY <2>4 DEF all, most, there, Possible
<1>3. Searching!Options =
        {r \in [participants : 3 .. Wallets, channels : 3 .. Searching!AllPairs(Wallets)] :
           /\ r.channels >= r.participants
           /\ r.channels <= mostChannels[r.participants]
           /\ r.channels <= Channels(r.participants)}
  <2>1. mode # "participants"
    OBVIOUS
  <2>. QED
    BY <2>1, SameCardinality, Zenon DEF Searching!Options, Channels
<1>4. ASSUME NEW r, r \in Searching!Options
      PROVE  \E n \in 3 .. Wallets, k \in Nat : r = Round(n, k) /\ Possible(n, k)
  <2>1. r.participants \in 3 .. Wallets /\ r = Round(r.participants, r.channels)
    BY <1>3, <1>4 DEF Round
  <2>2. r.channels \in Nat /\ Possible(r.participants, r.channels)
    BY <1>2, <1>3, <1>4, <2>1
  <2>. QED
    BY <2>1, <2>2
<1>5. ASSUME NEW n \in 3 .. Wallets, NEW k \in Nat, Possible(n, k)
      PROVE  Round(n, k) \in Searching!Options
  BY <1>2, <1>3, <1>5 DEF Round
<1>. QED
  BY <1>4, <1>5

\* No step changes the inputs, nor what depends on them only.
LEMMA InputsStay ==
  ASSUME UNCHANGED Searching!inputs
  PROVE  /\ UNCHANGED <<mode, cap, pairs, mostChannels, longestRing>>
         /\ SearchInputs' <=> SearchInputs
         /\ Searching!SupportedRing' = Searching!SupportedRing
         /\ \A n : Channels(n)' = Channels(n)
         /\ \A n, k : Possible(n, k)' <=> Possible(n, k)
         /\ \A n : RingPossible(n)' <=> RingPossible(n)
         /\ \A n : HasRound(n)' <=> HasRound(n)
<1>1. UNCHANGED <<mode, cap, pairs, mostChannels, longestRing>>
  BY DEF Searching!inputs
<1>2. Searching!SupportedRing' = Searching!SupportedRing
  BY <1>1 DEF Searching!SupportedRing, Searching!Edges
<1>3. \A n : Channels(n)' = Channels(n)
  BY <1>1 DEF Channels, Searching!Eligible, Searching!Edges
<1>4. \A n, k : Possible(n, k)' <=> Possible(n, k)
  BY <1>1, <1>3 DEF Possible
<1>5. \A n : RingPossible(n)' <=> RingPossible(n)
  BY <1>1, <1>2 DEF RingPossible
<1>6. \A n : HasRound(n)' <=> HasRound(n)
  BY <1>4 DEF HasRound
<1>7. SearchInputs' <=> SearchInputs
  BY <1>1, <1>3 DEF SearchInputs
<1>. QED
  BY <1>1, <1>2, <1>3, <1>4, <1>5, <1>6, <1>7

\* One probe between the bounds.
LEMMA ProbeHalves ==
  ASSUME NEW first \in Nat, NEW last \in Int, NEW executable \in Nat, first >= 3,
         Halving(first, last, executable), low <= high,
         IF Middle <= executable
         THEN found' = Middle /\ low' = Middle + 1 /\ high' = high
         ELSE high' = Middle - 1 /\ found' = found /\ low' = low
  PROVE  /\ low' \in Nat /\ high' \in Nat
         /\ first <= low' /\ low' <= high' + 1 /\ high' <= last
         /\ \/ found' = 0 /\ low' = first
            \/ found' = low' - 1 /\ first <= found' /\ found' <= executable
         /\ high' = last \/ executable <= high'
<1>. DEFINE value == Middle
<1>1. /\ low \in Nat /\ high \in Nat /\ first <= low /\ high <= last
      /\ \/ found = 0 /\ low = first
         \/ found = low - 1 /\ first <= found /\ found <= executable
      /\ high = last \/ executable <= high
  BY DEF Halving
<1>2. value \in Nat /\ low <= value /\ value <= high
  BY <1>1 DEF Middle
<1>. HIDE DEF value
<1>3. CASE value <= executable
  <2>1. found' = value /\ low' = value + 1 /\ high' = high
    BY <1>3 DEF value
  <2>. QED
    BY <1>1, <1>2, <1>3, <2>1
<1>4. CASE ~(value <= executable)
  <2>1. high' = value - 1 /\ found' = found /\ low' = low
    BY <1>4 DEF value
  <2>. QED
    BY <1>1, <1>2, <1>4, <2>1
<1>. QED
  BY <1>3, <1>4

-----------------------------------------------------------------------------
(***************************************************************************)
(* The search for rings.                                                   *)
(***************************************************************************)
LEMMA RingsStart ==
  ASSUME SearchInputs, mode = "participants", RingsInvariant, Searching!StartRings
  PROVE  RingsInvariant'
<1>. DEFINE top == Searching!SupportedRing
<1>1. pc = "next" /\ best = Searching!None /\ found = 0 /\ best' = best /\ found' = found
  BY DEF RingsInvariant, Searching!StartRings
<1>2. /\ top' = top /\ \A n : RingPossible(n)' <=> RingPossible(n)
      /\ longestRing' = longestRing
  BY InputsStay DEF Searching!StartRings
<1>3. Wallets \in Nat /\ top \in Nat /\ top <= Wallets
  BY SupportedRings, RoundSearchAssumption DEF Searching!SearchAssumption
<1>4. CASE top < 3
  <2>1. pc' = "failed"
    BY <1>4 DEF Searching!StartRings
  <2>2. \A n \in 3 .. Wallets : ~RingPossible(n)
    <3>. HIDE DEF top
    <3>1. \A n \in 3 .. Wallets : ~(n <= top)
      BY <1>3, <1>4
    <3>. QED
      BY <3>1 DEF RingPossible, top
  <2>3. \A n \in 3 .. Wallets : ~RingPossible(n)'
    BY <1>2, <2>2
  <2>. QED
    BY <1>1, <2>1, <2>3 DEF RingsInvariant, Searching!None
<1>5. CASE ~(top < 3)
  <2>1. pc' = "probe" /\ low' = 3 /\ high' = Searching!Min({Wallets, top})
    BY <1>5 DEF Searching!StartRings
  <2>2. high' = top
    <3>. HIDE DEF top
    <3>. QED
      BY <1>3, <2>1, SmallerLarger
  <2>3. Halving(3, top, longestRing)'
    <3>1. /\ low' \in Nat /\ high' \in Nat
          /\ 3 <= low' /\ low' <= high' + 1 /\ high' <= top
          /\ found' = 0 /\ low' = 3 /\ high' = top
      <4>. HIDE DEF top
      <4>. QED
        BY <1>1, <1>3, <1>5, <2>1, <2>2
    <3>. QED
      BY <1>2, <3>1 DEF Halving
  <2>. QED
    BY <1>1, <2>1, <2>3 DEF RingsInvariant, Searching!None
<1>. QED
  BY <1>4, <1>5

\* A probe halves what is left of the range.
LEMMA RingsProbe ==
  ASSUME SearchInputs, mode = "participants", RingsInvariant, Searching!Probe
  PROVE  RingsInvariant'
<1>. DEFINE top == Searching!SupportedRing
<1>1. /\ pc = "probe" /\ best = Searching!None /\ Halving(3, top, longestRing)
      /\ pc' = pc /\ best' = best /\ low <= high
  BY DEF RingsInvariant, Searching!Probe
<1>2. top' = top /\ longestRing' = longestRing
  BY InputsStay DEF Searching!Probe
<1>3. top \in Nat /\ longestRing \in Nat
  BY SupportedRings DEF SearchInputs
<1>4. IF Middle <= longestRing
      THEN found' = Middle /\ low' = Middle + 1 /\ high' = high
      ELSE high' = Middle - 1 /\ found' = found /\ low' = low
  BY DEF Searching!Probe, Searching!Executable, Searching!Above, Middle
<1>5. /\ low' \in Nat /\ high' \in Nat
      /\ 3 <= low' /\ low' <= high' + 1 /\ high' <= top
      /\ \/ found' = 0 /\ low' = 3
         \/ found' = low' - 1 /\ 3 <= found' /\ found' <= longestRing
      /\ high' = top \/ longestRing <= high'
  <2>. HIDE DEF top
  <2>. QED
    BY <1>1, <1>3, <1>4, ProbeHalves
<1>6. Halving(3, top, longestRing)'
  BY <1>2, <1>5 DEF Halving
<1>. QED
  BY <1>1, <1>6 DEF RingsInvariant, Searching!None

\* The search for rings ends with the longest, or with none.
LEMMA RingsEnd ==
  ASSUME SearchInputs, mode = "participants", RingsInvariant, Searching!EndSearch
  PROVE  RingsInvariant'
<1>. DEFINE top == Searching!SupportedRing
<1>1. /\ pc = "probe" /\ best = Searching!None /\ Halving(3, top, longestRing)
      /\ low > high /\ mode # "channels"
  BY DEF RingsInvariant, Searching!EndSearch
<1>2. /\ \A n : RingPossible(n)' <=> RingPossible(n)
      /\ longestRing' = longestRing
  BY InputsStay DEF Searching!EndSearch
<1>3. top \in Nat /\ top <= Wallets /\ longestRing \in Nat /\ Wallets \in Nat
  BY SupportedRings, RoundSearchAssumption DEF SearchInputs, Searching!SearchAssumption
<1>4. /\ low = high + 1 /\ high \in Nat /\ high <= top
      /\ (found = 0 /\ low = 3) \/ (found = high /\ 3 <= found /\ found <= longestRing)
      /\ high = top \/ longestRing <= high
  <2>. HIDE DEF top
  <2>. QED
    BY <1>1, <1>3 DEF Halving
<1>5. \A n \in 3 .. Wallets : RingPossible(n) => n <= high
  <2>1. \A n \in 3 .. Wallets : RingPossible(n) => n <= top /\ n <= longestRing
    BY DEF RingPossible
  <2>. HIDE DEF top
  <2>. QED
    BY <1>3, <1>4, <2>1
<1>6. CASE found = 0
  <2>1. pc' = "failed" /\ best' = best
    BY <1>1, <1>6 DEF Searching!EndSearch, Searching!GiveUp
  <2>2. \A n \in 3 .. Wallets : ~RingPossible(n)
    <3>1. high = 2
      BY <1>4, <1>6
    <3>. QED
      BY <1>5, <3>1
  <2>3. \A n \in 3 .. Wallets : ~RingPossible(n)'
    BY <1>2, <2>2
  <2>. QED
    BY <1>1, <2>1, <2>3 DEF RingsInvariant, Searching!None
<1>7. CASE found # 0
  <2>1. found \in 3 .. Wallets /\ RingPossible(found) /\ found = high
    <3>1. found = high /\ 3 <= found /\ found <= longestRing
      BY <1>4, <1>7
    <3>2. found <= top /\ found \in 3 .. Wallets
      <4>. HIDE DEF top
      <4>. QED
        BY <1>3, <1>4, <3>1
    <3>. QED
      BY <3>1, <3>2 DEF RingPossible
  <2>2. pc' = "done" /\ best' = Round(found, found)
    <3>1. Searching!Candidate = Round(found, found)
      BY DEF Searching!Candidate, Round
    <3>2. Searching!IsBetter(Searching!Candidate)
      BY <1>1, <2>1, <3>1 DEF Searching!IsBetter, Searching!None, Round
    <3>3. best' = IF Searching!IsBetter(Searching!Candidate) THEN Searching!Candidate ELSE best
      BY <1>7 DEF Searching!EndSearch
    <3>4. best' = Searching!Candidate
      BY <3>2, <3>3, Zenon
    <3>. QED
      BY <1>1, <1>7, <3>1, <3>4 DEF Searching!EndSearch
  <2>3. PICK n \in 3 .. Wallets : n = found
    BY <2>1
  <2>4. /\ best' = Round(n, n) /\ RingPossible(n)'
        /\ \A j \in 3 .. Wallets : RingPossible(j)' => j <= n
    <3>1. RingPossible(n) /\ \A j \in 3 .. Wallets : RingPossible(j) => j <= n
      BY <1>5, <2>1, <2>3
    <3>. QED
      BY <1>2, <2>2, <2>3, <3>1
  <2>. QED
    BY <2>2, <2>4 DEF RingsInvariant, Round
<1>. QED
  BY <1>6, <1>7

\* A probe that throws ends the search for rings: an error is counted.
LEMMA RingsThrow ==
  ASSUME SearchInputs, mode = "participants", errors \in Nat, RingsInvariant,
         Searching!ProbeThrows
  PROVE  RingsInvariant'
<1>1. /\ pc = "probe" /\ best = Searching!None /\ mode # "channels"
      /\ pc' = "failed" /\ best' = best /\ errors' = errors + 1
  BY DEF RingsInvariant, Searching!ProbeThrows, Searching!GiveUp
<1>2. errors' # 0
  BY <1>1
<1>. QED
  BY <1>1, <1>2 DEF RingsInvariant, Searching!None

\* Nothing happens to the search.
LEMMA RingsStutter ==
  ASSUME RingsInvariant, UNCHANGED Searching!searchVars
  PROVE  RingsInvariant'
<1>1. /\ UNCHANGED <<pc, low, high, found, best, errors>>
      /\ Searching!SupportedRing' = Searching!SupportedRing
      /\ longestRing' = longestRing
      /\ \A n : RingPossible(n)' <=> RingPossible(n)
  BY InputsStay DEF Searching!searchVars
<1>2. Halving(3, Searching!SupportedRing, longestRing)
        => Halving(3, Searching!SupportedRing, longestRing)'
  BY <1>1 DEF Halving
<1>. QED
  BY <1>1, <1>2 DEF RingsInvariant, Searching!None, Round

-----------------------------------------------------------------------------
(***************************************************************************)
(* The search for channels.                                                *)
(***************************************************************************)
LEMMA BestSoFar ==
  ASSUME ChannelsProgress
  PROVE  /\ tried \in Nat /\ tried >= 2 /\ tried <= Wallets /\ Wallets \in Nat
         /\ best.channels \in Nat /\ best.participants \in Nat
         /\ IF best = Searching!None
            THEN best.channels = 0 /\ best.participants = 0
            ELSE best.participants > tried
<1>1. Wallets \in Nat /\ tried \in 2 .. Wallets
  BY RoundSearchAssumption DEF Searching!SearchAssumption, ChannelsProgress
<1>2. CASE best = Searching!None
  BY <1>1, <1>2 DEF Searching!None
<1>3. CASE best # Searching!None
  <2>1. PICK n \in Searched, k \in Nat : best = Round(n, k)
    BY <1>3 DEF ChannelsProgress
  <2>2. best.channels = k /\ best.participants = n
    BY <2>1 DEF Round
  <2>. QED
    BY <1>1, <1>3, <2>2 DEF Searched
<1>. QED
  BY <1>1, <1>2, <1>3

\* Which rounds are better than the best so far.
LEMMA Better ==
  ASSUME NEW n, NEW k
  PROVE  /\ Searching!IsBetter(Round(n, k)) <=>
              k > best.channels \/ (k = best.channels /\ n > best.participants)
         /\ Searching!IsBetter(Round(n, k))' <=>
              k > best'.channels \/ (k = best'.channels /\ n > best'.participants)
BY DEF Searching!IsBetter, Round

\* The number tried is done with when none of its rounds is better than the best,
\* or the largest of them is the best now, or a probe threw.
LEMMA NumberDone ==
  ASSUME SearchInputs, ChannelsProgress, errors \in Nat,
         UNCHANGED Searching!inputs, tried >= 3, tried' = tried - 1,
         \/ /\ best' = best
            /\ \/ /\ errors' = errors
                  /\ \A k \in Nat : Possible(tried, k) => k <= best.channels
               \/ errors' = errors + 1
         \/ /\ errors' = errors
            /\ \E f \in Nat :
                 /\ best' = Round(tried, f) /\ Possible(tried, f) /\ f > best.channels
                 /\ \A k \in Nat : Possible(tried, k) => k <= f
  PROVE  ChannelsProgress'
<1>. DEFINE Older == {n \in Searched : HasRound(n)}
            Newer == {n \in Searched' : HasRound(n)'}
<1>0. PICK t \in 3 .. Wallets : t = tried
  BY BestSoFar
<1>1. /\ tried' \in 2 .. Wallets
      /\ \A n : n \in Searched' <=> n \in Searched \/ n = t
  BY <1>0, BestSoFar DEF Searched
<1>2. /\ \A n, k : Possible(n, k)' <=> Possible(n, k)
      /\ \A n : HasRound(n)' <=> HasRound(n)
  BY InputsStay
<1>3. errors' = 0 => errors = 0
  OBVIOUS
<1>4. \A k \in Nat : Possible(t, k) => k >= t
  BY <1>0 DEF Possible
<1>5. CASE best' = best
  <2>1. errors' = errors => \A k \in Nat : Possible(t, k) => k <= best.channels
    <3>1. ASSUME errors' = errors, ~(\A k \in Nat : Possible(t, k) => k <= best.channels)
          PROVE  FALSE
      <4>1. PICK f \in Nat : best = Round(tried, f) /\ f > best.channels
        BY <1>0, <1>5, <3>1
      <4>2. best.channels = f
        BY <4>1 DEF Round
      <4>. QED
        BY <4>1, <4>2
    <3>. QED
      BY <3>1
  <2>2. \/ best' = Searching!None
        \/ \E n \in Searched', k \in Nat : best' = Round(n, k) /\ Possible(n, k)'
    BY <1>1, <1>2, <1>5 DEF ChannelsProgress
  <2>3. ASSUME errors' = 0, NEW n \in Searched', NEW k \in Nat, Possible(n, k)
        PROVE  ~Searching!IsBetter(Round(n, k))'
    <3>1. CASE n \in Searched
      <4>1. ~Searching!IsBetter(Round(n, k))
        BY <1>3, <2>3, <3>1 DEF ChannelsProgress
      <4>. QED
        BY <1>5, <4>1, Better
    <3>2. CASE n = t
      <4>1. errors' = errors
        BY <1>3, <2>3
      <4>2. k <= best.channels /\ k >= t
        BY <1>4, <2>1, <2>3, <3>2, <4>1
      <4>3. best.channels # 0 /\ best.participants > t /\ best.participants \in Nat
            /\ best.channels \in Nat
        BY <1>0, <4>2, BestSoFar
      <4>4. ~(k > best.channels) /\ ~(n > best.participants)
        BY <3>2, <4>2, <4>3
      <4>. QED
        BY <1>5, <4>4, Better
    <3>. QED
      BY <1>1, <3>1, <3>2
  <2>4. ASSUME best = Searching!None
        PROVE  Cardinality(Newer) <= errors'
    <3>1. Cardinality(Older) <= errors /\ IsFiniteSet(Older) /\ Cardinality(Older) \in Nat
      <4>1. IsFiniteSet(Searched)
        BY BestSoFar, FS_Interval DEF Searched
      <4>2. IsFiniteSet(Older)
        BY <4>1, FS_Subset
      <4>. QED
        BY <2>4, <4>2, FS_CardinalityType DEF ChannelsProgress
    <3>2. CASE errors' = errors + 1
      <4>1. Newer \subseteq Older \cup {t}
        BY <1>1, <1>2
      <4>. HIDE DEF Older, Newer
      <4>2. IsFiniteSet(Newer) /\ Cardinality(Newer) <= Cardinality(Older) + 1
        BY <3>1, <4>1, AtMostOneMore
      <4>3. Cardinality(Newer) \in Nat
        BY <4>2, FS_CardinalityType
      <4>. QED
        BY <3>1, <3>2, <4>2, <4>3
    <3>3. CASE errors' = errors
      <4>1. best.channels = 0
        BY <2>4, BestSoFar
      <4>2. ~HasRound(t)
        <5>1. ASSUME NEW k \in Nat, Possible(t, k) PROVE FALSE
          BY <1>0, <1>4, <2>1, <3>3, <4>1, <5>1
        <5>. QED
          BY <5>1 DEF HasRound
      <4>3. Newer = Older
        BY <1>1, <1>2, <4>2
      <4>. HIDE DEF Older, Newer
      <4>. QED
        BY <3>1, <3>3, <4>3
    <3>4. errors' = errors \/ errors' = errors + 1
      OBVIOUS
    <3>. QED
      BY <3>2, <3>3, <3>4
  <2>5. best' = Searching!None => Cardinality(Newer) <= errors'
    BY <1>5, <2>4
  <2>. QED
    BY <1>1, <1>2, <2>2, <2>3, <2>5 DEF ChannelsProgress, Searching!None, Round
<1>6. CASE best' # best
  <2>1. PICK f \in Nat :
          /\ best' = Round(tried, f) /\ Possible(tried, f) /\ f > best.channels
          /\ \A k \in Nat : Possible(tried, k) => k <= f
    BY <1>6
  <2>2. best'.channels = f /\ best'.participants = t /\ best' = Round(t, f)
    BY <1>0, <2>1 DEF Round
  <2>3. best' # Searching!None
    BY <1>0, <2>2 DEF Searching!None
  <2>4. \E n \in Searched', k \in Nat : best' = Round(n, k) /\ Possible(n, k)'
    BY <1>0, <1>1, <1>2, <2>1, <2>2
  <2>5. ASSUME errors' = 0, NEW n \in Searched', NEW k \in Nat, Possible(n, k)
        PROVE  ~Searching!IsBetter(Round(n, k))'
    <3>1. CASE n \in Searched
      <4>1. ~Searching!IsBetter(Round(n, k))
        BY <1>3, <2>5, <3>1 DEF ChannelsProgress
      <4>2. k <= best.channels
        BY <4>1, Better, BestSoFar
      <4>. QED
        BY <2>1, <2>2, <4>2, Better, BestSoFar
    <3>2. CASE n = t
      <4>1. k <= f
        BY <1>0, <2>1, <2>5, <3>2
      <4>. QED
        BY <1>0, <2>2, <3>2, <4>1, Better
    <3>. QED
      BY <1>1, <3>1, <3>2
  <2>. QED
    BY <1>1, <1>2, <2>3, <2>4, <2>5 DEF ChannelsProgress, Searching!None, Round
<1>. QED
  BY <1>5, <1>6

\* The cap never cuts off what the graph has: the graph was built under it.
LEMMA UpperBounds ==
  ASSUME SearchInputs, NEW n \in 3 .. Wallets
  PROVE  Searching!UpperBound(n) = Channels(n) /\ Channels(n) \in Nat
<1>1. cap \in Nat /\ Channels(n) \in Nat /\ Channels(n) <= cap
  BY DEF SearchInputs
<1>2. Searching!UpperBound(n) = Searching!Min({cap, Channels(n)})
  BY SameCardinality DEF Searching!UpperBound, Channels
<1>3. Searching!UpperBound(n) = IF cap <= Channels(n) THEN cap ELSE Channels(n)
  BY <1>1, <1>2, SmallerLarger
<1>. QED
  BY <1>1, <1>3

\* The next number of participants is tried or skipped: what is skipped can do no
\* better than the best so far, and what is tried can be better from Lowest on.
LEMMA ChannelsStart ==
  ASSUME SearchInputs, mode = "channels", errors \in Nat, ChannelsInvariant,
         Searching!StartChannels
  PROVE  ChannelsInvariant'
<1>1. /\ pc = "next" /\ ChannelsProgress
      /\ UNCHANGED Searching!inputs /\ best' = best /\ errors' = errors
  BY DEF Searching!StartChannels, ChannelsInvariant
<1>2. /\ \A n : Channels(n)' = Channels(n)
      /\ \A n, k : Possible(n, k)' <=> Possible(n, k)
      /\ \A n : HasRound(n)' <=> HasRound(n)
      /\ mostChannels' = mostChannels
  BY <1>1, InputsStay
<1>3. tried' = tried => ChannelsProgress'
  BY <1>1, <1>2 DEF ChannelsProgress, Searched, Searching!None, Round, Searching!IsBetter
<1>4. CASE tried < 3
  <2>1. tried = 2 /\ tried' = tried
    BY <1>1, <1>4, BestSoFar DEF Searching!StartChannels
  <2>2. pc' = IF best = Searching!None THEN "failed" ELSE "done"
    BY <1>4 DEF Searching!StartChannels
  <2>. QED
    BY <1>1, <1>3, <2>1, <2>2 DEF ChannelsInvariant, Searching!None
<1>5. CASE tried >= 3
  <2>1. PICK t \in 3 .. Wallets : t = tried
    BY <1>1, <1>5, BestSoFar
  <2>2. Searching!UpperBound(tried) = Channels(tried) /\ Channels(tried) \in Nat
    BY <2>1, UpperBounds
  <2>3. ~(tried < 3)
    BY <1>1, <1>5, BestSoFar
  <2>4. CASE Searching!WorthTrying(tried)
    <3>1. /\ low' = Searching!Max({tried, best.channels + 1})
          /\ high' = Channels(tried) /\ found' = 0 /\ pc' = "probe" /\ tried' = tried
      BY <2>2, <2>3, <2>4 DEF Searching!StartChannels
    <3>2. low' = Lowest /\ low' \in Nat /\ Lowest >= tried /\ Lowest >= best.channels + 1
      <4>1. tried \in Int /\ best.channels + 1 \in Int
        BY <1>1, BestSoFar
      <4>2. low' = IF tried >= best.channels + 1 THEN tried ELSE best.channels + 1
        BY <3>1, <4>1, SmallerLarger
      <4>. QED
        BY <1>1, <4>1, <4>2, BestSoFar DEF Lowest
    <3>3. Lowest <= Channels(tried)
      <4>1. /\ Channels(tried) >= tried
            /\ best = Searching!None \/ Channels(tried) > best.channels
        BY <2>2, <2>4 DEF Searching!WorthTrying
      <4>. QED
        BY <1>1, <2>2, <4>1, BestSoFar DEF Lowest
    <3>4. Lowest' = Lowest /\ Channels(tried)' = Channels(tried)
          /\ mostChannels[tried]' = mostChannels[tried]
      BY <1>1, <1>2, <3>1 DEF Lowest
    <3>5. Halving(Lowest, Channels(tried), mostChannels[tried])'
      BY <2>2, <3>1, <3>2, <3>3, <3>4 DEF Halving
    <3>. QED
      BY <1>3, <1>5, <3>1, <3>5 DEF ChannelsInvariant
  <2>5. CASE ~Searching!WorthTrying(tried)
    <3>1. tried' = tried - 1 /\ pc' = pc
      BY <2>3, <2>5 DEF Searching!StartChannels
    <3>2. ASSUME NEW k \in Nat, Possible(tried, k)
          PROVE  k <= best.channels
      <4>1. k >= tried /\ k <= Channels(tried)
        BY <1>1, <2>2, <3>2, BestSoFar DEF Possible
      <4>2. ~(Channels(tried) >= tried /\ (best = Searching!None \/ Channels(tried) > best.channels))
        BY <2>2, <2>5 DEF Searching!WorthTrying
      <4>. QED
        BY <1>1, <2>2, <4>1, <4>2, BestSoFar
    <3>3. ChannelsProgress'
      BY <1>1, <1>5, <3>1, <3>2, NumberDone
    <3>. QED
      BY <1>1, <3>1, <3>3 DEF ChannelsInvariant
  <2>. QED
    BY <2>4, <2>5
<1>. QED
  BY <1>1, <1>4, <1>5, BestSoFar

\* A probe halves what is left of the range.
LEMMA ChannelsProbe ==
  ASSUME SearchInputs, mode = "channels", errors \in Nat, ChannelsInvariant, Searching!Probe
  PROVE  ChannelsInvariant'
<1>1. /\ pc = "probe" /\ ChannelsProgress /\ tried >= 3
      /\ Halving(Lowest, Channels(tried), mostChannels[tried])
      /\ UNCHANGED Searching!inputs /\ UNCHANGED <<pc, tried, best, errors>> /\ low <= high
  BY DEF Searching!Probe, ChannelsInvariant
<1>2. /\ \A n : Channels(n)' = Channels(n)
      /\ \A n, k : Possible(n, k)' <=> Possible(n, k)
      /\ \A n : HasRound(n)' <=> HasRound(n)
      /\ mostChannels' = mostChannels
  BY <1>1, InputsStay
<1>3. ChannelsProgress'
  BY <1>1, <1>2 DEF ChannelsProgress, Searched, Searching!None, Round, Searching!IsBetter
<1>4. PICK t \in 3 .. Wallets : t = tried
  BY <1>1, BestSoFar
<1>5. /\ Lowest \in Nat /\ Lowest >= 3 /\ mostChannels[tried] \in Nat
      /\ Channels(tried) \in Int
  <2>1. Lowest \in Nat /\ Lowest >= 3
    BY <1>1, BestSoFar DEF Lowest
  <2>2. mostChannels[t] \in Nat /\ Channels(t) \in Nat
    BY DEF SearchInputs
  <2>. QED
    BY <1>4, <2>1, <2>2
<1>6. IF Middle <= mostChannels[tried]
      THEN found' = Middle /\ low' = Middle + 1 /\ high' = high
      ELSE high' = Middle - 1 /\ found' = found /\ low' = low
  BY DEF Searching!Probe, Searching!Executable, Searching!Above, Middle
<1>7. /\ low' \in Nat /\ high' \in Nat
      /\ Lowest <= low' /\ low' <= high' + 1 /\ high' <= Channels(tried)
      /\ \/ found' = 0 /\ low' = Lowest
         \/ found' = low' - 1 /\ Lowest <= found' /\ found' <= mostChannels[tried]
      /\ high' = Channels(tried) \/ mostChannels[tried] <= high'
  <2>. DEFINE l == Lowest
              c == Channels(tried)
              e == mostChannels[tried]
  <2>1. l \in Nat /\ l >= 3 /\ e \in Nat /\ c \in Int /\ Halving(l, c, e)
    BY <1>1, <1>5
  <2>2. IF Middle <= e
        THEN found' = Middle /\ low' = Middle + 1 /\ high' = high
        ELSE high' = Middle - 1 /\ found' = found /\ low' = low
    BY <1>6
  <2>. HIDE DEF l, c, e
  <2>3. /\ low' \in Nat /\ high' \in Nat
        /\ l <= low' /\ low' <= high' + 1 /\ high' <= c
        /\ \/ found' = 0 /\ low' = l
           \/ found' = low' - 1 /\ l <= found' /\ found' <= e
        /\ high' = c \/ e <= high'
    BY <1>1, <2>1, <2>2, ProbeHalves
  <2>. QED
    BY <2>3 DEF l, c, e
<1>8. Lowest' = Lowest /\ Channels(tried)' = Channels(tried)
      /\ mostChannels[tried]' = mostChannels[tried]
  BY <1>1, <1>2 DEF Lowest
<1>9. Halving(Lowest, Channels(tried), mostChannels[tried])'
  BY <1>7, <1>8 DEF Halving
<1>. QED
  BY <1>1, <1>3, <1>9 DEF ChannelsInvariant

\* What the halving found is the most that this number of participants admits; it
\* replaces the best if it is better.
LEMMA ChannelsEnd ==
  ASSUME SearchInputs, mode = "channels", errors \in Nat, ChannelsInvariant,
         Searching!EndSearch
  PROVE  ChannelsInvariant'
<1>1. /\ pc = "probe" /\ ChannelsProgress /\ tried >= 3
      /\ Halving(Lowest, Channels(tried), mostChannels[tried])
      /\ UNCHANGED Searching!inputs /\ errors' = errors /\ low > high
  BY DEF Searching!EndSearch, ChannelsInvariant
<1>2. pc' = "next" /\ tried' = tried - 1
  BY DEF Searching!EndSearch, Searching!GiveUp
<1>3. PICK t \in 3 .. Wallets : t = tried
  BY <1>1, BestSoFar
<1>4. mostChannels[tried] \in Nat /\ Channels(tried) \in Nat
  <2>1. mostChannels[t] \in Nat /\ Channels(t) \in Nat
    BY DEF SearchInputs
  <2>. QED
    BY <1>3, <2>1
<1>5. Lowest \in Nat /\ Lowest >= tried /\ Lowest >= best.channels + 1
      /\ (Lowest = tried \/ Lowest = best.channels + 1)
  BY <1>1, BestSoFar DEF Lowest
<1>6. /\ high \in Nat /\ high <= Channels(tried) /\ Lowest <= high + 1
      /\ \/ found = 0 /\ high + 1 = Lowest
         \/ found = high /\ Lowest <= found /\ found <= mostChannels[tried]
      /\ high = Channels(tried) \/ mostChannels[tried] <= high
  <2>. DEFINE l == Lowest
              c == Channels(tried)
              e == mostChannels[tried]
  <2>1. l \in Nat /\ e \in Nat /\ c \in Nat /\ Halving(l, c, e) /\ low > high
    BY <1>1, <1>4, <1>5
  <2>. HIDE DEF l, c, e
  <2>2. /\ high \in Nat /\ high <= c /\ l <= high + 1
        /\ \/ found = 0 /\ high + 1 = l
           \/ found = high /\ l <= found /\ found <= e
        /\ high = c \/ e <= high
    BY <2>1 DEF Halving
  <2>. QED
    BY <2>2 DEF l, c, e
<1>7. ASSUME NEW k \in Nat, Possible(tried, k) PROVE k <= high /\ k >= tried
  <2>1. tried <= k /\ k <= mostChannels[tried] /\ k <= Channels(tried)
    BY <1>7 DEF Possible
  <2>. QED
    BY <1>1, <1>4, <1>6, <2>1, BestSoFar
<1>8. CASE found = 0
  <2>1. best' = best
    BY <1>8 DEF Searching!EndSearch, Searching!GiveUp
  <2>2. high + 1 = Lowest
    BY <1>1, <1>5, <1>6, <1>8, BestSoFar
  <2>3. ASSUME NEW k \in Nat, Possible(tried, k) PROVE k <= best.channels
    BY <1>1, <1>5, <1>6, <1>7, <2>2, <2>3, BestSoFar
  <2>4. ChannelsProgress'
    BY <1>1, <1>2, <2>1, <2>3, NumberDone
  <2>. QED
    BY <1>2, <2>4 DEF ChannelsInvariant
<1>9. CASE found # 0
  <2>1. /\ found = high /\ found \in Nat /\ found > best.channels
        /\ found >= tried /\ found <= mostChannels[tried] /\ found <= Channels(tried)
    BY <1>1, <1>5, <1>6, <1>9, BestSoFar
  <2>2. Possible(tried, found)
    BY <2>1, BestSoFar, <1>1 DEF Possible
  <2>3. best' = Round(tried, found)
    <3>1. Searching!Candidate = Round(tried, found)
      BY DEF Searching!Candidate, Round
    <3>2. Searching!IsBetter(Searching!Candidate)
      BY <2>1, <3>1 DEF Searching!IsBetter, Round
    <3>3. best' = IF Searching!IsBetter(Searching!Candidate) THEN Searching!Candidate ELSE best
      BY <1>9 DEF Searching!EndSearch
    <3>. QED
      BY <3>1, <3>2, <3>3, Zenon
  <2>4. \A k \in Nat : Possible(tried, k) => k <= found
    BY <1>7, <2>1
  <2>5. ChannelsProgress'
    BY <1>1, <1>2, <2>1, <2>2, <2>3, <2>4, NumberDone
  <2>. QED
    BY <1>2, <2>5 DEF ChannelsInvariant
<1>. QED
  BY <1>8, <1>9

\* A probe that throws gives up one number of participants: an error is counted.
LEMMA ChannelsThrow ==
  ASSUME SearchInputs, mode = "channels", errors \in Nat, ChannelsInvariant,
         Searching!ProbeThrows
  PROVE  ChannelsInvariant'
<1>1. /\ ChannelsProgress /\ tried >= 3
      /\ UNCHANGED Searching!inputs /\ errors' = errors + 1
      /\ best' = best /\ pc' = "next" /\ tried' = tried - 1
  BY DEF Searching!ProbeThrows, Searching!GiveUp, ChannelsInvariant
<1>2. ChannelsProgress'
  BY <1>1, NumberDone
<1>. QED
  BY <1>1, <1>2 DEF ChannelsInvariant

\* Nothing happens to the search.
LEMMA ChannelsStutter ==
  ASSUME ChannelsInvariant, UNCHANGED Searching!searchVars
  PROVE  ChannelsInvariant'
<1>1. /\ UNCHANGED <<pc, tried, low, high, found, best, errors>>
      /\ mostChannels' = mostChannels
      /\ \A n : Channels(n)' = Channels(n)
      /\ \A n, k : Possible(n, k)' <=> Possible(n, k)
      /\ \A n : HasRound(n)' <=> HasRound(n)
  BY InputsStay DEF Searching!searchVars
<1>2. ChannelsProgress => ChannelsProgress'
  BY <1>1 DEF ChannelsProgress, Searched, Searching!None, Round, Searching!IsBetter
<1>3. Halving(Lowest, Channels(tried), mostChannels[tried])
        => Halving(Lowest, Channels(tried), mostChannels[tried])'
  BY <1>1 DEF Halving, Lowest
<1>. QED
  BY <1>1, <1>2, <1>3 DEF ChannelsInvariant, Searching!None

-----------------------------------------------------------------------------
\* Every step of the search, and of the others, keeps the invariant.
LEMMA SearchStep ==
  ASSUME SearchInvariant,
         Searching!SearchNext \/ UNCHANGED Searching!searchVars
  PROVE  SearchInvariant'
<1>1. /\ SearchInputs /\ errors \in Nat
      /\ mode = "participants" => RingsInvariant
      /\ mode = "channels" => ChannelsInvariant
  BY DEF SearchInvariant
<1>2. SearchInputs' /\ mode' = mode
  <2>1. UNCHANGED Searching!inputs
    BY DEF Searching!SearchNext, Searching!SearchStep, Searching!StartRings,
           Searching!StartChannels, Searching!Probe, Searching!ProbeThrows,
           Searching!EndSearch, Searching!searchVars
  <2>. QED
    BY <1>1, <2>1, InputsStay
<1>3. errors' \in Nat
  BY <1>1 DEF Searching!SearchNext, Searching!SearchStep, Searching!StartRings,
              Searching!StartChannels, Searching!Probe, Searching!ProbeThrows,
              Searching!EndSearch, Searching!searchVars
<1>4. ASSUME mode = "participants" PROVE RingsInvariant'
  <2>1. ~Searching!StartChannels
    BY <1>4 DEF Searching!StartChannels
  <2>. QED
    BY <1>1, <1>4, <2>1, RingsStart, RingsProbe, RingsEnd, RingsThrow, RingsStutter
    DEF Searching!SearchNext, Searching!SearchStep
<1>5. ASSUME mode = "channels" PROVE ChannelsInvariant'
  <2>1. ~Searching!StartRings
    BY <1>5 DEF Searching!StartRings
  <2>. QED
    BY <1>1, <1>5, <2>1, ChannelsStart, ChannelsProbe, ChannelsEnd, ChannelsThrow,
       ChannelsStutter
    DEF Searching!SearchNext, Searching!SearchStep
<1>. QED
  BY <1>2, <1>3, <1>4, <1>5 DEF SearchInvariant

\* What the invariant says of a search that has ended.
LEMMA LargestFound ==
  ASSUME SearchInvariant
  PROVE  Searching!SearchFindsTheLargest /\ Searching!ErrorsCostOneCount
<1>1. SearchInputs /\ errors \in Nat /\ Wallets \in Nat
  BY RoundSearchAssumption DEF SearchInvariant, Searching!SearchAssumption
<1>2. CASE mode = "participants"
  <2>1. RingsInvariant /\ mode # "channels"
    BY <1>2 DEF SearchInvariant
  <2>2. \A r : r \in Searching!Options <=>
                 \E n \in 3 .. Wallets : r = Round(n, n) /\ RingPossible(n)
    BY <1>1, <1>2, RingOptions
  <2>3. best # Searching!None => best \in Searching!Options
    BY <2>1, <2>2 DEF RingsInvariant
  <2>4. ASSUME pc \in {"done", "failed"}, errors = 0, NEW r \in Searching!Options
        PROVE  ~Searching!IsBetter(r)
    <3>1. PICK k \in 3 .. Wallets : r = Round(k, k) /\ RingPossible(k)
      BY <2>2
    <3>2. PICK n \in 3 .. Wallets :
            /\ best = Round(n, n)
            /\ \A j \in 3 .. Wallets : RingPossible(j) => j <= n
      BY <2>1, <2>4, <3>1 DEF RingsInvariant
    <3>3. k <= n /\ best.channels = n /\ best.participants = n
      BY <3>1, <3>2 DEF Round
    <3>. QED
      BY <3>1, <3>3, Better
  <2>. QED
    BY <2>1, <2>3, <2>4 DEF Searching!SearchFindsTheLargest, Searching!ErrorsCostOneCount
<1>3. CASE mode = "channels"
  <2>1. ChannelsProgress /\ ChannelsInvariant
    BY <1>3 DEF SearchInvariant, ChannelsInvariant
  <2>2. \A r : r \in Searching!Options <=>
                 \E n \in 3 .. Wallets, k \in Nat : r = Round(n, k) /\ Possible(n, k)
    BY <1>1, <1>3, ChannelOptions
  <2>3. best # Searching!None => best \in Searching!Options
    <3>1. \A n \in Searched : n \in 3 .. Wallets
      BY <2>1, BestSoFar DEF Searched
    <3>. QED
      BY <2>1, <2>2, <3>1 DEF ChannelsProgress
  <2>4. pc \in {"done", "failed"} => Searched = 3 .. Wallets
    BY <2>1 DEF ChannelsInvariant, Searched
  <2>5. ASSUME pc \in {"done", "failed"}, errors = 0, NEW r \in Searching!Options
        PROVE  ~Searching!IsBetter(r)
    <3>1. PICK n \in 3 .. Wallets, k \in Nat : r = Round(n, k) /\ Possible(n, k)
      BY <2>2
    <3>. QED
      BY <2>1, <2>4, <2>5, <3>1 DEF ChannelsProgress
  <2>6. ASSUME pc = "failed"
        PROVE  Cardinality({r.participants : r \in Searching!Options}) <= errors
    <3>1. {r.participants : r \in Searching!Options} = {n \in Searched : HasRound(n)}
      <4>1. ASSUME NEW r \in Searching!Options
            PROVE  r.participants \in {n \in Searched : HasRound(n)}
        <5>1. PICK n \in 3 .. Wallets, k \in Nat : r = Round(n, k) /\ Possible(n, k)
          BY <2>2
        <5>2. r.participants = n /\ n \in Searched
          BY <2>4, <2>6, <5>1 DEF Round
        <5>. QED
          BY <5>1, <5>2 DEF HasRound
      <4>2. ASSUME NEW n \in Searched, HasRound(n)
            PROVE  \E r \in Searching!Options : n = r.participants
        <5>1. PICK k \in Nat : Possible(n, k)
          BY <4>2 DEF HasRound
        <5>2. n \in 3 .. Wallets
          BY <2>4, <2>6
        <5>3. Round(n, k) \in Searching!Options
          BY <2>2, <5>1, <5>2
        <5>4. Round(n, k).participants = n
          BY DEF Round
        <5>. QED
          BY <5>3, <5>4
      <4>. QED
        BY <4>1, <4>2
    <3>2. best = Searching!None
      BY <2>1, <2>6 DEF ChannelsInvariant
    <3>. QED
      BY <2>1, <3>1, <3>2 DEF ChannelsProgress
  <2>. QED
    BY <2>3, <2>5, <2>6, SameCardinality
    DEF Searching!SearchFindsTheLargest, Searching!ErrorsCostOneCount
<1>4. mode = "participants" \/ mode = "channels"
  BY <1>1 DEF SearchInputs
<1>. QED
  BY <1>2, <1>3, <1>4

-----------------------------------------------------------------------------
(***************************************************************************)
(* The graph is built under the cap (DensePairs).                          *)
(***************************************************************************)
\* A set that contains a subset of S whenever it contains all its proper
\* subsets contains S.
LEMMA SubsetsInduction ==
  ASSUME NEW S, IsFiniteSet(S), NEW T,
         \A s \in SUBSET S : (\A u \in SUBSET s : u # s => u \in T) => s \in T
  PROVE  \A s \in SUBSET S : s \in T
<1>. DEFINE Bad == (SUBSET S) \ T
<1>1. SUFFICES ASSUME Bad # {} PROVE FALSE
  OBVIOUS
<1>2. PICK s \in Bad : \A u \in Bad : <<u, s>> \notin StrictSubsetOrdering(S)
  <2>1. IsWellFoundedOn(StrictSubsetOrdering(S), SUBSET S)
    BY FS_StrictSubsetOrderingWellFounded, FS_FiniteSubsetsOfFinite
  <2>2. Bad \subseteq SUBSET S
    OBVIOUS
  <2>. HIDE DEF Bad
  <2>. QED
    BY <1>1, <2>1, <2>2, WFMin
<1>3. \A u \in SUBSET s : u # s => u \in T
  BY <1>2 DEF StrictSubsetOrdering
<1>. QED
  BY <1>2, <1>3

\* One pair more, if it is new and there is room.
Place(chosen, pair, most) ==
  IF pair \in ToSet(chosen) \/ Len(chosen) >= most THEN chosen ELSE Append(chosen, pair)

\* The last position of a set of positions, and the others.
Latest(D) == Max(D)
Others(D) == D \ {Latest(D)}

\* g[D] is what is chosen of the pairs at the positions in D.
Placing(s, most, S, g) ==
  g = [D \in SUBSET S |->
         IF D = {} THEN <<>> ELSE Place(g[Others(D)], s[Latest(D)], most)]

\* The fold over the pairs is that recursion over their positions.
LEMMA DensePairsAre ==
  ASSUME NEW n, NEW most
  PROVE  LET all == Searching!PrefixRings(n) \o Searching!OrderedPairs(n)
             room == Searching!Min({most, Searching!AllPairs(n)})
         IN  Searching!DensePairs(n, most)
               = (CHOOSE g : Placing(all, room, DOMAIN all, g))[DOMAIN all]
BY DEF Searching!DensePairs, Searching!FoldLeft, Searching!MapThenFoldSet, Placing, Place,
       Latest, Others, ToSet, Searching!ToSet, Max, Searching!Max

\* A finite set of positions.
Positions(D) == \E b \in Nat : D \subseteq 1 .. b

\* Positions are finite, and so are some of them.
LEMMA SomePositions ==
  ASSUME NEW D, Positions(D)
  PROVE  IsFiniteSet(D) /\ \A E \in SUBSET D : Positions(E)
<1>1. PICK b \in Nat : D \subseteq 1 .. b
  BY DEF Positions
<1>2. IsFiniteSet(1 .. b) /\ D \in SUBSET (1 .. b)
  BY <1>1, FS_Interval
<1>3. ASSUME NEW E \in SUBSET D PROVE E \subseteq 1 .. b
  BY <1>1
<1>. QED
  BY <1>2, <1>3, FS_Subset DEF Positions

\* The recursion takes away one position at a time.
LEMMA LatestIsThere ==
  ASSUME NEW D, Positions(D), D # {}
  PROVE  Latest(D) \in D /\ Others(D) \in SUBSET D /\ Others(D) # D
<1>1. PICK b \in Nat : D \subseteq 0 .. b
  BY DEF Positions
<1>2. PICK i \in D : \A j \in D : j <= i
  BY <1>1, Greatest
<1>3. \A j \in D : i >= j
  BY <1>1, <1>2
<1>4. Latest(D) \in D
  BY <1>3 DEF Latest, Max
<1>. QED
  BY <1>4 DEF Others

\* One step of the recursion.
LEMMA PlacingStep ==
  ASSUME NEW s, NEW most, NEW S, NEW g, Placing(s, most, S, g)
  PROVE  \A D \in SUBSET S :
           IF D = {} THEN g[D] = <<>>
                     ELSE g[D] = Place(g[Others(D)], s[Latest(D)], most)
<1>1. g = [E \in SUBSET S |->
             IF E = {} THEN <<>> ELSE Place(g[Others(E)], s[Latest(E)], most)]
  BY DEF Placing
<1>2. ASSUME NEW D \in SUBSET S
      PROVE  g[D] = IF D = {} THEN <<>> ELSE Place(g[Others(D)], s[Latest(D)], most)
  BY <1>1, Zenon
<1>. QED
  BY <1>2, Zenon

\* What is chosen of some positions does not depend on the others.
LEMMA PlacingAgrees ==
  ASSUME NEW T, Positions(T), NEW S, S \subseteq T,
         NEW s, NEW most, NEW g, NEW h, Placing(s, most, S, g), Placing(s, most, T, h)
  PROVE  \A D \in SUBSET S : g[D] = h[D]
<1>. DEFINE Same == {D \in SUBSET S : g[D] = h[D]}
<1>0. /\ \A D \in SUBSET S :
           IF D = {} THEN g[D] = <<>>
                     ELSE g[D] = Place(g[Others(D)], s[Latest(D)], most)
      /\ \A D \in SUBSET T :
           IF D = {} THEN h[D] = <<>>
                     ELSE h[D] = Place(h[Others(D)], s[Latest(D)], most)
  BY PlacingStep
<1>1. ASSUME NEW D \in SUBSET S, \A E \in SUBSET D : E # D => E \in Same
      PROVE  D \in Same
  <2>1. CASE D = {}
    BY <1>0, <2>1
  <2>2. CASE D # {}
    <3>1. Others(D) \in Same
      <4>1. Positions(D)
        BY SomePositions
      <4>2. Others(D) \in SUBSET D /\ Others(D) # D
        BY <2>2, <4>1, LatestIsThere
      <4>. QED
        BY <1>1, <4>2
    <3>2. g[D] = Place(g[Others(D)], s[Latest(D)], most)
      BY <1>0, <2>2
    <3>3. h[D] = Place(h[Others(D)], s[Latest(D)], most)
      <4>1. D \in SUBSET T
        OBVIOUS
      <4>. QED
        BY <1>0, <2>2, <4>1
    <3>. QED
      BY <3>1, <3>2, <3>3
  <2>. QED
    BY <2>1, <2>2
<1>2. IsFiniteSet(S)
  <2>1. IsFiniteSet(T)
    BY SomePositions
  <2>. QED
    BY <2>1, FS_Subset
<1>3. \A D \in SUBSET S : D \in Same
  <2>. HIDE DEF Same
  <2>. QED
    BY <1>1, <1>2, SubsetsInduction
<1>. QED
  BY <1>3

\* The recursion has a solution.
LEMMA PlacingExists ==
  ASSUME NEW S, Positions(S), NEW s, NEW most
  PROVE  \E g : Placing(s, most, S, g)
<1>. DEFINE Placed == {D \in SUBSET S : \E g : Placing(s, most, D, g)}
            of(D) == CHOOSE g : Placing(s, most, D, g)
            chosen(D) == IF D = {} THEN <<>>
                         ELSE Place(of(Others(D))[Others(D)], s[Latest(D)], most)
<1>1. ASSUME NEW D \in SUBSET S, \A E \in SUBSET D : E # D => E \in Placed
      PROVE  D \in Placed
  <2>. DEFINE g == [E \in SUBSET D |-> chosen(E)]
  <2>1. ASSUME NEW E \in SUBSET D, E # D
        PROVE  Placing(s, most, E, of(E))
    BY <1>1, <2>1
  <2>2. ASSUME NEW E \in SUBSET D, E # D
        PROVE  of(E)[E] = chosen(E)
    <3>1. Placing(s, most, E, of(E))
      BY <2>1, <2>2
    <3>2. CASE E = {}
      <4>. HIDE DEF of
      <4>. QED
        BY <3>1, <3>2, PlacingStep
    <3>3. CASE E # {}
      <4>1. /\ Others(E) \in SUBSET E /\ Others(E) \in SUBSET D /\ Others(E) # D
            /\ Positions(E)
        <5>1. Positions(E)
          BY SomePositions
        <5>2. Others(E) \in SUBSET E /\ Others(E) # E
          BY <3>3, <5>1, LatestIsThere
        <5>3. Others(E) \in SUBSET D /\ Others(E) # D
          BY <2>2, <5>2
        <5>. QED
          BY <5>1, <5>2, <5>3
      <4>2. Placing(s, most, Others(E), of(Others(E)))
        BY <2>1, <4>1
      <4>. HIDE DEF of
      <4>3. of(Others(E))[Others(E)] = of(E)[Others(E)]
        <5>1. Others(E) \in SUBSET Others(E) /\ Others(E) \subseteq E
          BY <4>1
        <5>2. \A x \in SUBSET Others(E) : of(Others(E))[x] = of(E)[x]
          BY <3>1, <4>1, <4>2, <5>1, PlacingAgrees
        <5>. QED
          BY <5>1, <5>2
      <4>4. of(E)[E] = Place(of(E)[Others(E)], s[Latest(E)], most)
        BY <3>1, <3>3, PlacingStep
      <4>. QED
        BY <3>3, <4>3, <4>4
    <3>. QED
      BY <3>2, <3>3
  <2>3. ASSUME NEW E \in SUBSET D
        PROVE  chosen(E) = IF E = {} THEN <<>> ELSE Place(g[Others(E)], s[Latest(E)], most)
    <3>1. CASE E = {}
      BY <3>1
    <3>2. CASE E # {}
      <4>1. Others(E) \in SUBSET D /\ Others(E) # D
        <5>1. Positions(E)
          BY SomePositions
        <5>2. Others(E) \in SUBSET E /\ Others(E) # E
          BY <3>2, <5>1, LatestIsThere
        <5>. QED
          BY <5>2
      <4>2. g[Others(E)] = chosen(Others(E))
        <5>. HIDE DEF chosen
        <5>. QED
          BY <4>1
      <4>3. of(Others(E))[Others(E)] = chosen(Others(E))
        BY <2>2, <4>1
      <4>4. chosen(E) = Place(of(Others(E))[Others(E)], s[Latest(E)], most)
        BY <3>2
      <4>. HIDE DEF of, chosen, g
      <4>. QED
        BY <3>2, <4>2, <4>3, <4>4
    <3>. QED
      BY <3>1, <3>2
  <2>4. g = [E \in SUBSET D |->
               IF E = {} THEN <<>> ELSE Place(g[Others(E)], s[Latest(E)], most)]
    <3>. DEFINE value(E) == IF E = {} THEN <<>> ELSE Place(g[Others(E)], s[Latest(E)], most)
    <3>1. \A E \in SUBSET D : chosen(E) = value(E)
      BY <2>3
    <3>. HIDE DEF chosen, value
    <3>2. [E \in SUBSET D |-> chosen(E)] = [E \in SUBSET D |-> value(E)]
      BY <3>1
    <3>. QED
      BY <3>2 DEF value
  <2>. HIDE DEF g
  <2>5. Placing(s, most, D, g)
    BY <2>4 DEF Placing
  <2>. QED
    BY <2>5
<1>2. IsFiniteSet(S)
  BY SomePositions
<1>3. \A D \in SUBSET S : D \in Placed
  <2>. HIDE DEF Placed
  <2>. QED
    BY <1>1, <1>2, SubsetsInduction
<1>. QED
  BY <1>3

\* What is chosen stays within the room.
LEMMA PlacedWithinRoom ==
  ASSUME NEW P, NEW s \in Seq(P), Positions(DOMAIN s), NEW most \in Nat,
         NEW g, Placing(s, most, DOMAIN s, g)
  PROVE  \A D \in SUBSET DOMAIN s : g[D] \in Seq(P) /\ Len(g[D]) <= most
<1>. DEFINE S == DOMAIN s
            Within == {D \in SUBSET S : g[D] \in Seq(P) /\ Len(g[D]) <= most}
<1>1. \A D \in SUBSET S :
        IF D = {} THEN g[D] = <<>>
                  ELSE g[D] = Place(g[Others(D)], s[Latest(D)], most)
  BY PlacingStep
<1>2. ASSUME NEW D \in SUBSET S, \A E \in SUBSET D : E # D => E \in Within
      PROVE  D \in Within
  <2>1. CASE D = {}
    <3>1. g[D] = <<>>
      BY <1>1, <2>1
    <3>2. <<>> \in Seq(P) /\ Len(<<>>) = 0
      OBVIOUS
    <3>3. g[D] \in Seq(P) /\ Len(g[D]) <= most
      BY <3>1, <3>2
    <3>. QED
      BY <3>3
  <2>2. CASE D # {}
    <3>1. Latest(D) \in D /\ Others(D) \in Within
      <4>1. Positions(D)
        BY SomePositions
      <4>2. Latest(D) \in D /\ Others(D) \in SUBSET D /\ Others(D) # D
        BY <2>2, <4>1, LatestIsThere
      <4>. QED
        BY <1>2, <4>2
    <3>2. g[D] = Place(g[Others(D)], s[Latest(D)], most)
      BY <1>1, <2>2
    <3>. DEFINE before == g[Others(D)]
                pair == s[Latest(D)]
    <3>3. before \in Seq(P) /\ Len(before) <= most /\ pair \in P
      BY <3>1
    <3>. HIDE DEF before, pair
    <3>4. Place(before, pair, most) \in Seq(P) /\ Len(Place(before, pair, most)) <= most
      <4>1. CASE pair \in ToSet(before) \/ Len(before) >= most
        BY <3>3, <4>1 DEF Place
      <4>2. CASE ~(pair \in ToSet(before) \/ Len(before) >= most)
        <5>1. Place(before, pair, most) = Append(before, pair)
          BY <4>2 DEF Place
        <5>2. Append(before, pair) \in Seq(P) /\ Len(Append(before, pair)) = Len(before) + 1
          BY <3>3
        <5>3. ~(Len(before) >= most) /\ Len(before) \in Nat
          BY <3>3, <4>2
        <5>. QED
          BY <5>1, <5>2, <5>3
      <4>. QED
        BY <4>1, <4>2
    <3>. QED
      BY <3>2, <3>4 DEF before, pair
  <2>. QED
    BY <2>1, <2>2
<1>3. IsFiniteSet(S)
  BY SomePositions
<1>4. \A D \in SUBSET S : D \in Within
  <2>. HIDE DEF Within, S
  <2>. QED
    BY <1>2, <1>3, SubsetsInduction
<1>. QED
  BY <1>4

\* The channels that buildBoundedDenseGraphPairs goes through, and how many it opens.
Wanted(n) == Searching!PrefixRings(n) \o Searching!OrderedPairs(n)
Room(n, most) == Searching!Min({most, Searching!AllPairs(n)})

\* They are pairs of numbers.
LEMMA WantedPairs ==
  ASSUME NEW n \in Nat, n >= 3
  PROVE  /\ Searching!PrefixRings(n) \in Seq(Int \X Int)
         /\ Searching!OrderedPairs(n) \in Seq(Int \X Int)
         /\ Wanted(n) \in Seq(Int \X Int) /\ Positions(DOMAIN Wanted(n))
<1>. DEFINE P == Int \X Int
            count1 == Searching!AllPairs(n)
            rings == [i \in 1 .. n - 3 |-> <<<<i + 1, i + 2>>, <<i + 2, 0>>>>]
            all == Searching!PrefixRings(n) \o Searching!OrderedPairs(n)
<1>1. count1 \in Nat
  BY DEF Searching!AllPairs
<1>2. Searching!PrefixRings(n) \in Seq(P)
  <2>1. rings \in Seq(Seq(P))
    <3>1. \A i \in 1 .. n - 3 : <<<<i + 1, i + 2>>, <<i + 2, 0>>>> \in Seq(P)
      OBVIOUS
    <3>2. n - 3 \in Nat
      OBVIOUS
    <3>. QED
      BY <3>1, <3>2, IsASeq
  <2>2. FlattenSeq(rings) \in Seq(P)
    <3>. HIDE DEF rings, P
    <3>. QED
      BY <2>1, FlattenType
  <2>3. Searching!PrefixRings(n) = <<<<0, 1>>, <<1, 2>>, <<2, 0>>>> \o FlattenSeq(rings)
    BY DEF Searching!PrefixRings, Searching!FlattenSeq, FlattenSeq
  <2>4. <<<<0, 1>>, <<1, 2>>, <<2, 0>>>> \in Seq(P)
    OBVIOUS
  <2>. HIDE DEF rings, P
  <2>. QED
    BY <2>2, <2>3, <2>4
<1>3. Searching!OrderedPairs(n) \in Seq(P)
  <2>. DEFINE payer(i) == (i - 1) % n
              payee(i) == (payer(i) + 1 + (i - 1) \div n) % n
  <2>. HIDE DEF count1
  <2>1. ASSUME NEW i \in 1 .. count1
        PROVE  <<payer(i), payee(i)>> \in P
    <3>1. i \in Int /\ n \in Int /\ n > 0
      BY <1>1
    <3>2. payer(i) \in Int /\ (i - 1) \div n \in Int
      BY <3>1
    <3>. HIDE DEF payer
    <3>3. payer(i) + 1 + (i - 1) \div n \in Int
      BY <3>2
    <3>4. payee(i) \in Int
      <4>. DEFINE sum == payer(i) + 1 + (i - 1) \div n
      <4>1. sum \in Int
        BY <3>3
      <4>. HIDE DEF sum
      <4>2. sum % n \in Int
        BY <3>1, <4>1
      <4>. QED
        BY <4>2 DEF sum
    <3>. HIDE DEF payee
    <3>. QED
      BY <3>2, <3>4
  <2>2. Searching!OrderedPairs(n) = [i \in 1 .. count1 |-> <<payer(i), payee(i)>>]
    BY DEF Searching!OrderedPairs, count1
  <2>. HIDE DEF payer, payee, P
  <2>. QED
    BY <1>1, <2>1, <2>2, IsASeq
<1>4. all \in Seq(P) /\ Positions(DOMAIN all)
  <2>1. all \in Seq(P)
    <3>. HIDE DEF P
    <3>. QED
      BY <1>2, <1>3
  <2>2. DOMAIN all = 1 .. Len(all) /\ Len(all) \in Nat
    BY <2>1
  <2>. QED
    BY <2>1, <2>2 DEF Positions
<1>. QED
  BY <1>2, <1>3, <1>4 DEF Wanted

\* What is opened of them.
LEMMA DenseGraph ==
  ASSUME NEW n \in Nat, n >= 3, NEW most \in Nat
  PROVE  /\ Room(n, most) \in Nat /\ Room(n, most) <= most
         /\ \E g : /\ Placing(Wanted(n), Room(n, most), DOMAIN Wanted(n), g)
                   /\ Searching!DensePairs(n, most) = g[DOMAIN Wanted(n)]
<1>. DEFINE count1 == Searching!AllPairs(n)
            all == Wanted(n)
            room == Room(n, most)
<1>1. count1 \in Nat
  BY DEF Searching!AllPairs
<1>2. room \in Nat /\ room <= most
  <2>1. room = Searching!Min({most, count1})
    BY DEF Room
  <2>. HIDE DEF count1, room
  <2>2. room = IF most <= count1 THEN most ELSE count1
    BY <1>1, <2>1, SmallerLarger
  <2>. QED
    BY <1>1, <2>2
<1>3. Searching!DensePairs(n, most) = (CHOOSE g : Placing(all, room, DOMAIN all, g))[DOMAIN all]
  BY DensePairsAre DEF Wanted, Room
<1>4. \E g : Placing(all, room, DOMAIN all, g)
  BY WantedPairs, PlacingExists
<1>. HIDE DEF all, room
<1>5. PICK g : Placing(all, room, DOMAIN all, g) /\ Searching!DensePairs(n, most) = g[DOMAIN all]
  BY <1>3, <1>4
<1>. QED
  BY <1>2, <1>5 DEF all, room

\* buildBoundedDenseGraphPairs opens no more channels than the cap.
LEMMA PairsWithinCap ==
  ASSUME NEW n \in Nat, n >= 3, NEW most \in Nat
  PROVE  /\ Searching!DensePairs(n, most) \in Seq(Int \X Int)
         /\ Len(Searching!DensePairs(n, most)) <= most
<1>. DEFINE P == Int \X Int
            all == Wanted(n)
            room == Room(n, most)
<1>1. room \in Nat /\ room <= most
  BY DenseGraph
<1>2. all \in Seq(P) /\ Positions(DOMAIN all)
  BY WantedPairs
<1>3. PICK g : Placing(all, room, DOMAIN all, g) /\ Searching!DensePairs(n, most) = g[DOMAIN all]
  BY DenseGraph
<1>. HIDE DEF all, room, P
<1>4. g[DOMAIN all] \in Seq(P) /\ Len(g[DOMAIN all]) <= room
  BY <1>1, <1>2, <1>3, PlacedWithinRoom
<1>5. Len(g[DOMAIN all]) \in Nat
  BY <1>4
<1>. QED
  BY <1>1, <1>3, <1>4, <1>5 DEF P

\* A sequence has no more elements than positions.
LEMMA ElementsOfSequence ==
  ASSUME NEW P, NEW s \in Seq(P)
  PROVE  IsFiniteSet(Searching!ToSet(s)) /\ Cardinality(Searching!ToSet(s)) <= Len(s)
<1>. DEFINE T == Searching!ToSet(s)
            f == [i \in 1 .. Len(s) |-> s[i]]
<1>1. T = {s[i] : i \in 1 .. Len(s)}
  BY DEF Searching!ToSet
<1>2. f \in Surjection(1 .. Len(s), T)
  <2>1. f \in [1 .. Len(s) -> T]
    BY <1>1
  <2>2. \A t \in T : \E i \in 1 .. Len(s) : f[i] = t
    BY <1>1
  <2>. HIDE DEF f, T
  <2>. QED
    BY <2>1, <2>2 DEF Surjection
<1>3. Len(s) \in Nat /\ IsFiniteSet(1 .. Len(s)) /\ Cardinality(1 .. Len(s)) = Len(s)
  <2>. DEFINE n == Len(s)
  <2>1. n \in Nat
    OBVIOUS
  <2>. HIDE DEF n
  <2>2. 1 \in Int /\ n \in Int
    BY <2>1
  <2>3. /\ IsFiniteSet(1 .. n)
        /\ Cardinality(1 .. n) = IF 1 > n THEN 0 ELSE n - 1 + 1
    BY <2>2, FS_Interval, Zenon
  <2>. QED
    BY <2>1, <2>3 DEF n
<1>. HIDE DEF f, T
<1>4. IsFiniteSet(T) /\ Cardinality(T) <= Len(s)
  BY <1>2, <1>3, FS_Surjection
<1>. QED
  BY <1>4 DEF T

\* There are no more pairs among fewer wallets.
LEMMA FewerPairs ==
  ASSUME NEW n \in Nat, NEW m \in Nat, n <= m
  PROVE  Searching!AllPairs(n) \in Nat /\ Searching!AllPairs(n) <= Searching!AllPairs(m)
<1>1. n * (n - 1) \in Nat
  OBVIOUS
<1>2. n * (n - 1) <= m * (m - 1)
  OBVIOUS
<1>. QED
  BY <1>1, <1>2 DEF Searching!AllPairs

\* A search starts with nothing found, and with a graph under the cap.
LEMMA SearchStarts ==
  ASSUME Searching!SearchInit
  PROVE  SearchInvariant
<1>1. Wallets \in Nat /\ Wallets >= 3 /\ DenseCaps \subseteq Nat
  BY RoundSearchAssumption DEF Searching!SearchAssumption
<1>2. /\ mode \in {"channels", "participants"} /\ cap \in Nat
      /\ pairs = Searching!DensePairs(Wallets, cap)
      /\ pc = "next" /\ tried = Wallets /\ low = 0 /\ high = 0 /\ found = 0
      /\ best = Searching!None /\ errors = 0
  BY <1>1 DEF Searching!SearchInit
<1>3. pairs \in Seq(Int \X Int) /\ Len(pairs) <= cap
  BY <1>1, <1>2, PairsWithinCap
<1>4. IsFiniteSet(Searching!Edges) /\ Cardinality(Searching!Edges) \in Nat
      /\ Cardinality(Searching!Edges) <= cap
  <2>1. /\ IsFiniteSet(Searching!ToSet(pairs))
        /\ Cardinality(Searching!ToSet(pairs)) <= Len(pairs)
    BY <1>3, ElementsOfSequence
  <2>2. Cardinality(Searching!ToSet(pairs)) \in Nat /\ Len(pairs) \in Nat
    BY <1>3, <2>1, FS_CardinalityType
  <2>. QED
    BY <1>2, <1>3, <2>1, <2>2 DEF Searching!Edges
<1>5. ASSUME NEW n \in 3 .. Wallets
      PROVE  Channels(n) \in Nat /\ Channels(n) <= cap
  <2>1. Searching!Eligible(n) \subseteq Searching!Edges
    BY DEF Searching!Eligible
  <2>2. /\ IsFiniteSet(Searching!Eligible(n))
        /\ Cardinality(Searching!Eligible(n)) <= Cardinality(Searching!Edges)
    BY <1>4, <2>1, FS_Subset
  <2>3. Cardinality(Searching!Eligible(n)) \in Nat
    BY <2>2, FS_CardinalityType
  <2>. QED
    BY <1>2, <1>4, <2>2, <2>3 DEF Channels
<1>6. ASSUME mode = "channels", NEW n \in 3 .. Wallets
      PROVE  mostChannels[n] \in Nat /\ mostChannels[n] <= Searching!AllPairs(Wallets)
  <2>1. mostChannels[n] \in n - 1 .. Searching!AllPairs(n)
    BY <1>6 DEF Searching!SearchInit
  <2>2. n \in Nat /\ n <= Wallets /\ n - 1 \in Nat
    BY <1>1
  <2>3. /\ Searching!AllPairs(n) \in Nat /\ Searching!AllPairs(Wallets) \in Nat
        /\ Searching!AllPairs(n) <= Searching!AllPairs(Wallets)
    BY <1>1, <2>2, FewerPairs
  <2>. QED
    BY <2>1, <2>2, <2>3
<1>7. ASSUME mode = "participants"
      PROVE  longestRing \in Nat /\ longestRing <= Wallets
  BY <1>1, <1>7 DEF Searching!SearchInit
<1>8. SearchInputs
  BY <1>2, <1>5, <1>6, <1>7 DEF SearchInputs
<1>9. RingsInvariant
  BY <1>2 DEF RingsInvariant
<1>10. ChannelsProgress
  <2>1. Searched = {}
    BY <1>1, <1>2 DEF Searched
  <2>2. {n \in Searched : HasRound(n)} = {}
    BY <2>1
  <2>3. Cardinality({n \in Searched : HasRound(n)}) = 0
    BY <2>2, FS_EmptySet
  <2>. QED
    BY <1>1, <1>2, <2>1, <2>3 DEF ChannelsProgress
<1>. QED
  BY <1>2, <1>8, <1>9, <1>10 DEF SearchInvariant, ChannelsInvariant

\* The search for the largest round of the demo: whatever the cap, the number of
\* wallets, what the cluster executes and which probes throw, the round it has
\* picked can be executed, no better one exists once it has ended without a probe
\* that threw, and each probe that threw costs at most one number of participants
\* (runBinarySearchMultilateralScenario, runAdaptiveMaxChannelsScenario).
THEOREM SearchesAreRight ==
  WireSpec =>
    [](part = "search" =>
         Searching!SearchFindsTheLargest /\ Searching!ErrorsCostOneCount)
<1>. DEFINE Inv == part = "search" => SearchInvariant
<1>1. WireInit => Inv
  BY SearchStarts DEF WireInit
<1>2. Inv /\ [WireStep \/ ProbeThrows]_wireVars => Inv'
  <2>1. SUFFICES ASSUME Inv, [WireStep \/ ProbeThrows]_wireVars, part' = "search"
                 PROVE  SearchInvariant'
    OBVIOUS
  <2>2. part = "search"
    BY <2>1 DEF WireStep, ProbeThrows, wireVars
  <2>3. SearchInvariant
    BY <2>1, <2>2
  <2>4. Searching!SearchNext \/ UNCHANGED Searching!searchVars
    BY <2>1, <2>2
    DEF WireStep, ProbeThrows, wireVars, searchVars, Searching!SearchNext,
        Searching!searchVars, Searching!inputs
  <2>. QED
    BY <2>3, <2>4, SearchStep
<1>3. Inv => (part = "search" =>
                Searching!SearchFindsTheLargest /\ Searching!ErrorsCostOneCount)
  BY LargestFound
<1>. QED
  BY <1>1, <1>2, <1>3, PTL DEF WireSpec

-----------------------------------------------------------------------------
(***************************************************************************)
(* Sums over a finite set.                                                 *)
(***************************************************************************)
\* The element that the sum takes out of a set first.
Pick(s) == CHOOSE x \in s : TRUE
Rest(s) == s \ {Pick(s)}

\* g holds the partial sums of f over the subsets of s.
Sums(f, s, g) ==
  g = [u \in SUBSET s |-> IF u = {} THEN 0 ELSE f[Pick(u)] + g[Rest(u)]]

\* The element that is taken out first is in the set, and the rest is smaller.
LEMMA PickRest ==
  ASSUME NEW s, s # {}
  PROVE  Pick(s) \in s /\ Rest(s) \in SUBSET s /\ Rest(s) # s
BY DEF Pick, Rest

\* The library's sum is chosen among such functions.
LEMMA SumIsChosen ==
  ASSUME NEW f, NEW S
  PROVE  SumFunctionOnSet(f, S) = (CHOOSE g : Sums(f, S, g))[S]
BY DEF SumFunctionOnSet, FoldFunctionOnSet, MapThenFoldSet, Sums, Pick, Rest

\* One step of the recursion.
LEMMA SumsStep ==
  ASSUME NEW f, NEW s, NEW g, Sums(f, s, g), NEW u \in SUBSET s
  PROVE  g[u] = IF u = {} THEN 0 ELSE f[Pick(u)] + g[Rest(u)]
<1>1. g = [v \in SUBSET s |-> IF v = {} THEN 0 ELSE f[Pick(v)] + g[Rest(v)]]
  BY DEF Sums
<1>. QED BY <1>1, Zenon

\* Partial sums over a set and over a larger one agree.
LEMMA SumsAgree ==
  ASSUME NEW f, NEW s, IsFiniteSet(s), NEW t, s \subseteq t, NEW g, NEW h,
         Sums(f, s, g), Sums(f, t, h)
  PROVE  \A u \in SUBSET s : g[u] = h[u]
<1>. DEFINE Same == {u \in SUBSET s : g[u] = h[u]}
<1>1. ASSUME NEW u \in SUBSET s, \A v \in SUBSET u : v # u => v \in Same
      PROVE  g[u] = h[u]
  <2>1. CASE u = {}
    BY <2>1, SumsStep
  <2>2. CASE u # {}
    <3>1. Rest(u) \in Same
      BY <1>1, <2>2, PickRest
    <3>2. g[u] = f[Pick(u)] + g[Rest(u)] /\ h[u] = f[Pick(u)] + h[Rest(u)]
      BY <2>2, SumsStep
    <3>. QED BY <3>1, <3>2
  <2>. QED BY <2>1, <2>2
<1>2. \A u \in SUBSET s : (\A v \in SUBSET u : v # u => v \in Same) => u \in Same
  BY <1>1
<1>3. \A u \in SUBSET s : u \in Same
  <2>. HIDE DEF Same
  <2>. QED BY <1>2, SubsetsInduction
<1>. QED BY <1>3

\* There is one for every finite set.
LEMMA SumsExist ==
  ASSUME NEW f, NEW S, IsFiniteSet(S)
  PROVE  \E g : Sums(f, S, g)
<1>. DEFINE Summed == {s \in SUBSET S : \E g : Sums(f, s, g)}
<1>1. ASSUME NEW s \in SUBSET S, \A u \in SUBSET s : u # s => u \in Summed
      PROVE  \E g : Sums(f, s, g)
  <2>. DEFINE of(u) == CHOOSE g : Sums(f, u, g)
              total(u) == IF u = {} THEN 0 ELSE f[Pick(u)] + of(Rest(u))[Rest(u)]
              g == [u \in SUBSET s |-> total(u)]
  <2>1. ASSUME NEW u \in SUBSET s, u # s
        PROVE  Sums(f, u, of(u))
    BY <1>1, <2>1
  <2>2. ASSUME NEW u \in SUBSET s, u # s
        PROVE  of(u)[u] = total(u)
    <3>1. CASE u = {}
      BY <2>1, <2>2, <3>1, SumsStep
    <3>2. CASE u # {}
      <4>1. /\ Rest(u) \in SUBSET u /\ Rest(u) \in SUBSET s /\ Rest(u) # s
            /\ IsFiniteSet(Rest(u))
        <5>1. Rest(u) \in SUBSET u /\ Rest(u) # u
          BY <3>2, PickRest
        <5>2. Rest(u) \in SUBSET S
          BY <5>1
        <5>. QED BY <2>2, <5>1, <5>2, FS_Subset
      <4>2. Sums(f, u, of(u)) /\ Sums(f, Rest(u), of(Rest(u)))
        BY <2>1, <2>2, <4>1
      <4>. HIDE DEF of
      <4>3. of(Rest(u))[Rest(u)] = of(u)[Rest(u)]
        BY <4>1, <4>2, SumsAgree
      <4>4. of(u)[u] = f[Pick(u)] + of(u)[Rest(u)]
        BY <3>2, <4>2, SumsStep
      <4>. QED BY <3>2, <4>3, <4>4
    <3>. QED BY <3>1, <3>2
  <2>. HIDE DEF of
  <2>3. ASSUME NEW u \in SUBSET s, u # {}
        PROVE  total(u) = f[Pick(u)] + g[Rest(u)]
    <3>1. Rest(u) \in SUBSET s /\ Rest(u) # s
      BY <2>3, PickRest DEF Rest
    <3>2. of(Rest(u))[Rest(u)] = g[Rest(u)]
      BY <2>2, <3>1
    <3>. QED BY <2>3, <3>2
  <2>4. g = [u \in SUBSET s |-> IF u = {} THEN 0 ELSE f[Pick(u)] + g[Rest(u)]]
    <3>1. \A u \in SUBSET s : total(u) = IF u = {} THEN 0 ELSE f[Pick(u)] + g[Rest(u)]
      BY <2>3
    <3>. QED BY <3>1, Zenon
  <2>. QED BY <2>4 DEF Sums
<1>2. \A s \in SUBSET S : (\A u \in SUBSET s : u # s => u \in Summed) => s \in Summed
  BY <1>1
<1>3. S \in Summed
  <2>. HIDE DEF Summed
  <2>. QED BY <1>2, SubsetsInduction
<1>. QED BY <1>3

\* The recursion, for the operator itself.
LEMMA SumStep ==
  ASSUME NEW f, NEW S, IsFiniteSet(S)
  PROVE  SumFunctionOnSet(f, S) =
           IF S = {} THEN 0 ELSE f[Pick(S)] + SumFunctionOnSet(f, Rest(S))
<1>. DEFINE of(u) == CHOOSE g : Sums(f, u, g)
<1>1. Sums(f, S, of(S))
  BY SumsExist
<1>2. CASE S = {}
  <2>. HIDE DEF of
  <2>1. of(S)[S] = 0
    BY <1>1, <1>2, SumsStep
  <2>. QED BY <1>2, <2>1, SumIsChosen DEF of
<1>3. CASE S # {}
  <2>1. Rest(S) \in SUBSET S /\ IsFiniteSet(Rest(S))
    BY <1>3, PickRest, FS_Subset
  <2>2. Sums(f, Rest(S), of(Rest(S)))
    BY <2>1, SumsExist
  <2>. HIDE DEF of
  <2>3. of(S)[S] = f[Pick(S)] + of(S)[Rest(S)]
    BY <1>1, <1>3, SumsStep
  <2>4. of(Rest(S))[Rest(S)] = of(S)[Rest(S)]
    BY <1>1, <2>1, <2>2, SumsAgree
  <2>5. /\ SumFunctionOnSet(f, S) = of(S)[S]
        /\ SumFunctionOnSet(f, Rest(S)) = of(Rest(S))[Rest(S)]
    BY SumIsChosen DEF of
  <2>. QED BY <1>3, <2>3, <2>4, <2>5
<1>. QED BY <1>2, <1>3

-----------------------------------------------------------------------------
(***************************************************************************)
(* Sums of integers.                                                       *)
(***************************************************************************)
LEMMA SumOfNone ==
  ASSUME NEW f
  PROVE  SumFunctionOnSet(f, {}) = 0
BY SumStep, FS_EmptySet

\* Sums of integers are integers.
LEMMA SumType ==
  ASSUME NEW f, NEW S, IsFiniteSet(S), \A x \in S : f[x] \in Int
  PROVE  SumFunctionOnSet(f, S) \in Int
<1>. DEFINE Good == {s \in SUBSET S : SumFunctionOnSet(f, s) \in Int}
<1>1. ASSUME NEW s \in SUBSET S, \A u \in SUBSET s : u # s => u \in Good
      PROVE  SumFunctionOnSet(f, s) \in Int
  <2>1. IsFiniteSet(s)
    BY FS_Subset
  <2>2. CASE s = {}
    BY <2>2, SumOfNone
  <2>3. CASE s # {}
    <3>1. Pick(s) \in S /\ Rest(s) \in Good
      BY <1>1, <2>3, PickRest
    <3>. QED BY <2>1, <2>3, <3>1, SumStep
  <2>. QED BY <2>2, <2>3
<1>2. S \in Good
  <2>1. \A s \in SUBSET S : (\A u \in SUBSET s : u # s => u \in Good) => s \in Good
    BY <1>1
  <2>. HIDE DEF Good
  <2>. QED BY <2>1, SubsetsInduction
<1>. QED BY <1>2

\* Any element may be taken out first.
LEMMA SumWithout ==
  ASSUME NEW f, NEW S, IsFiniteSet(S), \A x \in S : f[x] \in Int, NEW x \in S
  PROVE  SumFunctionOnSet(f, S) = f[x] + SumFunctionOnSet(f, S \ {x})
<1>. DEFINE SumOf(s) == SumFunctionOnSet(f, s)
            Good == {s \in SUBSET S : \A y \in s : SumOf(s) = f[y] + SumOf(s \ {y})}
<1>1. ASSUME NEW s \in SUBSET S, \A u \in SUBSET s : u # s => u \in Good, NEW y \in s
      PROVE  SumOf(s) = f[y] + SumOf(s \ {y})
  <2>. DEFINE p == Pick(s)
  <2>1. p \in s /\ Rest(s) = s \ {p}
    BY PickRest DEF Rest
  <2>2. IsFiniteSet(s) /\ IsFiniteSet(s \ {y}) /\ IsFiniteSet((s \ {p}) \ {y})
    <3>1. /\ s \in SUBSET S /\ s \ {y} \in SUBSET S
          /\ (s \ {p}) \ {y} \in SUBSET S
      OBVIOUS
    <3>. QED BY <3>1, FS_Subset
  <2>3. SumOf(s) = f[p] + SumOf(s \ {p})
    BY <2>1, <2>2, SumStep
  <2>4. CASE y = p
    BY <2>3, <2>4
  <2>5. CASE y # p
    <3>1. s \ {p} \in Good /\ s \ {y} \in Good
      BY <1>1, <2>1
    <3>2. SumOf(s \ {p}) = f[y] + SumOf((s \ {p}) \ {y})
      BY <2>5, <3>1
    <3>3. SumOf(s \ {y}) = f[p] + SumOf((s \ {p}) \ {y})
      <4>1. SumOf(s \ {y}) = f[p] + SumOf((s \ {y}) \ {p})
        BY <2>1, <2>5, <3>1
      <4>2. (s \ {y}) \ {p} = (s \ {p}) \ {y}
        OBVIOUS
      <4>. QED BY <4>1, <4>2
    <3>4. f[p] \in Int /\ f[y] \in Int /\ SumOf((s \ {p}) \ {y}) \in Int
      BY <2>1, <2>2, SumType
    <3>. QED BY <2>3, <3>2, <3>3, <3>4
  <2>. QED BY <2>4, <2>5
<1>2. S \in Good
  <2>1. \A s \in SUBSET S : (\A u \in SUBSET s : u # s => u \in Good) => s \in Good
    BY <1>1
  <2>. HIDE DEF Good
  <2>. QED BY <2>1, SubsetsInduction
<1>. QED BY <1>2

\* The sum depends on the values over S only.
LEMMA SumCongruence ==
  ASSUME NEW f, NEW g, NEW S, IsFiniteSet(S), \A x \in S : f[x] = g[x]
  PROVE  SumFunctionOnSet(f, S) = SumFunctionOnSet(g, S)
<1>. DEFINE Good == {s \in SUBSET S : SumFunctionOnSet(f, s) = SumFunctionOnSet(g, s)}
<1>1. ASSUME NEW s \in SUBSET S, \A u \in SUBSET s : u # s => u \in Good
      PROVE  SumFunctionOnSet(f, s) = SumFunctionOnSet(g, s)
  <2>1. IsFiniteSet(s)
    BY FS_Subset
  <2>2. CASE s = {}
    BY <2>2, SumOfNone
  <2>3. CASE s # {}
    <3>1. f[Pick(s)] = g[Pick(s)] /\ Rest(s) \in Good
      BY <1>1, <2>3, PickRest
    <3>. QED BY <2>1, <2>3, <3>1, SumStep
  <2>. QED BY <2>2, <2>3
<1>2. S \in Good
  <2>1. \A s \in SUBSET S : (\A u \in SUBSET s : u # s => u \in Good) => s \in Good
    BY <1>1
  <2>. HIDE DEF Good
  <2>. QED BY <2>1, SubsetsInduction
<1>. QED BY <1>2

\* The sum of the numbers f(x) that MapThenSumSet takes is that of a function.
LEMMA ExactIsSum ==
  ASSUME NEW at
  PROVE  LET S == 1 .. End(at) - at
         IN  /\ Exact(at) = SumFunctionOnSet([i \in S |-> Chunk(at, i)], S)
             /\ Value(at) = SumFunctionOnSet([i \in S |-> Chunk(at, i) % Wrap], S)
<1>. DEFINE S == 1 .. End(at) - at
            f == [i \in S |-> Chunk(at, i)]
            w == [i \in S |-> Chunk(at, i) % Wrap]
<1>1. \A g : g = [u \in SUBSET S |-> IF u = {} THEN 0 ELSE Chunk(at, Pick(u)) + g[Rest(u)]]
             <=> Sums(f, S, g)
  <2>1. ASSUME NEW u \in SUBSET S, NEW g
        PROVE  (IF u = {} THEN 0 ELSE Chunk(at, Pick(u)) + g[Rest(u)])
                 = IF u = {} THEN 0 ELSE f[Pick(u)] + g[Rest(u)]
    <3>1. CASE u = {}
      BY <3>1
    <3>2. CASE u # {}
      <4>1. Pick(u) \in S
        BY <3>2, PickRest
      <4>2. f[Pick(u)] = Chunk(at, Pick(u))
        BY <4>1
      <4>. HIDE DEF f
      <4>. QED
        BY <4>2
    <3>. QED
      BY <3>1, <3>2
  <2>. HIDE DEF f, S
  <2>2. ASSUME NEW g
        PROVE  [u \in SUBSET S |-> IF u = {} THEN 0 ELSE Chunk(at, Pick(u)) + g[Rest(u)]]
                 = [u \in SUBSET S |-> IF u = {} THEN 0 ELSE f[Pick(u)] + g[Rest(u)]]
    BY <2>1, Zenon
  <2>. QED
    BY <2>2, Zenon DEF Sums
<1>2. Exact(at) = (CHOOSE g : g = [u \in SUBSET S |->
                     IF u = {} THEN 0 ELSE Chunk(at, Pick(u)) + g[Rest(u)]])[S]
  BY DEF Exact, MapThenSumSet, MapThenFoldSet, Pick, Rest
<1>3. \A g : g = [u \in SUBSET S |->
                    IF u = {} THEN 0 ELSE (Chunk(at, Pick(u)) % Wrap) + g[Rest(u)]]
             <=> Sums(w, S, g)
  <2>1. ASSUME NEW u \in SUBSET S, NEW g
        PROVE  (IF u = {} THEN 0 ELSE (Chunk(at, Pick(u)) % Wrap) + g[Rest(u)])
                 = IF u = {} THEN 0 ELSE w[Pick(u)] + g[Rest(u)]
    <3>1. CASE u = {}
      BY <3>1
    <3>2. CASE u # {}
      <4>1. Pick(u) \in S
        BY <3>2, PickRest
      <4>2. w[Pick(u)] = Chunk(at, Pick(u)) % Wrap
        BY <4>1
      <4>. HIDE DEF w
      <4>. QED
        BY <4>2
    <3>. QED
      BY <3>1, <3>2
  <2>. HIDE DEF w, S
  <2>2. ASSUME NEW g
        PROVE  [u \in SUBSET S |-> IF u = {} THEN 0 ELSE (Chunk(at, Pick(u)) % Wrap) + g[Rest(u)]]
                 = [u \in SUBSET S |-> IF u = {} THEN 0 ELSE w[Pick(u)] + g[Rest(u)]]
    BY <2>1, Zenon
  <2>. QED
    BY <2>2, Zenon DEF Sums
<1>4. Value(at) = (CHOOSE g : g = [u \in SUBSET S |->
                     IF u = {} THEN 0 ELSE (Chunk(at, Pick(u)) % Wrap) + g[Rest(u)]])[S]
  BY DEF Value, MapThenSumSet, MapThenFoldSet, Pick, Rest
<1>5. /\ SumFunctionOnSet(f, S) = (CHOOSE g : Sums(f, S, g))[S]
      /\ SumFunctionOnSet(w, S) = (CHOOSE g : Sums(w, S, g))[S]
  BY SumIsChosen
<1>6. Exact(at) = SumFunctionOnSet(f, S)
  <2>. HIDE DEF f, S
  <2>. QED
    BY <1>1, <1>2, <1>5, Zenon
<1>7. Value(at) = SumFunctionOnSet(w, S)
  <2>. HIDE DEF w, S
  <2>. QED
    BY <1>3, <1>4, <1>5, Zenon
<1>. QED
  BY <1>6, <1>7

-----------------------------------------------------------------------------
(***************************************************************************)
(* Powers of the base.                                                     *)
(***************************************************************************)
\* g has the powers up to the n-th.
RaisedTo(n, g) ==
  g = [j \in 0 .. n |-> IF j = 0 THEN 1 ELSE Base * g[j - 1]]

\* One step of the recursion.
LEMMA RaisedStep ==
  ASSUME NEW n \in Nat, NEW g, RaisedTo(n, g), NEW j \in 0 .. n
  PROVE  g[j] = IF j = 0 THEN 1 ELSE Base * g[j - 1]
<1>1. g = [i \in 0 .. n |-> IF i = 0 THEN 1 ELSE Base * g[i - 1]]
  BY DEF RaisedTo
<1>. QED
  BY <1>1, Zenon

\* There is such a g for every n.
LEMMA RaisedExists ==
  \A n \in Nat : \E g : RaisedTo(n, g)
<1>. DEFINE T == {n \in Nat : \E g : RaisedTo(n, g)}
<1>1. 0 \in T
  <2>. DEFINE g == [j \in 0 .. 0 |-> 1]
  <2>1. ASSUME NEW j \in 0 .. 0
        PROVE  1 = IF j = 0 THEN 1 ELSE Base * g[j - 1]
    BY <2>1
  <2>2. g = [j \in 0 .. 0 |-> IF j = 0 THEN 1 ELSE Base * g[j - 1]]
    BY <2>1, Zenon
  <2>. HIDE DEF g
  <2>. QED
    BY <2>2 DEF RaisedTo
<1>2. ASSUME NEW n \in Nat, n \in T PROVE n + 1 \in T
  <2>1. PICK g : RaisedTo(n, g)
    BY <1>2
  <2>0. \A j \in 0 .. n : g[j] = IF j = 0 THEN 1 ELSE Base * g[j - 1]
    BY <2>1, RaisedStep
  <2>. DEFINE h == [j \in 0 .. n + 1 |-> IF j = n + 1 THEN Base * g[n] ELSE g[j]]
  <2>2. ASSUME NEW j \in 0 .. n + 1
        PROVE  h[j] = IF j = 0 THEN 1 ELSE Base * h[j - 1]
    <3>1. CASE j = n + 1
      <4>1. h[j] = Base * g[n] /\ j # 0
        BY <3>1
      <4>2. j - 1 = n /\ j - 1 \in 0 .. n + 1 /\ j - 1 # n + 1
        BY <3>1
      <4>3. h[j - 1] = g[n]
        BY <4>2
      <4>. HIDE DEF h
      <4>. QED
        <5>1. h[j] = Base * h[j - 1]
          BY <4>1, <4>3
        <5>. QED
          BY <4>1, <5>1
    <3>2. CASE j # n + 1
      <4>1. j \in 0 .. n /\ (j # 0 => j - 1 \in 0 .. n + 1 /\ j - 1 # n + 1)
        BY <3>2
      <4>2. h[j] = g[j] /\ (j # 0 => h[j - 1] = g[j - 1])
        BY <3>2, <4>1
      <4>3. g[j] = IF j = 0 THEN 1 ELSE Base * g[j - 1]
        BY <2>0, <4>1
      <4>. HIDE DEF h
      <4>4. CASE j = 0
        BY <4>2, <4>3, <4>4
      <4>5. CASE j # 0
        <5>1. h[j] = Base * g[j - 1] /\ g[j - 1] = h[j - 1]
          BY <4>2, <4>3, <4>5
        <5>2. h[j] = Base * h[j - 1]
          BY <5>1
        <5>. QED
          BY <4>5, <5>2
      <4>. QED
        BY <4>4, <4>5
    <3>. QED
      BY <3>1, <3>2
  <2>3. h = [j \in 0 .. n + 1 |-> IF j = 0 THEN 1 ELSE Base * h[j - 1]]
    <3>1. h = [j \in 0 .. n + 1 |-> h[j]]
      OBVIOUS
    <3>. HIDE DEF h
    <3>. QED
      BY <2>2, <3>1, Zenon
  <2>. HIDE DEF h
  <2>4. RaisedTo(n + 1, h)
    BY <2>3 DEF RaisedTo
  <2>. QED
    BY <2>4
<1>3. \A n \in Nat : n \in T
  <2>. HIDE DEF T
  <2>. QED
    BY <1>1, <1>2, Induction
<1>. QED
  BY <1>3

\* They are positive, and each is Base times the one before.
LEMMA Powers ==
  /\ Base \in Nat /\ Base >= 2 /\ Groups \in Nat /\ Groups >= 1
  /\ LastChunk \in Nat /\ LastChunk < Base
  /\ Power[0] = 1
  /\ \A i \in 1 .. Groups : Power[i] = Base * Power[i - 1]
  /\ \A i \in 0 .. Groups : Power[i] \in Nat /\ Power[i] >= 1
<1>1. /\ Base \in Nat /\ Base >= 2 /\ Groups \in Nat /\ Groups >= 1
      /\ LastChunk \in Nat /\ LastChunk < Base
  BY CodecAssumption
<1>2. Power[0] = 1 /\ \A i \in 1 .. Groups : Power[i] = Base * Power[i - 1]
  <2>1. Power = CHOOSE g : RaisedTo(Groups, g)
    BY DEF Power, RaisedTo
  <2>2. RaisedTo(Groups, Power)
    BY <1>1, <2>1, RaisedExists
  <2>3. \A i \in 0 .. Groups : Power[i] = IF i = 0 THEN 1 ELSE Base * Power[i - 1]
    BY <1>1, <2>2, RaisedStep
  <2>4. 0 \in 0 .. Groups /\ \A i \in 1 .. Groups : i \in 0 .. Groups /\ i # 0
    BY <1>1
  <2>. QED
    BY <2>3, <2>4
<1>. DEFINE T == {i \in Nat : i \in 0 .. Groups => Power[i] \in Nat /\ Power[i] >= 1}
<1>3. 0 \in T
  BY <1>2
<1>4. ASSUME NEW i \in Nat, i \in T PROVE i + 1 \in T
  <2>1. SUFFICES ASSUME i + 1 \in 0 .. Groups
                 PROVE  Power[i + 1] \in Nat /\ Power[i + 1] >= 1
    OBVIOUS
  <2>2. i + 1 \in 1 .. Groups /\ (i + 1) - 1 = i /\ i \in 0 .. Groups
    BY <1>1, <2>1
  <2>3. Power[i + 1] = Base * Power[i]
    BY <1>2, <2>2
  <2>. DEFINE p == Power[i]
  <2>4. p \in Nat /\ p >= 1
    BY <1>4, <2>2
  <2>. HIDE DEF p
  <2>5. Base * p \in Nat /\ Base * p >= 1
    <3>1. Base * p = p + (Base - 1) * p /\ (Base - 1) * p \in Nat
      BY <1>1, <2>4
    <3>. QED
      BY <2>4, <3>1
  <2>. QED
    BY <2>3, <2>5 DEF p
<1>5. \A i \in Nat : i \in T
  <2>. HIDE DEF T
  <2>. QED
    BY <1>3, <1>4, Induction
<1>. QED
  BY <1>1, <1>2, <1>5

\* They grow.
LEMMA PowersGrow ==
  ASSUME NEW i \in Nat, NEW j \in Nat, i <= j, j <= Groups
  PROVE  Power[i] <= Power[j]
<1>. DEFINE T == {n \in Nat : i <= n /\ n <= Groups => Power[i] <= Power[n]}
<1>1. 0 \in T
  <2>1. i <= 0 => i = 0
    OBVIOUS
  <2>. QED
    BY <2>1, Powers
<1>2. ASSUME NEW n \in Nat, n \in T PROVE n + 1 \in T
  <2>1. SUFFICES ASSUME i <= n + 1, n + 1 <= Groups PROVE Power[i] <= Power[n + 1]
    OBVIOUS
  <2>2. CASE i = n + 1
    <3>1. Power[i] \in Nat
      BY <2>1, Powers
    <3>. QED
      BY <2>2, <3>1
  <2>3. CASE i <= n
    <3>1. Power[i] <= Power[n]
      BY <1>2, <2>1, <2>3, Powers
    <3>2. n + 1 \in 1 .. Groups /\ (n + 1) - 1 = n /\ n \in 0 .. Groups /\ i \in 0 .. Groups
      BY <2>1, <2>3, Powers
    <3>3. Power[n + 1] = Base * Power[n]
      BY <3>2, Powers
    <3>. DEFINE p == Power[n]
                q == Power[i]
    <3>4. p \in Nat /\ q \in Nat /\ q <= p /\ Base \in Nat /\ Base >= 2
      BY <3>1, <3>2, Powers
    <3>. HIDE DEF p, q
    <3>5. p <= Base * p /\ Base * p \in Nat
      BY <3>4
    <3>6. q <= Base * p
      BY <3>4, <3>5
    <3>. QED
      BY <3>3, <3>6 DEF p, q
  <2>. QED
    BY <2>1, <2>2, <2>3
<1>3. \A n \in Nat : n \in T
  <2>. HIDE DEF T
  <2>. QED
    BY <1>1, <1>2, Induction
<1>. QED
  BY <1>3

\* A word holds every chunk but the last in full, and of the last what LastChunk
\* says.
LEMMA ChunksFit ==
  /\ Wrap \in Nat /\ Wrap >= 1
  /\ \A i \in 1 .. Groups : \A d \in 0 .. Base - 1 :
       /\ d * Power[i - 1] \in Nat
       /\ i < Groups \/ d <= LastChunk => d * Power[i - 1] < Wrap
<1>. DEFINE top == Power[Groups - 1]
<1>1. top \in Nat /\ top >= 1 /\ Wrap = (LastChunk + 1) * top
  <2>1. Groups - 1 \in 0 .. Groups
    BY Powers
  <2>. QED
    BY <2>1, Powers DEF Wrap
<1>. HIDE DEF top
<1>2. Wrap \in Nat /\ Wrap >= top
  <2>1. LastChunk + 1 \in Nat /\ LastChunk + 1 >= 1
    BY Powers
  <2>2. (LastChunk + 1) * top \in Nat /\ (LastChunk + 1) * top >= top
    BY <1>1, <2>1
  <2>. QED
    BY <1>1, <2>2
<1>3. ASSUME NEW i \in 1 .. Groups, NEW d \in 0 .. Base - 1
      PROVE  /\ d * Power[i - 1] \in Nat
             /\ i < Groups \/ d <= LastChunk => d * Power[i - 1] < Wrap
  <2>1. i - 1 \in 0 .. Groups /\ i \in 0 .. Groups /\ d \in Nat /\ d <= Base - 1
    BY Powers
  <2>. DEFINE p == Power[i - 1]
              q == Power[i]
  <2>2. p \in Nat /\ p >= 1 /\ q = Base * p
    BY <2>1, Powers
  <2>3. i < Groups => q <= top
    <3>1. i < Groups => i \in Nat /\ Groups - 1 \in Nat /\ i <= Groups - 1 /\ Groups - 1 <= Groups
      BY Powers
    <3>. QED
      BY <3>1, PowersGrow DEF top
  <2>4. i = Groups => p = top
    BY DEF top
  <2>. HIDE DEF p, q
  <2>5. d * p \in Nat
    BY <2>1, <2>2
  <2>6. CASE i < Groups
    <3>1. Base * p = (Base - 1) * p + p /\ (Base - 1) * p \in Nat
      BY <2>2, Powers
    <3>2. d * p <= (Base - 1) * p
      BY <2>1, <2>2, Powers
    <3>3. d * p < Base * p
      BY <2>2, <2>5, <3>1, <3>2
    <3>4. Base * p <= top
      BY <2>2, <2>3, <2>6
    <3>5. d * p < Wrap
      BY <1>1, <1>2, <2>2, <2>5, <3>1, <3>3, <3>4
    <3>. QED
      BY <2>5, <3>5 DEF p
  <2>7. CASE i = Groups
    <3>1. ASSUME d <= LastChunk PROVE d * p < Wrap
      <4>1. (LastChunk + 1) * top = LastChunk * top + top /\ LastChunk * top \in Nat
        BY <1>1, Powers
      <4>2. d * top <= LastChunk * top
        BY <1>1, <2>1, <3>1, Powers
      <4>3. d * p = d * top
        BY <2>4, <2>7
      <4>. QED
        BY <1>1, <2>5, <4>1, <4>2, <4>3
    <3>. QED
      BY <2>5, <2>7, <3>1 DEF p
  <2>. QED
    BY <2>6, <2>7, Powers
<1>. QED
  BY <1>1, <1>2, <1>3

-----------------------------------------------------------------------------
(***************************************************************************)
(* Reading one integer.                                                    *)
(***************************************************************************)
\* It ends at the first byte without a successor.
LEMMA EndIsFirst ==
  ASSUME msg \in Seq(Bytes), NEW at \in Nat, Ends(at) # {}
  PROVE  /\ End(at) \in Nat /\ at < End(at) /\ End(at) <= Len(msg)
         /\ msg[End(at)] \in Bytes /\ msg[End(at)] < Base
         /\ \A j \in at + 1 .. End(at) - 1 : msg[j] \in Bytes /\ msg[j] >= Base
<1>1. Len(msg) \in Nat
  OBVIOUS
<1>2. Ends(at) \subseteq Nat
  BY <1>1 DEF Ends
<1>3. \E i \in Ends(at) : \A j \in Ends(at) : i <= j
  BY <1>2, Least
<1>4. End(at) \in Ends(at) /\ \A j \in Ends(at) : End(at) <= j
  BY <1>3 DEF End
<1>5. End(at) \in Nat /\ at < End(at) /\ End(at) <= Len(msg) /\ msg[End(at)] < Base
  BY <1>1, <1>4 DEF Ends
<1>6. msg[End(at)] \in Bytes
  BY <1>1, <1>5
<1>7. ASSUME NEW j \in at + 1 .. End(at) - 1
      PROVE  msg[j] \in Bytes /\ msg[j] >= Base
  <2>1. j \in Nat /\ j \in at + 1 .. Len(msg) /\ j < End(at)
    BY <1>1, <1>5
  <2>2. msg[j] \in Bytes
    BY <1>1, <2>1
  <2>3. j \notin Ends(at)
    BY <1>4, <1>5, <2>1
  <2>4. ~(msg[j] < Base)
    BY <2>1, <2>3 DEF Ends
  <2>5. msg[j] \in Nat /\ Base \in Nat
    BY <2>2, Powers DEF Bytes
  <2>. QED
    BY <2>2, <2>4, <2>5
<1>. QED
  BY <1>5, <1>6, <1>7

\* Its chunks fit into the word, so the shifts drop nothing.
LEMMA NothingIsLost ==
  ASSUME msg \in Seq(Bytes), NEW at \in Nat, CanRead(at)
  PROVE  /\ \A i \in 1 .. End(at) - at : Chunk(at, i) \in Nat /\ Chunk(at, i) < Wrap
         /\ Value(at) = Exact(at)
<1>1. /\ End(at) \in Nat /\ at < End(at) /\ End(at) <= Len(msg)
      /\ End(at) - at <= Groups
      /\ End(at) - at = Groups => msg[End(at)] <= LastChunk
  BY EndIsFirst DEF CanRead
<1>. DEFINE S == 1 .. End(at) - at
<1>2. ASSUME NEW i \in S
      PROVE  Chunk(at, i) \in Nat /\ Chunk(at, i) < Wrap
  <2>1. i \in 1 .. Groups /\ i \in Nat /\ at + i \in 1 .. Len(msg)
    BY <1>1, Powers
  <2>. DEFINE m == msg[at + i]
  <2>2. m \in Nat
    <3>1. m \in Bytes
      BY <2>1
    <3>. QED
      BY <3>1, Powers DEF Bytes
  <2>. HIDE DEF m
  <2>3. m % Base \in 0 .. Base - 1
    BY <2>2, Powers
  <2>4. i < Groups \/ m % Base <= LastChunk
    <3>1. CASE i < Groups
      BY <3>1
    <3>2. CASE i = Groups
      <4>1. End(at) - at = Groups /\ at + i = End(at)
        <5>1. /\ End(at) \in Nat /\ at < End(at) /\ End(at) - at <= Groups /\ Groups \in Nat
              /\ i \in Nat /\ i <= End(at) - at
          BY <1>1, <2>1, Powers
        <5>. QED
          BY <3>2, <5>1
      <4>2. m <= LastChunk
        BY <1>1, <4>1 DEF m
      <4>3. m < Base
        BY <2>2, <4>2, Powers
      <4>4. m % Base = m
        BY <2>2, <4>3, Powers
      <4>. QED
        BY <4>2, <4>4
    <3>. QED
      BY <2>1, <3>1, <3>2, Powers
  <2>5. (m % Base) * Power[i - 1] \in Nat /\ (m % Base) * Power[i - 1] < Wrap
    BY <2>1, <2>3, <2>4, ChunksFit
  <2>. QED
    BY <2>5 DEF Chunk, m
<1>3. Value(at) = Exact(at)
  <2>. DEFINE f == [i \in S |-> Chunk(at, i)]
              w == [i \in S |-> Chunk(at, i) % Wrap]
  <2>1. IsFiniteSet(S)
    BY <1>1, FS_Interval
  <2>2. \A i \in S : f[i] = w[i]
    <3>1. ASSUME NEW i \in S PROVE Chunk(at, i) % Wrap = Chunk(at, i)
      <4>. DEFINE c == Chunk(at, i)
      <4>1. c \in Nat /\ c < Wrap /\ Wrap \in Nat
        BY <1>2, ChunksFit
      <4>. HIDE DEF c
      <4>2. c % Wrap = c
        BY <4>1
      <4>. QED
        BY <4>2 DEF c
    <3>. QED
      BY <3>1
  <2>3. Exact(at) = SumFunctionOnSet(f, S) /\ Value(at) = SumFunctionOnSet(w, S)
    BY ExactIsSum
  <2>. HIDE DEF f, w, S
  <2>. QED
    BY <2>1, <2>2, <2>3, SumCongruence
<1>. QED
  BY <1>2, <1>3

\* What is read is a number.
LEMMA ValueType ==
  ASSUME msg \in Seq(Bytes), NEW at \in Nat, CanRead(at)
  PROVE  Value(at) \in Int
<1>. DEFINE S == 1 .. End(at) - at
            f == [i \in S |-> Chunk(at, i)]
<1>1. IsFiniteSet(S)
  <2>1. End(at) - at \in Int
    BY EndIsFirst DEF CanRead
  <2>. QED
    BY <2>1, FS_Interval
<1>2. \A i \in S : f[i] \in Int
  <2>1. \A i \in S : Chunk(at, i) \in Nat
    BY NothingIsLost
  <2>. QED
    BY <2>1
<1>3. Value(at) = SumFunctionOnSet(f, S)
  BY NothingIsLost, ExactIsSum
<1>. HIDE DEF f, S
<1>. QED
  BY <1>1, <1>2, <1>3, SumType

-----------------------------------------------------------------------------
(***************************************************************************)
(* Where the entries of a block begin (EntryStart).                        *)
(***************************************************************************)
\* g[j] is where the entry after the first j begins.
Starting(first, n, g) ==
  g = [j \in 0 .. n |-> IF j = 0 THEN first ELSE End(g[j - 1] + 1)]

\* One step of the recursion.
LEMMA StartingStep ==
  ASSUME NEW first, NEW n \in Nat, NEW g, Starting(first, n, g), NEW j \in 0 .. n
  PROVE  g[j] = IF j = 0 THEN first ELSE End(g[j - 1] + 1)
<1>1. g = [i \in 0 .. n |-> IF i = 0 THEN first ELSE End(g[i - 1] + 1)]
  BY DEF Starting
<1>. QED
  BY <1>1, Zenon

\* There is such a g for every number of entries.
LEMMA StartingExists ==
  ASSUME NEW first
  PROVE  \A n \in Nat : \E g : Starting(first, n, g)
<1>. DEFINE T == {n \in Nat : \E g : Starting(first, n, g)}
<1>1. 0 \in T
  <2>. DEFINE g == [j \in 0 .. 0 |-> first]
  <2>1. ASSUME NEW j \in 0 .. 0
        PROVE  first = IF j = 0 THEN first ELSE End(g[j - 1] + 1)
    BY <2>1
  <2>2. g = [j \in 0 .. 0 |-> IF j = 0 THEN first ELSE End(g[j - 1] + 1)]
    BY <2>1, Zenon
  <2>. HIDE DEF g
  <2>. QED
    BY <2>2 DEF Starting
<1>2. ASSUME NEW n \in Nat, n \in T PROVE n + 1 \in T
  <2>1. PICK g : Starting(first, n, g)
    BY <1>2
  <2>0. \A j \in 0 .. n : g[j] = IF j = 0 THEN first ELSE End(g[j - 1] + 1)
    BY <2>1, StartingStep
  <2>. DEFINE h == [j \in 0 .. n + 1 |-> IF j = n + 1 THEN End(g[n] + 1) ELSE g[j]]
  <2>2. ASSUME NEW j \in 0 .. n + 1
        PROVE  h[j] = IF j = 0 THEN first ELSE End(h[j - 1] + 1)
    <3>1. CASE j = n + 1
      <4>1. h[j] = End(g[n] + 1) /\ j # 0
        BY <3>1
      <4>2. j - 1 = n /\ j - 1 \in 0 .. n + 1 /\ j - 1 # n + 1
        BY <3>1
      <4>3. h[j - 1] = g[n]
        BY <4>2
      <4>. HIDE DEF h
      <4>. QED
        <5>1. h[j] = End(h[j - 1] + 1)
          BY <4>1, <4>3
        <5>. QED
          BY <4>1, <5>1
    <3>2. CASE j # n + 1
      <4>1. j \in 0 .. n /\ (j # 0 => j - 1 \in 0 .. n + 1 /\ j - 1 # n + 1)
        BY <3>2
      <4>2. h[j] = g[j] /\ (j # 0 => h[j - 1] = g[j - 1])
        BY <3>2, <4>1
      <4>3. g[j] = IF j = 0 THEN first ELSE End(g[j - 1] + 1)
        BY <2>0, <4>1
      <4>. HIDE DEF h
      <4>4. CASE j = 0
        BY <4>2, <4>3, <4>4
      <4>5. CASE j # 0
        <5>1. h[j] = End(g[j - 1] + 1) /\ g[j - 1] = h[j - 1]
          BY <4>2, <4>3, <4>5
        <5>2. h[j] = End(h[j - 1] + 1)
          BY <5>1
        <5>. QED
          BY <4>5, <5>2
      <4>. QED
        BY <4>4, <4>5
    <3>. QED
      BY <3>1, <3>2
  <2>3. h = [j \in 0 .. n + 1 |-> IF j = 0 THEN first ELSE End(h[j - 1] + 1)]
    <3>1. h = [j \in 0 .. n + 1 |-> h[j]]
      OBVIOUS
    <3>. HIDE DEF h
    <3>. QED
      BY <2>2, <3>1, Zenon
  <2>. HIDE DEF h
  <2>4. Starting(first, n + 1, h)
    BY <2>3 DEF Starting
  <2>. QED
    BY <2>4
<1>3. \A n \in Nat : n \in T
  <2>. HIDE DEF T
  <2>. QED
    BY <1>1, <1>2, Induction
<1>. QED
  BY <1>3

\* The entries of a block follow each other.
LEMMA EntriesFollow ==
  ASSUME NEW b, b.entry_count \in Nat
  PROVE  /\ EntryStart(b)[0] = b.entries_offset
         /\ \A j \in 1 .. b.entry_count : EntryStart(b)[j] = End(EntryStart(b)[j - 1] + 1)
<1>1. EntryStart(b) = CHOOSE g : Starting(b.entries_offset, b.entry_count, g)
  BY DEF EntryStart, Starting
<1>2. Starting(b.entries_offset, b.entry_count, EntryStart(b))
  BY <1>1, StartingExists
<1>3. \A j \in 0 .. b.entry_count :
        EntryStart(b)[j] = IF j = 0 THEN b.entries_offset ELSE End(EntryStart(b)[j - 1] + 1)
  BY <1>2, StartingStep
<1>4. 0 \in 0 .. b.entry_count /\ \A j \in 1 .. b.entry_count : j \in 0 .. b.entry_count /\ j # 0
  OBVIOUS
<1>. QED
  BY <1>3, <1>4

-----------------------------------------------------------------------------
(***************************************************************************)
(* The two readings of a round.                                            *)
(***************************************************************************)
\* The first n entries of block b, as the second reading sees them.
SeenOf(b, n) == [j \in 1 .. n |-> EntryAt(EntryStart(b)[j - 1])]

\* The first reading could read them.
CouldRead(b, n) ==
  \A j \in 1 .. n : EntryStart(b)[j - 1] \in Nat /\ CanRead(EntryStart(b)[j - 1] + 1)

\* How many entries of a block the first reading has read.
EntriesRead(i) ==
  IF i = Len(blocks) THEN blocks[i].entry_count - left ELSE blocks[i].entry_count

\* What the second reading sees of the entries that the first one has read.
Seen == [i \in 1 .. Len(blocks) |-> SeenOf(blocks[i], EntriesRead(i))]

\* What the first reading keeps of a block.
Blocks == [id : Int, entry_count : Nat, entries_offset : Nat]

\* The first reading has read what the second one sees of these entries, and
\* stands where the next one begins.
RoundInvariant ==
  /\ blocks \in Seq(Blocks) /\ left \in Nat /\ offset \in Nat
  /\ blocks = <<>> => left = 0
  /\ blocks # <<>> =>
       LET b == blocks[Len(blocks)]
       IN  left <= b.entry_count /\ offset = EntryStart(b)[b.entry_count - left]
  /\ \A i \in 1 .. Len(blocks) : CouldRead(blocks[i], EntriesRead(i))
  /\ read = FlattenSeq(Seen)
  /\ verdict = "accepted" => left = 0

\* An accepted commitment was read as it stands.
CommitmentInvariant ==
  verdict = "accepted" =>
    /\ CanReadId(0) /\ CanReadId(PayeeAt) /\ TokenAt <= Len(msg) /\ CanRead(TokenAt)
    /\ Len(msg) = End(TokenAt) + count
    /\ read = <<Commitment>>

\* The reader's invariant, of both kinds of messages.
ReaderInvariant ==
  /\ msg \in Seq(Bytes) /\ kind \in {"round", "commitment"}
  /\ kind = "round" => RoundInvariant
  /\ kind = "commitment" => CommitmentInvariant

\* What is read of a message depends on the message only.
LEMMA SameMessage ==
  ASSUME msg' = msg
  PROVE  /\ \A at : CanRead(at)' <=> CanRead(at)
         /\ \A at : EntryAt(at)' = EntryAt(at)
         /\ \A at : Value(at)' = Value(at) /\ Exact(at)' = Exact(at) /\ End(at)' = End(at)
         /\ \A b : EntryStart(b)' = EntryStart(b)
         /\ \A b, n : SeenOf(b, n)' = SeenOf(b, n)
         /\ \A b, n : CouldRead(b, n)' <=> CouldRead(b, n)
<1>1. \A at : End(at)' = End(at) /\ Ends(at)' = Ends(at)
  BY DEF End, Ends
<1>2. \A at : CanRead(at)' <=> CanRead(at)
  BY <1>1 DEF CanRead
<1>3. \A at, i : Chunk(at, i)' = Chunk(at, i)
  BY DEF Chunk
<1>4. \A at : Value(at)' = Value(at) /\ Exact(at)' = Exact(at)
  BY DEF Value, Exact, Chunk, End, Ends, MapThenSumSet, MapThenFoldSet
<1>5. \A at : EntryAt(at)' = EntryAt(at)
  BY <1>4 DEF EntryAt
<1>6. \A b : EntryStart(b)' = EntryStart(b)
  BY DEF EntryStart, End, Ends
<1>7. \A b, n : SeenOf(b, n)' = SeenOf(b, n)
  BY <1>5, <1>6 DEF SeenOf
<1>8. \A b, n : CouldRead(b, n)' <=> CouldRead(b, n)
  BY <1>2, <1>6 DEF CouldRead
<1>. QED
  BY <1>1, <1>2, <1>4, <1>5, <1>6, <1>7, <1>8

\* Entries as they are read anywhere in the message.
EntriesSomewhere == {EntryAt(at) : at \in Nat}

\* What is seen of a block are as many of them as were read.
LEMMA SeenIsSequence ==
  ASSUME NEW b, NEW n \in Nat, CouldRead(b, n)
  PROVE  SeenOf(b, n) \in Seq(EntriesSomewhere) /\ Len(SeenOf(b, n)) = n
<1>1. \A j \in 1 .. n : EntryAt(EntryStart(b)[j - 1]) \in EntriesSomewhere
  BY DEF CouldRead, EntriesSomewhere
<1>. QED
  BY <1>1, IsASeq DEF SeenOf

\* So are the entries of all blocks.
LEMMA AllSeen ==
  ASSUME RoundInvariant
  PROVE  /\ \A i \in 1 .. Len(blocks) : EntriesRead(i) \in Nat /\ blocks[i] \in Blocks
         /\ Seen \in Seq(Seq(EntriesSomewhere)) /\ Len(Seen) = Len(blocks)
<1>1. blocks \in Seq(Blocks) /\ left \in Nat /\ Len(blocks) \in Nat
  BY DEF RoundInvariant
<1>2. ASSUME NEW i \in 1 .. Len(blocks) PROVE EntriesRead(i) \in Nat /\ blocks[i] \in Blocks
  <2>1. blocks[i] \in Blocks /\ blocks # <<>>
    BY <1>1
  <2>2. blocks[i].entry_count \in Nat
    BY <2>1 DEF Blocks
  <2>3. i = Len(blocks) => left <= blocks[i].entry_count
    BY <2>1 DEF RoundInvariant
  <2>. QED
    BY <1>1, <2>1, <2>2, <2>3 DEF EntriesRead
<1>3. \A i \in 1 .. Len(blocks) : SeenOf(blocks[i], EntriesRead(i)) \in Seq(EntriesSomewhere)
  BY <1>2, SeenIsSequence DEF RoundInvariant
<1>. QED
  BY <1>1, <1>2, <1>3, IsASeq DEF Seen

\* Append as a function.
LEMMA AppendIs ==
  ASSUME NEW S, NEW s \in Seq(S), NEW x \in S
  PROVE  Append(s, x) = [i \in 1 .. Len(s) + 1 |-> IF i = Len(s) + 1 THEN x ELSE s[i]]
<1>. DEFINE t == Append(s, x)
<1>1. /\ t \in Seq(S) /\ Len(t) = Len(s) + 1 /\ t[Len(s) + 1] = x
      /\ \A i \in 1 .. Len(s) : t[i] = s[i]
  OBVIOUS
<1>. HIDE DEF t
<1>2. t = [i \in 1 .. Len(t) |-> t[i]] /\ Len(s) \in Nat
  BY <1>1
<1>3. \A i \in 1 .. Len(s) + 1 : t[i] = IF i = Len(s) + 1 THEN x ELSE s[i]
  BY <1>1, <1>2
<1>. QED
  BY <1>1, <1>2, <1>3 DEF t

\* parse_clearing_round_layout_with_version takes a block: nothing of it is read.
LEMMA BlockStep ==
  ASSUME msg \in Seq(Bytes), RoundInvariant, ReadBlock
  PROVE  RoundInvariant'
<1>. PICK n \in Nat : n = Len(blocks)
  BY DEF RoundInvariant
<1>. PICK b : b = Block(Value(offset), msg[End(offset) + 1], End(offset) + 1)
  OBVIOUS
<1>0. n = Len(blocks) /\ b = Block(Value(offset), msg[End(offset) + 1], End(offset) + 1)
  OBVIOUS
<1>1. /\ left = 0 /\ CanRead(offset) /\ End(offset) < Len(msg) /\ verdict # "accepted"
      /\ blocks' = Append(blocks, b) /\ left' = msg[End(offset) + 1]
      /\ offset' = End(offset) + 1 /\ msg' = msg /\ read' = read /\ verdict' = verdict
  BY <1>0 DEF ReadBlock, CanReadBlock, CanReadId, Reading, AfterCount
<1>2. blocks \in Seq(Blocks) /\ n = Len(blocks) /\ offset \in Nat /\ read = FlattenSeq(Seen)
  BY <1>0 DEF RoundInvariant
<1>3. End(offset) \in Nat /\ msg[End(offset) + 1] \in Nat /\ Value(offset) \in Int
  <2>1. End(offset) \in Nat /\ offset < End(offset) /\ Value(offset) \in Int
    BY <1>1, <1>2, EndIsFirst, ValueType DEF CanRead
  <2>2. End(offset) + 1 \in 1 .. Len(msg)
    BY <1>1, <2>1
  <2>3. msg[End(offset) + 1] \in Bytes
    BY <2>2
  <2>. QED
    BY <2>1, <2>3, Powers DEF Bytes
<1>4. b \in Blocks /\ b.entry_count = left' /\ b.entries_offset = offset'
  BY <1>0, <1>1, <1>3 DEF Block, Blocks
<1>5. /\ blocks' \in Seq(Blocks) /\ Len(blocks') = n + 1 /\ blocks'[n + 1] = b
      /\ \A i \in 1 .. n : blocks'[i] = blocks[i]
      /\ blocks' # <<>>
  BY <1>1, <1>2, <1>4
<1>6. left' \in Nat /\ offset' \in Nat
  BY <1>1, <1>3
<1>7. offset' = EntryStart(b)[0]
  BY <1>4, <1>6, EntriesFollow
<1>8. /\ EntriesRead(n + 1)' = 0
      /\ \A i \in 1 .. n : EntriesRead(i)' = EntriesRead(i)
  <2>1. EntriesRead(n + 1)' = b.entry_count - left'
    <3>1. n + 1 = Len(blocks')
      BY <1>5
    <3>. QED
      BY <1>5, <3>1 DEF EntriesRead
  <2>2. ASSUME NEW i \in 1 .. n PROVE EntriesRead(i)' = EntriesRead(i)
    <3>1. blocks[i] \in Blocks /\ i # Len(blocks')
      BY <1>2, <1>5, AllSeen
    <3>2. blocks[i].entry_count \in Nat
      BY <3>1 DEF Blocks
    <3>. QED
      BY <1>1, <1>5, <3>1, <3>2 DEF EntriesRead
  <2>. QED
    BY <1>4, <1>6, <2>1, <2>2
<1>9. ASSUME NEW i \in 1 .. n + 1 PROVE CouldRead(blocks'[i], EntriesRead(i)')
  <2>1. CASE i = n + 1
    BY <1>8, <2>1 DEF CouldRead
  <2>2. CASE i # n + 1
    <3>1. i \in 1 .. n
      BY <1>2, <2>2
    <3>2. CouldRead(blocks[i], EntriesRead(i))
      BY <3>1 DEF RoundInvariant
    <3>. QED
      BY <1>5, <1>8, <3>1, <3>2
  <2>. QED
    BY <2>1, <2>2
<1>10. Seen' = Append(Seen, <<>>)
  <2>. DEFINE new == [i \in 1 .. n + 1 |-> SeenOf(blocks'[i], EntriesRead(i)')]
  <2>1. Seen' = new
    <3>1. Seen' = [i \in 1 .. Len(blocks') |-> SeenOf(blocks'[i], EntriesRead(i)')]
      BY <1>1, SameMessage DEF Seen
    <3>. QED
      BY <1>5, <3>1
  <2>2. new[n + 1] = <<>>
    <3>1. new[n + 1] = SeenOf(b, 0)
      BY <1>5, <1>8
    <3>2. SeenOf(b, 0) \in Seq(EntriesSomewhere) /\ Len(SeenOf(b, 0)) = 0
      <4>1. CouldRead(b, 0)
        BY DEF CouldRead
      <4>. QED
        BY <4>1, SeenIsSequence
    <3>. QED
      BY <3>1, <3>2
  <2>3. \A i \in 1 .. n : new[i] = Seen[i]
    BY <1>2, <1>5, <1>8 DEF Seen
  <2>4. Seen \in Seq(Seq(EntriesSomewhere)) /\ Len(Seen) = n
    BY AllSeen
  <2>5. DOMAIN new = 1 .. n + 1 /\ new = [i \in 1 .. n + 1 |-> new[i]]
    OBVIOUS
  <2>. HIDE DEF new
  <2>6. new = [i \in 1 .. n + 1 |-> IF i = n + 1 THEN <<>> ELSE Seen[i]]
    <3>1. \A i \in 1 .. n + 1 : new[i] = IF i = n + 1 THEN <<>> ELSE Seen[i]
      BY <1>2, <2>2, <2>3
    <3>. QED
      BY <2>5, <3>1
  <2>7. Append(Seen, <<>>) = [i \in 1 .. n + 1 |-> IF i = n + 1 THEN <<>> ELSE Seen[i]]
    <3>1. <<>> \in Seq(EntriesSomewhere)
      OBVIOUS
    <3>. HIDE DEF new
    <3>2. PICK s \in Seq(Seq(EntriesSomewhere)) : s = Seen
      BY <2>4
    <3>3. PICK x \in Seq(EntriesSomewhere) : x = <<>>
      BY <3>1
    <3>4. Append(s, x) = [i \in 1 .. Len(s) + 1 |-> IF i = Len(s) + 1 THEN x ELSE s[i]]
      BY AppendIs
    <3>. QED
      BY <2>4, <3>2, <3>3, <3>4
  <2>. QED
    BY <2>1, <2>6, <2>7
<1>11. FlattenSeq(Seen') = read
  <2>1. Seen \in Seq(Seq(EntriesSomewhere)) /\ <<>> \in Seq(EntriesSomewhere)
    BY AllSeen
  <2>2. FlattenSeq(Append(Seen, <<>>)) = FlattenSeq(Seen) \o <<>>
    BY <2>1, FlattenAppend
  <2>3. FlattenSeq(Seen) \in Seq(EntriesSomewhere)
    BY <2>1, FlattenType
  <2>4. FlattenSeq(Seen) \o <<>> = FlattenSeq(Seen)
    BY <2>3
  <2>. QED
    BY <1>2, <1>10, <2>2, <2>4
<1>12. FlattenSeq(Seen)' = read'
  BY <1>1, <1>11 DEF FlattenSeq
<1>. QED
  <2>1. (\A i \in 1 .. Len(blocks) : CouldRead(blocks[i], EntriesRead(i)))'
    BY <1>1, <1>5, <1>9, SameMessage, Zenon
  <2>2. (blocks # <<>> => LET c == blocks[Len(blocks)]
                          IN  /\ left <= c.entry_count
                              /\ offset = EntryStart(c)[c.entry_count - left])'
    <3>1. blocks'[Len(blocks')] = b
      BY <1>5
    <3>2. left' <= b.entry_count /\ b.entry_count - left' = 0
      BY <1>4, <1>6
    <3>3. EntryStart(b)' = EntryStart(b)
      BY <1>1, SameMessage
    <3>. QED
      BY <1>7, <3>1, <3>2, <3>3
  <2>. QED
    BY <1>1, <1>5, <1>6, <1>12, <2>1, <2>2 DEF RoundInvariant

\* Two sequences that differ in their last elements only.
SameFront(s, t, n) == Len(s) = n + 1 /\ Len(t) = n + 1 /\ \A i \in 1 .. n : s[i] = t[i]

\* Both are their common front with one more element.
LEMMA DifferInLast ==
  ASSUME NEW S, NEW s \in Seq(S), NEW t \in Seq(S), NEW n \in Nat,
         SameFront(s, t, n)
  PROVE  \E front \in Seq(S) : s = Append(front, s[n + 1]) /\ t = Append(front, t[n + 1])
<1>0. Len(s) = n + 1 /\ Len(t) = n + 1 /\ \A i \in 1 .. n : s[i] = t[i]
  BY DEF SameFront
<1>. DEFINE front == [i \in 1 .. n |-> s[i]]
<1>1. front \in Seq(S) /\ Len(front) = n
  <2>1. \A i \in 1 .. n : s[i] \in S
    BY <1>0
  <2>. QED
    BY <2>1, IsASeq
<1>2. ASSUME NEW u \in Seq(S), Len(u) = n + 1, \A i \in 1 .. n : u[i] = s[i]
      PROVE  u = Append(front, u[n + 1])
  <2>1. u[n + 1] \in S
    BY <1>2
  <2>2. Append(front, u[n + 1]) = [i \in 1 .. n + 1 |-> IF i = n + 1 THEN u[n + 1] ELSE front[i]]
    BY <1>1, <2>1, AppendIs
  <2>3. \A i \in 1 .. n + 1 : u[i] = IF i = n + 1 THEN u[n + 1] ELSE front[i]
    BY <1>2
  <2>4. u = [i \in 1 .. n + 1 |-> u[i]]
    BY <1>2
  <2>. HIDE DEF front
  <2>. QED
    BY <2>2, <2>3, <2>4
<1>3. s = Append(front, s[n + 1]) /\ t = Append(front, t[n + 1])
  BY <1>0, <1>2
<1>. QED
  BY <1>1, <1>3

\* parse_channel_entry: the entry is the next that the second reading sees.
LEMMA EntryStep ==
  ASSUME msg \in Seq(Bytes), RoundInvariant, ReadEntry
  PROVE  RoundInvariant'
<1>1. /\ left > 0 /\ CanRead(offset + 1) /\ verdict # "accepted"
      /\ read' = Append(read, EntryAt(offset)) /\ offset' = End(offset + 1)
      /\ left' = left - 1
      /\ blocks' = blocks /\ msg' = msg /\ verdict' = verdict
  BY DEF ReadEntry, CanReadEntry, Reading
<1>2. blocks \in Seq(Blocks) /\ left \in Nat /\ offset \in Nat /\ blocks # <<>>
  BY <1>1 DEF RoundInvariant
<1>3. PICK n \in Nat : Len(blocks) = n + 1
  BY <1>2
<1>4. PICK b \in Blocks : b = blocks[n + 1]
  BY <1>2, <1>3
<1>5. left <= b.entry_count /\ b.entry_count \in Nat /\ offset = EntryStart(b)[b.entry_count - left]
  BY <1>2, <1>3, <1>4 DEF RoundInvariant, Blocks
<1>6. PICK k \in Nat : k = b.entry_count - left
  BY <1>2, <1>5
<1>7. left' \in Nat /\ left' <= b.entry_count /\ b.entry_count - left' = k + 1
      /\ k + 1 \in 1 .. b.entry_count
  BY <1>1, <1>2, <1>5, <1>6
<1>8. offset' \in Nat /\ offset' = EntryStart(b)[k + 1]
  <2>1. End(offset + 1) \in Nat
    BY <1>1, <1>2, EndIsFirst DEF CanRead
  <2>2. EntryStart(b)[k + 1] = End(EntryStart(b)[(k + 1) - 1] + 1)
    BY <1>5, <1>7, EntriesFollow
  <2>3. (k + 1) - 1 = k /\ EntryStart(b)[k] = offset
    BY <1>5, <1>6
  <2>. QED
    BY <1>1, <2>1, <2>2, <2>3
<1>9. /\ EntriesRead(n + 1) = k /\ EntriesRead(n + 1)' = k + 1
      /\ \A i \in 1 .. n : EntriesRead(i)' = EntriesRead(i)
  <2>1. \A i \in 1 .. n : i # n + 1
    OBVIOUS
  <2>. QED
    BY <1>1, <1>3, <1>4, <1>6, <1>7, <2>1 DEF EntriesRead
<1>10. CouldRead(b, k + 1)
  <2>1. CouldRead(b, k)
    BY <1>3, <1>4, <1>9 DEF RoundInvariant
  <2>2. ASSUME NEW j \in 1 .. k + 1
        PROVE  EntryStart(b)[j - 1] \in Nat /\ CanRead(EntryStart(b)[j - 1] + 1)
    <3>1. CASE j \in 1 .. k
      BY <2>1, <3>1 DEF CouldRead
    <3>2. CASE j = k + 1
      <4>1. j - 1 = k /\ EntryStart(b)[k] = offset
        BY <1>5, <1>6, <3>2
      <4>. QED
        BY <1>1, <1>2, <4>1
    <3>. QED
      BY <3>1, <3>2
  <2>. QED
    BY <2>2 DEF CouldRead
<1>11. SeenOf(b, k + 1) = Append(SeenOf(b, k), EntryAt(offset))
  <2>1. CouldRead(b, k)
    BY <1>3, <1>4, <1>9 DEF RoundInvariant
  <2>2. PICK s \in Seq(EntriesSomewhere) : s = SeenOf(b, k) /\ Len(s) = k
    BY <2>1, SeenIsSequence
  <2>3. PICK e \in EntriesSomewhere : e = EntryAt(offset)
    BY <1>2 DEF EntriesSomewhere
  <2>4. Append(s, e) = [i \in 1 .. k + 1 |-> IF i = k + 1 THEN e ELSE s[i]]
    BY <2>2, AppendIs
  <2>5. ASSUME NEW j \in 1 .. k + 1
        PROVE  EntryAt(EntryStart(b)[j - 1]) = IF j = k + 1 THEN e ELSE s[j]
    <3>1. CASE j = k + 1
      <4>1. j - 1 = k /\ EntryStart(b)[k] = offset
        BY <1>5, <1>6, <3>1
      <4>. QED
        BY <2>3, <3>1, <4>1
    <3>2. CASE j # k + 1
      <4>1. j \in 1 .. k
        BY <3>2
      <4>2. s[j] = EntryAt(EntryStart(b)[j - 1])
        BY <2>2, <4>1 DEF SeenOf
      <4>. QED
        BY <3>2, <4>2
    <3>. QED
      BY <3>1, <3>2
  <2>6. SeenOf(b, k + 1) = [i \in 1 .. k + 1 |-> IF i = k + 1 THEN e ELSE s[i]]
    BY <2>5, Zenon DEF SeenOf
  <2>. QED
    BY <2>2, <2>3, <2>4, <2>6
<1>12. CouldRead(b, k)
  BY <1>3, <1>4, <1>9 DEF RoundInvariant
<1>13. /\ Seen \in Seq(Seq(EntriesSomewhere)) /\ Len(Seen) = n + 1
       /\ Seen[n + 1] = SeenOf(b, k)
  <2>1. Seen \in Seq(Seq(EntriesSomewhere)) /\ Len(Seen) = Len(blocks)
    BY AllSeen
  <2>. QED
    BY <1>3, <1>4, <1>9, <2>1 DEF Seen
<1>14. PICK old \in Seq(Seq(EntriesSomewhere)) : old = Seen
  BY <1>13
<1>15. PICK new \in Seq(Seq(EntriesSomewhere)) :
         /\ new = Seen' /\ Len(new) = n + 1
         /\ new[n + 1] = SeenOf(b, k + 1) /\ \A i \in 1 .. n : new[i] = old[i]
  <2>. DEFINE after == [i \in 1 .. n + 1 |-> SeenOf(blocks[i], IF i = n + 1 THEN k + 1 ELSE EntriesRead(i))]
  <2>1. Seen' = [i \in 1 .. Len(blocks') |-> SeenOf(blocks'[i], EntriesRead(i)')]
    BY <1>1, SameMessage DEF Seen
  <2>2. \A i \in 1 .. n + 1 : SeenOf(blocks'[i], EntriesRead(i)')
                                = SeenOf(blocks[i], IF i = n + 1 THEN k + 1 ELSE EntriesRead(i))
    <3>1. ASSUME NEW i \in 1 .. n + 1
          PROVE  EntriesRead(i)' = IF i = n + 1 THEN k + 1 ELSE EntriesRead(i)
      <4>1. CASE i = n + 1
        BY <1>9, <4>1
      <4>2. CASE i # n + 1
        <5>1. i \in 1 .. n
          BY <4>2
        <5>. QED
          BY <1>9, <4>2, <5>1
      <4>. QED
        BY <4>1, <4>2
    <3>. QED
      BY <1>1, <3>1, Zenon
  <2>3. Seen' = after
    BY <1>1, <1>3, <2>1, <2>2
  <2>4. \A i \in 1 .. n : after[i] = old[i]
    <3>1. ASSUME NEW i \in 1 .. n PROVE after[i] = old[i]
      <4>1. i \in 1 .. n + 1 /\ i # n + 1 /\ i \in 1 .. Len(blocks)
        BY <1>3
      <4>2. after[i] = SeenOf(blocks[i], EntriesRead(i))
        BY <4>1
      <4>3. Seen[i] = SeenOf(blocks[i], EntriesRead(i))
        BY <4>1 DEF Seen
      <4>. QED
        BY <1>14, <4>2, <4>3
    <3>. QED
      BY <3>1
  <2>5. after[n + 1] = SeenOf(b, k + 1)
    BY <1>4
  <2>6. \A i \in 1 .. n + 1 : after[i] \in Seq(EntriesSomewhere)
    <3>1. after[n + 1] \in Seq(EntriesSomewhere)
      <4>1. SeenOf(b, k + 1) \in Seq(EntriesSomewhere)
        BY <1>10, SeenIsSequence
      <4>. QED
        BY <2>5, <4>1
    <3>2. \A i \in 1 .. n : old[i] \in Seq(EntriesSomewhere)
      BY <1>13, <1>14
    <3>3. \A i \in 1 .. n + 1 : i = n + 1 \/ i \in 1 .. n
      OBVIOUS
    <3>. HIDE DEF after
    <3>4. ASSUME NEW i \in 1 .. n + 1 PROVE after[i] \in Seq(EntriesSomewhere)
      <4>1. CASE i = n + 1
        BY <3>1, <4>1
      <4>2. CASE i \in 1 .. n
        BY <2>4, <3>2, <4>2, Zenon
      <4>. QED
        BY <3>3, <4>1, <4>2
    <3>. QED
      BY <3>4
  <2>7. after \in Seq(Seq(EntriesSomewhere)) /\ Len(after) = n + 1
    <3>. DEFINE of(i) == SeenOf(blocks[i], IF i = n + 1 THEN k + 1 ELSE EntriesRead(i))
    <3>1. \A i \in 1 .. n + 1 : after[i] = of(i)
      OBVIOUS
    <3>2. after = [i \in 1 .. n + 1 |-> of(i)]
      OBVIOUS
    <3>. HIDE DEF after, of
    <3>3. \A i \in 1 .. n + 1 : of(i) \in Seq(EntriesSomewhere)
      BY <2>6, <3>1
    <3>4. n + 1 \in Nat
      OBVIOUS
    <3>. QED
      BY <3>2, <3>3, <3>4, IsASeq
  <2>. HIDE DEF after
  <2>. QED
    BY <2>3, <2>4, <2>5, <2>7
<1>16. PICK front \in Seq(Seq(EntriesSomewhere)) :
         /\ old = Append(front, SeenOf(b, k))
         /\ new = Append(front, SeenOf(b, k + 1))
  <2>1. Len(old) = n + 1 /\ old[n + 1] = SeenOf(b, k)
    BY <1>13, <1>14
  <2>0. \A i \in 1 .. n : old[i] = new[i]
    BY <1>15
  <2>2. \E front \in Seq(Seq(EntriesSomewhere)) :
          old = Append(front, old[n + 1]) /\ new = Append(front, new[n + 1])
    <3>1. PICK S : S = Seq(EntriesSomewhere)
      OBVIOUS
    <3>2. old \in Seq(S) /\ new \in Seq(S)
      BY <3>1
    <3>3. SameFront(old, new, n)
      BY <1>15, <2>0, <2>1 DEF SameFront
    <3>4. \E front \in Seq(S) : old = Append(front, old[n + 1]) /\ new = Append(front, new[n + 1])
      BY SMTT(30), <1>3, <3>2, <3>3, DifferInLast
    <3>. QED
      BY <3>1, <3>4
  <2>. QED
    BY <1>15, <2>1, <2>2
<1>17. FlattenSeq(new) = read'
  <2>1. PICK s \in Seq(EntriesSomewhere) : s = SeenOf(b, k)
    BY <1>12, SeenIsSequence
  <2>2. PICK e \in EntriesSomewhere : e = EntryAt(offset)
    BY <1>2 DEF EntriesSomewhere
  <2>3. PICK f \in Seq(EntriesSomewhere) : f = FlattenSeq(front)
    BY FlattenType
  <2>4. FlattenSeq(old) = f \o s
    BY <1>16, <2>1, <2>3, FlattenAppend
  <2>5. FlattenSeq(new) = f \o Append(s, e)
    <3>1. new = Append(front, Append(s, e)) /\ Append(s, e) \in Seq(EntriesSomewhere)
      BY <1>11, <1>16, <2>1, <2>2
    <3>. QED
      BY <2>3, <3>1, FlattenAppend
  <2>6. f \o Append(s, e) = Append(f \o s, e)
    OBVIOUS
  <2>7. read = f \o s
    BY <1>14, <2>4 DEF RoundInvariant
  <2>. QED
    BY <1>1, <2>2, <2>5, <2>6, <2>7
<1>18. FlattenSeq(Seen)' = read'
  <2>1. FlattenSeq(Seen)' = FlattenSeq(Seen')
    BY DEF FlattenSeq
  <2>. QED
    BY <1>15, <1>17, <2>1
<1>19. (\A i \in 1 .. Len(blocks) : CouldRead(blocks[i], EntriesRead(i)))'
  <2>1. ASSUME NEW i \in 1 .. n + 1 PROVE CouldRead(blocks'[i], EntriesRead(i)')
    <3>1. CASE i = n + 1
      BY <1>1, <1>4, <1>9, <1>10, <3>1
    <3>2. CASE i # n + 1
      <4>1. i \in 1 .. n
        BY <3>2
      <4>2. CouldRead(blocks[i], EntriesRead(i))
        BY <1>3, <4>1 DEF RoundInvariant
      <4>. QED
        BY <1>1, <1>9, <4>1, <4>2
    <3>. QED
      BY <3>1, <3>2
  <2>. QED
    BY <1>1, <1>3, <2>1, SameMessage, Zenon
<1>20. (blocks # <<>> => LET c == blocks[Len(blocks)]
                         IN  /\ left <= c.entry_count
                             /\ offset = EntryStart(c)[c.entry_count - left])'
  <2>1. blocks'[Len(blocks')] = b
    BY <1>1, <1>3, <1>4
  <2>2. EntryStart(b)' = EntryStart(b)
    BY <1>1, SameMessage
  <2>. QED
    BY <1>7, <1>8, <2>1, <2>2
<1>. QED
  BY <1>1, <1>2, <1>7, <1>8, <1>18, <1>19, <1>20 DEF RoundInvariant

\* A step that reads nothing and does not accept, or accepts what is read in
\* full, leaves the round as it was.
LEMMA StillRound ==
  ASSUME RoundInvariant, UNCHANGED <<offset, read, msg, blocks, left>>,
         verdict' = "accepted" => left = 0 \/ verdict = "accepted"
  PROVE  RoundInvariant'
<1>1. /\ blocks' = blocks /\ left' = left /\ offset' = offset /\ read' = read /\ msg' = msg
      /\ verdict' = "accepted" => left' = 0
  BY DEF RoundInvariant
<1>2. \A i : EntriesRead(i)' = EntriesRead(i)
  BY <1>1 DEF EntriesRead
<1>3. Seen' = Seen
  BY <1>1, <1>2, SameMessage DEF Seen
<1>4. FlattenSeq(Seen)' = FlattenSeq(Seen)
  BY <1>3 DEF FlattenSeq
<1>5. (\A i \in 1 .. Len(blocks) : CouldRead(blocks[i], EntriesRead(i)))'
  <2>1. \A i \in 1 .. Len(blocks) : CouldRead(blocks[i], EntriesRead(i))
    BY DEF RoundInvariant
  <2>. QED
    BY <1>1, <1>2, <2>1, SameMessage, Zenon
<1>6. (blocks # <<>> => LET c == blocks[Len(blocks)]
                        IN  /\ left <= c.entry_count
                            /\ offset = EntryStart(c)[c.entry_count - left])'
  <2>1. \A b : EntryStart(b)' = EntryStart(b)
    BY <1>1, SameMessage
  <2>. QED
    BY <1>1, <2>1 DEF RoundInvariant
<1>. QED
  BY <1>1, <1>4, <1>5, <1>6 DEF RoundInvariant

\* Accepting a commitment checks what the invariant says.
LEMMA AcceptCommitmentStep ==
  ASSUME CanAcceptCommitment, read' = <<Commitment>>, msg' = msg, count' = count
  PROVE  CommitmentInvariant'
<1>1. /\ \A at : CanRead(at)' <=> CanRead(at)
      /\ \A at : Value(at)' = Value(at) /\ End(at)' = End(at)
  BY SameMessage
<1>2. PayeeAt' = PayeeAt /\ TokenAt' = TokenAt
  BY DEF PayeeAt, TokenAt, End, Ends
<1>3. Commitment' = Commitment
  <2>1. Value(0)' = Value(0)
    BY <1>1
  <2>2. Value(PayeeAt)' = Value(PayeeAt) /\ Value(TokenAt)' = Value(TokenAt)
    BY DEF Value, MapThenSumSet, MapThenFoldSet, Chunk, PayeeAt, TokenAt, End, Ends
  <2>3. msg[TokenAt]' = msg[TokenAt] /\ msg[Len(msg)]' = msg[Len(msg)]
    BY <1>2
  <2>. QED
    BY <2>1, <2>2, <2>3 DEF Commitment
<1>4. /\ CanReadId(0)' <=> CanReadId(0)
      /\ CanReadId(PayeeAt)' <=> CanReadId(PayeeAt)
      /\ CanRead(TokenAt)' <=> CanRead(TokenAt)
      /\ End(TokenAt)' = End(TokenAt)
  BY DEF CanReadId, CanRead, Value, MapThenSumSet, MapThenFoldSet, Chunk, PayeeAt, TokenAt, End, Ends
<1>5. /\ CanReadId(0) /\ CanReadId(PayeeAt) /\ TokenAt <= Len(msg) /\ CanRead(TokenAt)
      /\ Len(msg) = End(TokenAt) + count
  BY DEF CanAcceptCommitment
<1>6. Len(msg)' = Len(msg) /\ <<Commitment>>' = <<Commitment>>
  BY <1>3
<1>. QED
  BY <1>2, <1>4, <1>5, <1>6 DEF CommitmentInvariant

\* Every step of the reader keeps its invariant.
LEMMA ReaderStep ==
  ASSUME ReaderInvariant, Next
  PROVE  ReaderInvariant'
<1>0. msg \in Seq(Bytes) /\ msg' = msg /\ kind' = kind /\ kind \in {"round", "commitment"}
  BY DEF ReaderInvariant, Next, ReadBlock, ReadEntry, Accept, Reject
<1>1. CASE ReadBlock
  <2>1. kind = "round"
    BY <1>1 DEF ReadBlock, CanReadBlock, Reading
  <2>. QED
    BY <1>0, <1>1, <2>1, BlockStep DEF ReaderInvariant
<1>2. CASE ReadEntry
  <2>1. kind = "round"
    BY <1>2 DEF ReadEntry, CanReadEntry, Reading
  <2>. QED
    BY <1>0, <1>2, <2>1, EntryStep DEF ReaderInvariant
<1>3. CASE Accept
  <2>1. CASE CanAcceptRound /\ UNCHANGED <<offset, read>>
    <3>1. kind = "round" /\ UNCHANGED <<offset, read, msg, blocks, left>>
      BY <1>3, <2>1 DEF Accept, CanAcceptRound, Reading
    <3>. QED
      BY <1>0, <2>1, <3>1, StillRound DEF ReaderInvariant, CanAcceptRound
  <2>2. CASE CanAcceptCommitment /\ offset' = Len(msg) /\ read' = <<Commitment>>
    <3>1. kind = "commitment" /\ count' = count
      BY <1>3, <2>2 DEF Accept, CanAcceptCommitment, Reading
    <3>. QED
      BY <1>0, <2>2, <3>1, AcceptCommitmentStep DEF ReaderInvariant
  <2>. QED
    BY <1>3, <2>1, <2>2 DEF Accept
<1>4. CASE Reject
  <2>1. verdict' = "rejected" /\ UNCHANGED <<kind, count, msg, offset, blocks, left, read>>
    BY <1>4 DEF Reject
  <2>2. CASE kind = "commitment"
    BY <1>0, <2>1, <2>2 DEF ReaderInvariant, CommitmentInvariant
  <2>3. CASE kind = "round"
    BY <1>0, <2>1, <2>3, StillRound DEF ReaderInvariant
  <2>. QED
    BY <1>0, <2>2, <2>3
<1>. QED
  BY <1>1, <1>2, <1>3, <1>4 DEF Next

\* Of an accepted round both readings saw the same entries.
LEMMA AcceptedInFull ==
  ASSUME RoundInvariant, verdict = "accepted"
  PROVE  /\ \A i \in DOMAIN blocks :
              /\ blocks[i].entry_count \in Nat
              /\ CouldRead(blocks[i], blocks[i].entry_count)
         /\ FlattenSeq([i \in DOMAIN blocks |-> EntriesOf(blocks[i])]) = read
<1>1. left = 0 /\ blocks \in Seq(Blocks) /\ DOMAIN blocks = 1 .. Len(blocks)
  BY DEF RoundInvariant
<1>2. ASSUME NEW i \in DOMAIN blocks
      PROVE  blocks[i].entry_count \in Nat /\ EntriesRead(i) = blocks[i].entry_count
  <2>1. blocks[i] \in Blocks
    BY <1>1
  <2>2. blocks[i].entry_count \in Nat
    BY <2>1 DEF Blocks
  <2>3. blocks[i].entry_count - 0 = blocks[i].entry_count
    BY <2>2
  <2>. QED
    BY <1>1, <2>2, <2>3 DEF EntriesRead
<1>3. \A i \in DOMAIN blocks : CouldRead(blocks[i], blocks[i].entry_count)
  BY <1>1, <1>2 DEF RoundInvariant
<1>4. Seen = [i \in DOMAIN blocks |-> EntriesOf(blocks[i])]
  BY <1>1, <1>2 DEF Seen, SeenOf, EntriesOf
<1>. QED
  BY <1>2, <1>3, <1>4 DEF RoundInvariant

\* The readings agree and no integer is truncated (ReadingsAgree, NoBitsAreLost).
LEMMA ReaderConclusion ==
  ASSUME ReaderInvariant
  PROVE  ReadingsAgree /\ NoBitsAreLost
<1>0. msg \in Seq(Bytes) /\ kind \in {"round", "commitment"}
  BY DEF ReaderInvariant
<1>1. ReadingsAgree
  BY AcceptedInFull DEF ReadingsAgree, ReaderInvariant
<1>2. ASSUME verdict = "accepted", kind = "round", NEW i \in DOMAIN blocks,
             NEW j \in 1 .. blocks[i].entry_count
      PROVE  EntriesOf(blocks[i])[j].target = Exact(EntryStart(blocks[i])[j - 1] + 1)
  <2>1. CouldRead(blocks[i], blocks[i].entry_count)
    BY <1>2, AcceptedInFull DEF ReaderInvariant
  <2>2. PICK at : at = EntryStart(blocks[i])[j - 1]
    OBVIOUS
  <2>3. at \in Nat /\ CanRead(at + 1)
    BY <2>1, <2>2 DEF CouldRead
  <2>4. Value(at + 1) = Exact(at + 1)
    BY <1>0, <2>3, NothingIsLost
  <2>5. EntriesOf(blocks[i])[j] = EntryAt(at)
    BY <2>2 DEF EntriesOf
  <2>. QED
    BY <2>2, <2>4, <2>5 DEF EntryAt
<1>3. ASSUME verdict = "accepted", kind = "commitment"
      PROVE  read[1].amount = Exact(TokenAt)
  <2>1. CanRead(0) /\ CanRead(PayeeAt) /\ CanRead(TokenAt) /\ read = <<Commitment>>
    BY <1>3 DEF ReaderInvariant, CommitmentInvariant, CanReadId
  <2>2. PayeeAt \in Nat
    BY <1>0, <2>1, EndIsFirst DEF PayeeAt, CanRead
  <2>3. TokenAt \in Nat
    <3>1. End(PayeeAt) \in Nat
      BY <1>0, <2>1, <2>2, EndIsFirst DEF CanRead
    <3>. QED
      BY <3>1 DEF TokenAt
  <2>4. Value(TokenAt) = Exact(TokenAt)
    BY <1>0, <2>1, <2>3, NothingIsLost
  <2>. QED
    BY <2>1, <2>4 DEF Commitment
<1>. QED
  BY <1>0, <1>1, <1>2, <1>3, Zenon DEF NoBitsAreLost

-----------------------------------------------------------------------------
(***************************************************************************)
(* Writing one integer.                                                    *)
(***************************************************************************)
\* Division with a remainder, and that there is only one.
LEMMA Division ==
  ASSUME NEW a \in Nat, NEW b \in Nat, b >= 1
  PROVE  /\ a \div b \in Nat /\ a % b \in 0 .. b - 1
         /\ a = b * (a \div b) + (a % b)
OBVIOUS

\* The quotient is the only one with a remainder that small.
LEMMA DivisionUnique ==
  ASSUME NEW b \in Nat, b >= 1, NEW q \in Nat, NEW r \in 0 .. b - 1
  PROVE  (b * q + r) \div b = q
<1>. DEFINE a == b * q + r
<1>1. a \in Nat
  OBVIOUS
<1>. PICK p \in Nat, s \in 0 .. b - 1 : p = a \div b /\ s = a % b /\ a = b * p + s
  BY <1>1, Division
<1>2. b * q + r = b * p + s
  OBVIOUS
<1>3. CASE p < q
  <2>1. p + 1 <= q
    BY <1>3
  <2>2. b * (p + 1) <= b * q
    BY <2>1
  <2>3. b * (p + 1) = b * p + b
    OBVIOUS
  <2>. QED
    BY <1>2, <2>2, <2>3
<1>4. CASE q < p
  <2>1. q + 1 <= p
    BY <1>4
  <2>2. b * (q + 1) <= b * p
    BY <2>1
  <2>3. b * (q + 1) = b * q + b
    OBVIOUS
  <2>. QED
    BY <1>2, <2>2, <2>3
<1>. QED
  BY <1>3, <1>4

\* Integers that fit into a word have a length.
LEMMA LengthIs ==
  ASSUME NEW n \in Nat, n < Wrap
  PROVE  /\ Length(n) \in 1 .. Groups /\ n < Power[Length(n)]
         /\ Length(n) = 1 \/ n >= Power[Length(n) - 1]
<1>. DEFINE Long == {d \in 1 .. Groups : n < Power[d]}
<1>1. Groups \in Long
  <2>. DEFINE top == Power[Groups - 1]
              all == Power[Groups]
  <2>1. top \in Nat /\ all = Base * top /\ Groups \in 1 .. Groups
    <3>1. Groups \in 1 .. Groups /\ Groups - 1 \in 0 .. Groups
      BY Powers
    <3>. QED
      BY <3>1, Powers
  <2>2. n < (LastChunk + 1) * top
    BY DEF Wrap
  <2>. HIDE DEF top, all
  <2>3. (LastChunk + 1) * top <= Base * top /\ (LastChunk + 1) * top \in Nat /\ Base * top \in Nat
    BY <2>1, Powers
  <2>4. n < all
    BY <2>1, <2>2, <2>3
  <2>. QED
    BY <2>1, <2>4 DEF all
<1>2. PICK d \in Long : \A e \in Long : d <= e
  <2>1. Long \subseteq Nat
    BY Powers
  <2>. HIDE DEF Long
  <2>. QED
    BY <1>1, <2>1, Least
<1>3. d = 1 \/ n >= Power[d - 1]
  <2>1. CASE d # 1
    <3>1. d - 1 \in 1 .. Groups /\ d - 1 \in 0 .. Groups /\ d - 1 < d
      BY <2>1, Powers
    <3>2. ~(n < Power[d - 1])
      BY <1>2, <3>1
    <3>3. Power[d - 1] \in Nat
      BY <3>1, Powers
    <3>. QED
      BY <3>2, <3>3
  <2>. QED
    BY <2>1
<1>4. \E e \in 1 .. Groups : n < Power[e] /\ (e = 1 \/ n >= Power[e - 1])
  BY <1>3
<1>. QED
  BY <1>4 DEF Length

\* The i-th digit to the base.
Digit(n, i) == (n \div Power[i - 1]) % Base

\* Digits are smaller than the base.
LEMMA DigitType ==
  ASSUME NEW n \in Nat, NEW i \in 1 .. Groups
  PROVE  Digit(n, i) \in 0 .. Base - 1
<1>1. i - 1 \in 0 .. Groups
  BY Powers
<1>. PICK p \in Nat : p = Power[i - 1] /\ p >= 1
  BY <1>1, Powers
<1>2. n \div p \in Nat
  BY Division
<1>3. (n \div p) % Base \in 0 .. Base - 1
  <2>. PICK q \in Nat : q = n \div p
    BY <1>2
  <2>. PICK c \in Nat : c = Base /\ c >= 1
    BY Powers
  <2>1. q % c \in 0 .. c - 1
    BY Division
  <2>. QED
    BY <2>1
<1>. QED
  BY <1>3 DEF Digit

\* The bytes of an integer: its digits, all but the last marked.
LEMMA EncodeIs ==
  ASSUME NEW n \in Nat, n < Wrap
  PROVE  /\ Encode(n) \in Seq(Bytes) /\ Len(Encode(n)) = Length(n)
         /\ \A i \in 1 .. Length(n) :
              /\ Encode(n)[i] % Base = Digit(n, i)
              /\ i < Length(n) <=> Encode(n)[i] >= Base
         /\ Length(n) = Groups => Encode(n)[Length(n)] <= LastChunk
<1>. PICK k \in 1 .. Groups : k = Length(n)
  BY LengthIs
<1>. DEFINE byte(i) == Digit(n, i) + (IF i < k THEN Base ELSE 0)
<1>1. Encode(n) = [i \in 1 .. k |-> byte(i)] /\ k \in Nat
  BY Powers DEF Encode, Digit
<1>2. ASSUME NEW i \in 1 .. k
      PROVE  /\ byte(i) \in Bytes /\ byte(i) % Base = Digit(n, i)
             /\ i < k <=> byte(i) >= Base
             /\ i = k => byte(i) = Digit(n, i)
  <2>1. PICK d \in 0 .. Base - 1 : d = Digit(n, i)
    BY DigitType, Powers
  <2>2. d \in Nat /\ d < Base /\ Base \in Nat /\ Base >= 2 /\ i \in Nat
    BY Powers
  <2>3. CASE i < k
    <3>1. byte(i) = d + Base
      BY <2>1, <2>3
    <3>2. (d + Base) % Base = d /\ d + Base \in 0 .. 2 * Base - 1
      BY <2>2
    <3>. QED
      BY <2>1, <2>2, <2>3, <3>1, <3>2 DEF Bytes
  <2>4. CASE ~(i < k)
    <3>1. byte(i) = d
      BY <2>1, <2>2, <2>4
    <3>2. d % Base = d /\ d \in 0 .. 2 * Base - 1
      BY <2>2
    <3>. QED
      BY <2>1, <2>2, <2>4, <3>1, <3>2 DEF Bytes
  <2>. QED
    BY <2>3, <2>4
<1>3. \A i \in 1 .. k : Encode(n)[i] = byte(i)
  BY <1>1
<1>4. Encode(n) \in Seq(Bytes) /\ Len(Encode(n)) = k
  <2>1. \A i \in 1 .. k : byte(i) \in Bytes
    BY <1>2
  <2>. HIDE DEF byte
  <2>. QED
    BY <1>1, <2>1, IsASeq
<1>5. ASSUME k = Groups PROVE Encode(n)[k] <= LastChunk
  <2>. PICK top \in Nat : top = Power[Groups - 1] /\ top >= 1
    <3>1. Groups - 1 \in 0 .. Groups
      BY Powers
    <3>. QED
      BY <3>1, Powers
  <2>1. n < (LastChunk + 1) * top
    BY DEF Wrap
  <2>. PICK q \in Nat : q = n \div top
    BY Division
  <2>2. q <= LastChunk
    <3>1. top * q <= n
      <4>1. n = top * (n \div top) + (n % top) /\ n % top \in 0 .. top - 1
        BY Division
      <4>2. n = top * q + (n % top)
        BY <4>1
      <4>3. top * q \in Nat
        OBVIOUS
      <4>. QED
        BY <4>1, <4>2, <4>3
    <3>2. CASE q >= LastChunk + 1
      <4>. PICK l \in Nat : l = LastChunk + 1
        BY Powers
      <4>1. l <= q
        BY <3>2
      <4>2. top * l <= top * q /\ top * l = l * top /\ top * l \in Nat /\ top * q \in Nat
        BY <4>1
      <4>3. n < l * top
        BY <2>1
      <4>. QED
        BY <3>1, <4>2, <4>3
    <3>. QED
      BY <3>2, Powers
  <2>3. q % Base = q
    <3>1. q < Base /\ Base \in Nat
      BY <2>2, Powers
    <3>. QED
      BY <3>1
  <2>4. Digit(n, k) = q
    BY <1>5, <2>3 DEF Digit
  <2>5. k \in 1 .. k
    BY Powers
  <2>. HIDE DEF byte
  <2>. QED
    BY <1>2, <1>3, <2>2, <2>4, <2>5
<1>. HIDE DEF byte
<1>6. ASSUME NEW i \in 1 .. k
      PROVE  Encode(n)[i] % Base = Digit(n, i) /\ (i < k <=> Encode(n)[i] >= Base)
  BY <1>2, <1>3
<1>. QED
  BY <1>4, <1>5, <1>6

\* Digits and what they stand for.
Digits(n) == [i \in 1 .. Groups |-> Digit(n, i) * Power[i - 1]]

\* Another digit takes the quotient apart.
LEMMA AnotherDigit ==
  ASSUME NEW n \in Nat, NEW p \in Nat, p >= 1
  PROVE  /\ n \div (Base * p) = (n \div p) \div Base
         /\ n = (Base * p) * (n \div (Base * p)) + (p * ((n \div p) % Base) + (n % p))
<1>1. Base \in Nat /\ Base >= 2
  BY Powers
<1>. PICK q \in Nat, r \in 0 .. p - 1 : q = n \div p /\ r = n % p /\ n = p * q + r
  <2>1. n \div p \in Nat /\ n % p \in 0 .. p - 1 /\ n = p * (n \div p) + (n % p)
    BY Division
  <2>. QED
    BY <2>1, Zenon
<1>. PICK s \in Nat, d \in 0 .. Base - 1 : s = q \div Base /\ d = q % Base /\ q = Base * s + d
  <2>1. /\ q \div Base \in Nat /\ q % Base \in 0 .. Base - 1
        /\ q = Base * (q \div Base) + (q % Base)
    <3>. PICK c \in Nat : c = Base /\ c >= 1
      BY <1>1
    <3>1. q \div c \in Nat /\ q % c \in 0 .. c - 1 /\ q = c * (q \div c) + (q % c)
      BY Division
    <3>. QED
      BY <3>1
  <2>. QED
    BY <2>1, Zenon
<1>. PICK b \in Nat : b = Base * p /\ b >= 1
  BY <1>1
<1>2. p * d + r \in 0 .. b - 1
  <2>1. p * d \in Nat /\ r \in Nat /\ r <= p - 1 /\ d \in Nat /\ d <= Base - 1
    BY <1>1
  <2>2. p * d <= p * (Base - 1)
    BY <1>1, <2>1
  <2>3. p * (Base - 1) = b - p
    BY <1>1
  <2>. QED
    BY <2>1, <2>2, <2>3
<1>3. n = b * s + (p * d + r)
  <2>1. p * q = p * (Base * s) + p * d
    <3>. PICK m \in Nat : m = Base * s
      BY <1>1
    <3>1. d \in Nat /\ q = m + d
      BY <1>1
    <3>2. p * (m + d) = p * m + p * d
      BY <3>1
    <3>. QED
      BY <3>1, <3>2
  <2>2. p * (Base * s) = b * s
    BY <1>1
  <2>3. p * d \in Nat /\ b * s \in Nat /\ r \in Nat
    BY <1>1
  <2>. QED
    BY <2>1, <2>2, <2>3
<1>4. n \div b = s
  <2>1. (b * s + (p * d + r)) \div b = s
    <3>. PICK t \in 0 .. b - 1 : t = p * d + r
      BY <1>2
    <3>1. (b * s + t) \div b = s
      BY DivisionUnique
    <3>. QED
      BY <3>1
  <2>. QED
    BY <1>3, <2>1
<1>. QED
  BY <1>3, <1>4

\* The last number of a range taken out.
LEMMA SumUpTo ==
  ASSUME NEW f, NEW k \in Nat, \A i \in 1 .. k + 1 : f[i] \in Int
  PROVE  SumFunctionOnSet(f, 1 .. k + 1) = f[k + 1] + SumFunctionOnSet(f, 1 .. k)
<1>1. \A S : IsFiniteSet(S) /\ (\A i \in S : f[i] \in Int) =>
        \A x \in S : SumFunctionOnSet(f, S) = f[x] + SumFunctionOnSet(f, S \ {x})
  BY SumWithout
<1>2. IsFiniteSet(1 .. k + 1)
  BY FS_Interval
<1>3. k + 1 \in 1 .. k + 1 /\ (1 .. k + 1) \ {k + 1} = 1 .. k
  OBVIOUS
<1>. QED
  BY <1>1, <1>2, <1>3

\* The first k digits are what a division by the k-th power leaves.
LEMMA DigitsSum ==
  ASSUME NEW n \in Nat
  PROVE  \A k \in Nat : k <= Groups =>
           n = Power[k] * (n \div Power[k]) + SumFunctionOnSet(Digits(n), 1 .. k)
<1>. DEFINE Sum(k) == SumFunctionOnSet(Digits(n), 1 .. k)
            Good(k) == n = Power[k] * (n \div Power[k]) + Sum(k)
            T == {k \in Nat : k <= Groups => Good(k)}
<1>0. \A i \in 1 .. Groups : Digits(n)[i] \in Int
  <2>1. ASSUME NEW i \in 1 .. Groups PROVE Digit(n, i) * Power[i - 1] \in Int
    <3>1. i - 1 \in 0 .. Groups
      BY Powers
    <3>2. Digit(n, i) \in Int /\ Power[i - 1] \in Int
      BY <3>1, DigitType, Powers
    <3>. QED
      BY <3>2
  <2>. QED
    BY <2>1 DEF Digits
<1>1. 0 \in T
  <2>1. 1 .. 0 = {}
    OBVIOUS
  <2>2. Sum(0) = 0
    BY <2>1, SumOfNone
  <2>3. n \div 1 = n /\ 1 * n = n
    OBVIOUS
  <2>. HIDE DEF Sum
  <2>. QED
    BY <2>2, <2>3, Powers
<1>2. ASSUME NEW k \in Nat, k \in T PROVE k + 1 \in T
  <2>1. SUFFICES ASSUME k + 1 <= Groups PROVE Good(k + 1)
    OBVIOUS
  <2>2. k + 1 \in 1 .. Groups /\ (k + 1) - 1 = k /\ k \in 0 .. Groups /\ k <= Groups
    BY <2>1, Powers
  <2>. PICK p \in Nat : p = Power[k] /\ p >= 1
    BY <2>2, Powers
  <2>3. Power[k + 1] = Base * p
    BY <2>2, Powers
  <2>4. Sum(k + 1) = Digits(n)[k + 1] + Sum(k)
    <3>1. \A i \in 1 .. k + 1 : Digits(n)[i] \in Int
      BY <1>0, <2>1, Powers
    <3>. QED
      BY <3>1, SumUpTo
  <2>5. Digits(n)[k + 1] = ((n \div p) % Base) * p
    <3>1. Digits(n)[k + 1] = Digit(n, k + 1) * Power[(k + 1) - 1]
      BY <2>2 DEF Digits
    <3>. QED
      BY <2>2, <3>1 DEF Digit
  <2>6. n = p * (n \div p) + Sum(k)
    BY <1>2, <2>2
  <2>. PICK sum \in Int : sum = Sum(k)
    <3>1. IsFiniteSet(1 .. k)
      BY FS_Interval
    <3>2. \A i \in 1 .. k : Digits(n)[i] \in Int
      BY <1>0, <2>1, Powers
    <3>. QED
      BY <3>1, <3>2, SumType
  <2>7. sum = n % p
    <3>1. n \div p \in Nat /\ n % p \in 0 .. p - 1 /\ n = p * (n \div p) + (n % p)
      BY Division
    <3>2. p * (n \div p) \in Int /\ n % p \in Int
      BY <3>1
    <3>3. n = p * (n \div p) + sum
      BY <2>6
    <3>. PICK t \in Int, r \in Int : t = p * (n \div p) /\ r = n % p
      BY <3>2
    <3>4. n = t + r /\ n = t + sum
      BY <3>1, <3>3
    <3>5. r = sum
      BY <3>4
    <3>. QED
      BY <3>5
  <2>8. n = (Base * p) * (n \div (Base * p)) + (p * ((n \div p) % Base) + sum)
    BY <2>7, AnotherDigit
  <2>9. p * ((n \div p) % Base) = ((n \div p) % Base) * p
    <3>1. n \div p \in Nat
      BY Division
    <3>2. (n \div p) % Base \in Int
      BY <3>1, Powers
    <3>. QED
      BY <3>2
  <2>. HIDE DEF Sum
  <2>10. Sum(k + 1) = p * ((n \div p) % Base) + sum
    BY <2>4, <2>5, <2>9
  <2>. QED
    BY <2>3, <2>8, <2>10
<1>3. \A k \in Nat : k \in T
  <2>. HIDE DEF T
  <2>. QED
    BY <1>1, <1>2, Induction
<1>. QED
  BY <1>3

\* As many digits as the length are the whole number.
LEMMA AllDigits ==
  ASSUME NEW n \in Nat, n < Wrap
  PROVE  SumFunctionOnSet(Digits(n), 1 .. Length(n)) = n
<1>. PICK k \in Nat : k = Length(n) /\ k <= Groups /\ n < Power[k] /\ k \in 1 .. Groups
  BY LengthIs, Powers
<1>. PICK p \in Nat : p = Power[k] /\ p >= 1
  <2>1. k \in 0 .. Groups
    BY Powers
  <2>. QED
    BY <2>1, Powers
<1>1. n \div p = 0
  <2>1. 0 \in Nat /\ n \in 0 .. p - 1
    OBVIOUS
  <2>2. (p * 0 + n) \div p = 0
    BY <2>1, DivisionUnique
  <2>. QED
    BY <2>2
<1>2. n = p * (n \div p) + SumFunctionOnSet(Digits(n), 1 .. k)
  BY DigitsSum
<1>3. SumFunctionOnSet(Digits(n), 1 .. k) \in Int
  <2>1. \A i \in 1 .. k : Digits(n)[i] \in Int
    <3>1. ASSUME NEW i \in 1 .. k PROVE Digits(n)[i] \in Int
      <4>1. i \in 1 .. Groups /\ i - 1 \in 0 .. Groups
        BY Powers
      <4>2. Digit(n, i) \in Int /\ Power[i - 1] \in Int
        <5>1. Digit(n, i) \in 0 .. Base - 1
          BY <4>1, DigitType
        <5>2. Power[i - 1] \in Nat
          BY <4>1, Powers
        <5>. QED
          BY <5>1, <5>2
      <4>3. Digit(n, i) * Power[i - 1] \in Int
        BY <4>2
      <4>. QED
        BY <4>1, <4>3 DEF Digits
    <3>. QED
      BY <3>1
  <2>2. IsFiniteSet(1 .. k)
    BY FS_Interval
  <2>. QED
    BY <2>1, <2>2, SumType
<1>. PICK sum \in Int : sum = SumFunctionOnSet(Digits(n), 1 .. k)
  BY <1>3
<1>4. n = p * 0 + sum
  BY <1>1, <1>2
<1>. QED
  BY <1>4

-----------------------------------------------------------------------------
(***************************************************************************)
(* What is written at a place of the message.                              *)
(***************************************************************************)
Holds(at, s) ==
  at + Len(s) <= Len(msg) /\ \A i \in 1 .. Len(s) : msg[at + i] = s[i]

\* One part after the other.
LEMMA HoldsBoth ==
  ASSUME msg \in Seq(Bytes), NEW at \in Nat, NEW S, NEW s \in Seq(S), NEW t \in Seq(S),
         Holds(at, s \o t)
  PROVE  Holds(at, s) /\ Holds(at + Len(s), t) /\ at + Len(s) \in Nat
<1>. PICK a \in Nat, b \in Nat, m \in Nat : a = Len(s) /\ b = Len(t) /\ m = Len(msg)
  OBVIOUS
<1>1. /\ Len(s \o t) = a + b
      /\ \A i \in 1 .. a : (s \o t)[i] = s[i]
      /\ \A i \in 1 .. b : (s \o t)[a + i] = t[i]
  OBVIOUS
<1>2. at + (a + b) <= m /\ \A i \in 1 .. a + b : msg[at + i] = (s \o t)[i]
  BY <1>1 DEF Holds
<1>3. ASSUME NEW i \in 1 .. a PROVE msg[at + i] = s[i]
  <2>1. i \in 1 .. a + b
    OBVIOUS
  <2>. QED
    BY <1>1, <1>2, <2>1
<1>4. ASSUME NEW i \in 1 .. b PROVE msg[(at + a) + i] = t[i]
  <2>1. a + i \in 1 .. a + b /\ at + (a + i) = (at + a) + i
    OBVIOUS
  <2>. QED
    BY <1>1, <1>2, <2>1
<1>. QED
  BY <1>2, <1>3, <1>4 DEF Holds

\* read_varint_u64 reads what encodeCompactU64 writes.
LEMMA IntegerIsRead ==
  ASSUME msg \in Seq(Bytes), NEW at \in Nat, NEW n \in Nat, n < Wrap, Holds(at, Encode(n))
  PROVE  CanRead(at) /\ End(at) = at + Length(n) /\ Value(at) = n
<1>. PICK k \in Nat : k = Length(n) /\ k \in 1 .. Groups
  BY LengthIs, Powers
<1>1. /\ Len(Encode(n)) = k
      /\ at + k <= Len(msg) /\ \A i \in 1 .. k : msg[at + i] = Encode(n)[i]
  BY EncodeIs DEF Holds
<1>2. ASSUME NEW i \in 1 .. k
      PROVE  /\ msg[at + i] \in Nat /\ msg[at + i] % Base = Digit(n, i)
             /\ i < k <=> msg[at + i] >= Base
             /\ at + i \in 1 .. Len(msg)
  <2>1. at + i \in 1 .. Len(msg)
    BY <1>1
  <2>2. msg[at + i] \in Bytes
    BY <2>1
  <2>3. msg[at + i] \in Nat
    BY <2>2, Powers DEF Bytes
  <2>4. Encode(n)[i] % Base = Digit(n, i) /\ (i < k <=> Encode(n)[i] >= Base)
    BY EncodeIs
  <2>. QED
    BY <1>1, <2>1, <2>3, <2>4
<1>3. k \in 1 .. k /\ 1 \in 1 .. k
  BY Powers
<1>4. at + k \in Ends(at)
  <2>1. msg[at + k] \in Nat /\ ~(msg[at + k] >= Base)
    BY <1>2, <1>3
  <2>2. msg[at + k] < Base
    BY <2>1, Powers
  <2>3. at + k \in at + 1 .. Len(msg)
    BY <1>1, <1>3
  <2>. QED
    BY <2>2, <2>3 DEF Ends
<1>5. End(at) = at + k
  <2>. PICK e \in Nat : /\ e = End(at) /\ at < e /\ msg[e] \in Bytes /\ msg[e] < Base
                        /\ \A j \in at + 1 .. e - 1 : msg[j] \in Bytes /\ msg[j] >= Base
    BY <1>4, EndIsFirst
  <2>1. CASE e < at + k
    <3>1. e - at \in 1 .. k /\ e - at < k /\ at + (e - at) = e
      BY <2>1
    <3>2. msg[e] >= Base
      BY <1>2, <3>1
    <3>3. msg[e] \in Nat
      BY Powers DEF Bytes
    <3>. QED
      BY <3>2, <3>3, Powers
  <2>2. CASE at + k < e
    <3>1. at + k \in at + 1 .. e - 1
      BY <1>3, <2>2
    <3>2. msg[at + k] >= Base
      BY <3>1
    <3>3. ~(k < k)
      OBVIOUS
    <3>. QED
      BY <1>2, <1>3, <3>2, <3>3
  <2>. QED
    BY <2>1, <2>2
<1>6. CanRead(at)
  <2>1. End(at) - at = k /\ k <= Groups
    BY <1>5, Powers
  <2>2. k = Groups => msg[at + k] <= LastChunk
    BY <1>1, <1>3, EncodeIs
  <2>. QED
    BY <1>4, <1>5, <2>1, <2>2 DEF CanRead
<1>7. Value(at) = n
  <2>. DEFINE f == [i \in 1 .. k |-> Chunk(at, i)]
  <2>1. End(at) - at = k
    BY <1>5
  <2>2. Value(at) = SumFunctionOnSet(f, 1 .. k)
    <3>1. Exact(at) = SumFunctionOnSet([i \in 1 .. End(at) - at |-> Chunk(at, i)], 1 .. End(at) - at)
      BY ExactIsSum
    <3>2. Value(at) = Exact(at)
      BY <1>6, NothingIsLost
    <3>. QED
      BY <2>1, <3>1, <3>2
  <2>3. ASSUME NEW i \in 1 .. k PROVE f[i] = Digits(n)[i]
    <3>1. i \in 1 .. Groups
      BY Powers
    <3>2. Chunk(at, i) = Digit(n, i) * Power[i - 1]
      BY <1>2 DEF Chunk
    <3>. QED
      BY <3>1, <3>2 DEF Digits
  <2>4. IsFiniteSet(1 .. k)
    BY FS_Interval
  <2>. HIDE DEF f
  <2>5. SumFunctionOnSet(f, 1 .. k) = SumFunctionOnSet(Digits(n), 1 .. k)
    BY <2>3, <2>4, SumCongruence
  <2>. QED
    BY <2>2, <2>5, AllDigits
<1>. QED
  BY <1>5, <1>6, <1>7

\* A message is what it holds.
LEMMA HoldsAll ==
  ASSUME msg \in Seq(Bytes)
  PROVE  Holds(0, msg)
BY DEF Holds

\* What clients sign (createCommitmentMessage).
CommitmentRecords ==
  [payer : 0 .. MaxId, payee : 0 .. MaxId, token : Bytes, amount : 0 .. Wrap - 1,
   settler : Bytes \cup {NoSettler}]

\* Every field of a commitment has the width that the program reads.
LEMMA CommitmentFits ==
  ASSUME NEW c \in Commitments
  PROVE  /\ c \in CommitmentRecords
         /\ c.payer \in Nat /\ c.payer < Wrap /\ c.payer <= MaxId
         /\ c.payee \in Nat /\ c.payee < Wrap /\ c.payee <= MaxId
         /\ c.amount \in Nat /\ c.amount < Wrap
         /\ c.token \in Bytes
         /\ c.settler # NoSettler => c.settler \in Bytes
<1>1. c \in CommitmentRecords /\ MaxId < Wrap /\ MaxId \in Nat /\ Wrap \in Nat
  BY ClientAssumption, CodecAssumption, ChunksFit DEF CommitmentRecords
<1>. QED
  BY <1>1 DEF CommitmentRecords

\* The settler, if there is one.
SettlerPart(c) == IF c.settler = NoSettler THEN <<>> ELSE <<c.settler>>

\* A commitment is written as bytes.
LEMMA CommitmentType ==
  ASSUME NEW c \in Commitments
  PROVE  /\ Encode(c.payer) \in Seq(Bytes) /\ Encode(c.payee) \in Seq(Bytes)
         /\ <<c.token>> \in Seq(Bytes) /\ Encode(c.amount) \in Seq(Bytes)
         /\ SettlerPart(c) \in Seq(Bytes) /\ Len(SettlerPart(c)) = Flag(c)
         /\ EncodeCommitment(c) \in Seq(Bytes)
<1>1. /\ Encode(c.payer) \in Seq(Bytes) /\ Encode(c.payee) \in Seq(Bytes)
      /\ <<c.token>> \in Seq(Bytes) /\ Encode(c.amount) \in Seq(Bytes)
  BY CommitmentFits, EncodeIs
<1>2. SettlerPart(c) \in Seq(Bytes) /\ Len(SettlerPart(c)) = Flag(c)
  <2>1. CASE c.settler = NoSettler
    BY <2>1 DEF SettlerPart, Flag
  <2>2. CASE c.settler # NoSettler
    <3>. PICK s \in Bytes : s = c.settler
      BY <2>2, CommitmentFits
    <3>1. <<s>> \in Seq(Bytes) /\ Len(<<s>>) = 1
      OBVIOUS
    <3>. QED
      BY <2>2, <3>1 DEF SettlerPart, Flag
  <2>. QED
    BY <2>1, <2>2
<1>3. EncodeCommitment(c)
        = Encode(c.payer) \o Encode(c.payee) \o <<c.token>> \o Encode(c.amount) \o SettlerPart(c)
  BY DEF EncodeCommitment, SettlerPart
<1>. QED
  BY <1>1, <1>2, <1>3

\* What a client wrote as a commitment is read as it was meant.
LEMMA CommitmentIsRead ==
  ASSUME NEW c \in Commitments, msg = EncodeCommitment(c), count = Flag(c)
  PROVE  /\ CanReadId(0) /\ CanReadId(PayeeAt)
         /\ TokenAt <= Len(msg) /\ CanRead(TokenAt)
         /\ Len(msg) = End(TokenAt) + count
         /\ Commitment = c
<1>0. msg \in Seq(Bytes)
  BY CommitmentType
<1>. PICK p \in Seq(Bytes), q \in Seq(Bytes), t \in Seq(Bytes), a \in Seq(Bytes), x \in Seq(Bytes) :
       /\ p = Encode(c.payer) /\ q = Encode(c.payee) /\ t = <<c.token>>
       /\ a = Encode(c.amount) /\ x = SettlerPart(c)
  BY CommitmentType
<1>1. msg = p \o q \o t \o a \o x
  BY DEF EncodeCommitment, SettlerPart
<1>2. /\ Len(p) = Length(c.payer) /\ Len(q) = Length(c.payee) /\ Len(t) = 1
      /\ t[1] = c.token /\ Len(a) = Length(c.amount) /\ Len(x) = Flag(c)
  BY CommitmentFits, CommitmentType, EncodeIs
<1>. PICK pq \in Seq(Bytes) : pq = p \o q
  <2>1. p \o q \in Seq(Bytes)
    OBVIOUS
  <2>. QED
    BY <2>1, Zenon
<1>. PICK pqt \in Seq(Bytes) : pqt = pq \o t
  <2>1. pq \o t \in Seq(Bytes)
    OBVIOUS
  <2>. QED
    BY <2>1, Zenon
<1>. PICK pqta \in Seq(Bytes) : pqta = pqt \o a
  <2>1. pqt \o a \in Seq(Bytes)
    OBVIOUS
  <2>. QED
    BY <2>1, Zenon
<1>. PICK i \in Nat : i = Len(p)
  OBVIOUS
<1>. PICK j \in Nat : j = Len(pq) /\ j = i + Len(q)
  OBVIOUS
<1>. PICK k \in Nat : k = Len(pqt) /\ k = j + 1
  BY <1>2
<1>. PICK l \in Nat : l = Len(pqta) /\ l = k + Len(a)
  OBVIOUS
<1>4. msg = pqta \o x /\ Len(msg) = l + Len(x)
  BY <1>1
<1>5. /\ Holds(0, p) /\ Holds(i, q) /\ Holds(j, t) /\ Holds(k, a) /\ Holds(l, x)
  <2>0. ASSUME NEW u \in Seq(Bytes), NEW v \in Seq(Bytes), Holds(0, u \o v)
        PROVE  Holds(0, u) /\ Holds(Len(u), v)
    <3>1. Holds(0, u) /\ Holds(0 + Len(u), v)
      BY <1>0, <2>0, HoldsBoth
    <3>2. 0 + Len(u) = Len(u)
      OBVIOUS
    <3>. QED
      BY <3>1, <3>2
  <2>1. Holds(0, pqta) /\ Holds(l, x)
    <3>1. Holds(0, pqta \o x)
      BY <1>0, <1>4, HoldsAll
    <3>. QED
      BY <2>0, <3>1
  <2>2. Holds(0, pqt) /\ Holds(k, a)
    BY <2>0, <2>1
  <2>3. Holds(0, pq) /\ Holds(j, t)
    BY <2>0, <2>2
  <2>4. Holds(0, p) /\ Holds(i, q)
    BY <2>0, <2>3
  <2>. QED
    BY <2>1, <2>2, <2>3, <2>4
<1>6. CanRead(0) /\ End(0) = i /\ Value(0) = c.payer
  <2>1. CanRead(0) /\ End(0) = 0 + Length(c.payer) /\ Value(0) = c.payer
    BY <1>0, <1>5, CommitmentFits, IntegerIsRead
  <2>. QED
    BY <1>2, <2>1
<1>7. CanRead(i) /\ End(i) = j /\ Value(i) = c.payee
  <2>. PICK n \in Nat : n = c.payee /\ n < Wrap
    BY CommitmentFits
  <2>1. Holds(i, Encode(n)) /\ j = i + Length(n)
    BY <1>2, <1>5
  <2>. QED
    BY <1>0, <2>1, IntegerIsRead
<1>8. CanRead(k) /\ End(k) = l /\ Value(k) = c.amount
  <2>. PICK n \in Nat : n = c.amount /\ n < Wrap
    BY CommitmentFits
  <2>1. Holds(k, Encode(n)) /\ l = k + Length(n)
    BY <1>2, <1>5
  <2>. QED
    BY <1>0, <2>1, IntegerIsRead
<1>9. PayeeAt = i /\ TokenAt = k
  BY <1>6, <1>7 DEF PayeeAt, TokenAt
<1>10. msg[k] = c.token
  <2>1. Holds(j, t) /\ 1 \in 1 .. Len(t)
    BY <1>2, <1>5
  <2>2. msg[j + 1] = t[1]
    BY <2>1 DEF Holds
  <2>. QED
    BY <1>2, <2>2
<1>11. (IF count = 1 THEN msg[Len(msg)] ELSE NoSettler) = c.settler
  <2>1. CASE c.settler = NoSettler
    BY <2>1 DEF Flag
  <2>2. CASE c.settler # NoSettler
    <3>1. x = <<c.settler>> /\ Len(x) = 1 /\ count = 1
      BY <1>2, <2>2 DEF SettlerPart, Flag
    <3>2. msg[l + 1] = x[1] /\ x[1] = c.settler
      BY <1>5, <3>1 DEF Holds
    <3>3. Len(msg) = l + 1
      BY <1>4, <3>1
    <3>. QED
      BY <3>1, <3>2, <3>3
  <2>. QED
    BY <2>1, <2>2
<1>12. Commitment = c
  <2>1. c = [payer |-> c.payer, payee |-> c.payee, token |-> c.token, amount |-> c.amount,
             settler |-> c.settler]
    BY CommitmentFits DEF CommitmentRecords
  <2>2. Commitment = [payer |-> c.payer, payee |-> c.payee, token |-> c.token,
                      amount |-> c.amount, settler |-> c.settler]
    BY <1>6, <1>7, <1>8, <1>9, <1>10, <1>11 DEF Commitment
  <2>. QED
    BY <2>1, <2>2
<1>13. Len(msg) = End(TokenAt) + count
  BY <1>2, <1>4, <1>8, <1>9
<1>14. TokenAt <= Len(msg)
  BY <1>4, <1>9
<1>. QED
  BY <1>6, <1>7, <1>8, <1>9, <1>12, <1>13, <1>14, CommitmentFits DEF CanReadId

-----------------------------------------------------------------------------
(***************************************************************************)
(* What is written one after the other.                                    *)
(***************************************************************************)
\* The first k parts, and their length.
Leading(s, k) == [i \in 1 .. k |-> s[i]]
Before(s, k) == Len(FlattenSeq(Leading(s, k)))

\* The first k parts are k parts.
LEMMA LeadingType ==
  ASSUME NEW S, NEW s \in Seq(S), NEW k \in 0 .. Len(s)
  PROVE  Leading(s, k) \in Seq(S) /\ Len(Leading(s, k)) = k
<1>1. k \in Nat /\ \A i \in 1 .. k : s[i] \in S
  OBVIOUS
<1>. QED
  BY <1>1, IsASeq DEF Leading

\* All parts are the sequence.
LEMMA LeadingAll ==
  ASSUME NEW S, NEW s \in Seq(S)
  PROVE  Leading(s, Len(s)) = s
BY DEF Leading

\* One more part is appended.
LEMMA LeadingOneMore ==
  ASSUME NEW S, NEW s \in Seq(S), NEW k \in 0 .. Len(s) - 1
  PROVE  Leading(s, k + 1) = Append(Leading(s, k), s[k + 1])
<1>1. k \in 0 .. Len(s) /\ k \in Nat
  OBVIOUS
<1>. PICK l \in Seq(S) : l = Leading(s, k) /\ Len(l) = k
  BY <1>1, LeadingType
<1>. PICK x \in S : x = s[k + 1]
  OBVIOUS
<1>2. Append(l, x) = [i \in 1 .. k + 1 |-> IF i = k + 1 THEN x ELSE l[i]]
  BY AppendIs
<1>3. ASSUME NEW i \in 1 .. k + 1 PROVE s[i] = IF i = k + 1 THEN x ELSE l[i]
  <2>1. i # k + 1 => i \in 1 .. k
    OBVIOUS
  <2>. QED
    BY <2>1 DEF Leading
<1>4. Leading(s, k + 1) = [i \in 1 .. k + 1 |-> IF i = k + 1 THEN x ELSE l[i]]
  BY <1>3, Zenon DEF Leading
<1>. QED
  BY <1>2, <1>4

\* Where the parts begin.
LEMMA BeforeIs ==
  ASSUME NEW s \in Seq(Seq(Bytes))
  PROVE  /\ \A k \in 0 .. Len(s) : Before(s, k) \in Nat
         /\ Before(s, 0) = 0 /\ Before(s, Len(s)) = Len(FlattenSeq(s))
         /\ \A k \in 0 .. Len(s) - 1 : Before(s, k + 1) = Before(s, k) + Len(s[k + 1])
<1>1. ASSUME NEW k \in 0 .. Len(s) PROVE Before(s, k) \in Nat
  <2>. PICK l \in Seq(Seq(Bytes)) : l = Leading(s, k)
    BY LeadingType
  <2>1. FlattenSeq(l) \in Seq(Bytes)
    BY FlattenType
  <2>. QED
    BY <2>1 DEF Before
<1>2. Before(s, 0) = 0
  <2>1. Leading(s, 0) \in Seq(Seq(Bytes)) /\ Len(Leading(s, 0)) = 0
    BY LeadingType
  <2>2. Leading(s, 0) = <<>>
    BY <2>1
  <2>. QED
    BY <2>2, FlattenEmpty DEF Before
<1>3. Before(s, Len(s)) = Len(FlattenSeq(s))
  BY LeadingAll DEF Before
<1>4. ASSUME NEW k \in 0 .. Len(s) - 1
      PROVE  Before(s, k + 1) = Before(s, k) + Len(s[k + 1])
  <2>1. k \in 0 .. Len(s)
    OBVIOUS
  <2>. PICK l \in Seq(Seq(Bytes)) : l = Leading(s, k)
    BY <2>1, LeadingType
  <2>. PICK x \in Seq(Bytes) : x = s[k + 1]
    OBVIOUS
  <2>2. Leading(s, k + 1) = Append(l, x)
    BY LeadingOneMore
  <2>3. FlattenSeq(Append(l, x)) = FlattenSeq(l) \o x
    BY FlattenAppend
  <2>4. FlattenSeq(l) \in Seq(Bytes)
    BY FlattenType
  <2>5. Len(FlattenSeq(l) \o x) = Len(FlattenSeq(l)) + Len(x)
    BY <2>4
  <2>. QED
    BY <2>2, <2>3, <2>5 DEF Before
<1>. QED
  BY <1>1, <1>2, <1>3, <1>4

\* Each part is there where it begins.
LEMMA HoldsParts ==
  ASSUME msg \in Seq(Bytes), NEW at \in Nat, NEW s \in Seq(Seq(Bytes)),
         Holds(at, FlattenSeq(s))
  PROVE  \A k \in 0 .. Len(s) - 1 : at + Before(s, k) \in Nat /\ Holds(at + Before(s, k), s[k + 1])
<1>. DEFINE There(k) == Holds(at, FlattenSeq(Leading(s, k)))
            T == {n \in Nat : n <= Len(s) => There(Len(s) - n)}
<1>1. ASSUME NEW k \in 0 .. Len(s) - 1, There(k + 1)
      PROVE  /\ There(k) /\ at + Before(s, k) \in Nat
             /\ Holds(at + Before(s, k), s[k + 1])
  <2>1. k \in 0 .. Len(s)
    OBVIOUS
  <2>. PICK l \in Seq(Seq(Bytes)) : l = Leading(s, k)
    BY <2>1, LeadingType
  <2>. PICK x \in Seq(Bytes) : x = s[k + 1]
    OBVIOUS
  <2>. PICK f \in Seq(Bytes) : f = FlattenSeq(l)
    BY FlattenType
  <2>2. FlattenSeq(Leading(s, k + 1)) = f \o x
    BY LeadingOneMore, FlattenAppend
  <2>3. Holds(at, f \o x)
    BY <1>1, <2>2
  <2>4. Holds(at, f) /\ Holds(at + Len(f), x) /\ at + Len(f) \in Nat
    BY <2>3, HoldsBoth
  <2>. QED
    BY <2>4 DEF Before
<1>2. 0 \in T
  <2>1. Len(s) - 0 = Len(s) /\ Leading(s, Len(s)) = s
    BY LeadingAll
  <2>. QED
    BY <2>1
<1>3. ASSUME NEW n \in Nat, n \in T PROVE n + 1 \in T
  <2>1. SUFFICES ASSUME n + 1 <= Len(s) PROVE There(Len(s) - (n + 1))
    OBVIOUS
  <2>. PICK k \in 0 .. Len(s) - 1 : k = Len(s) - (n + 1)
    <3>1. Len(s) - (n + 1) \in 0 .. Len(s) - 1
      BY <2>1
    <3>. QED
      BY <3>1, Zenon
  <2>2. There(k + 1)
    <3>1. k + 1 = Len(s) - n /\ n <= Len(s)
      BY <2>1
    <3>. QED
      BY <1>3, <3>1
  <2>. HIDE DEF There
  <2>. QED
    BY <1>1, <2>2
<1>4. \A n \in Nat : n \in T
  <2>. HIDE DEF T
  <2>. QED
    BY <1>2, <1>3, Induction
<1>5. ASSUME NEW k \in 0 .. Len(s) - 1 PROVE There(k + 1)
  <2>. PICK n \in Nat : n = Len(s) - (k + 1) /\ n <= Len(s) /\ Len(s) - n = k + 1
    <3>. DEFINE m == Len(s) - (k + 1)
    <3>1. m \in Nat /\ m <= Len(s) /\ Len(s) - m = k + 1
      OBVIOUS
    <3>. HIDE DEF m
    <3>2. \E n \in Nat : n = m /\ n <= Len(s) /\ Len(s) - n = k + 1
      BY <3>1
    <3>. QED
      BY <3>2 DEF m
  <2>1. n \in T
    BY <1>4
  <2>. HIDE DEF There
  <2>. QED
    BY <2>1
<1>. HIDE DEF There
<1>. QED
  BY <1>1, <1>5

-----------------------------------------------------------------------------
(***************************************************************************)
(* Reading what was written: entries and blocks.                           *)
(***************************************************************************)
\* An entry is written as bytes.
LEMMA EntryType ==
  ASSUME NEW e \in Entries
  PROVE  /\ e.payee \in Bytes /\ e.target \in Nat /\ e.target < Wrap
         /\ e = [payee |-> e.payee, target |-> e.target]
         /\ <<e.payee>> \in Seq(Bytes) /\ Encode(e.target) \in Seq(Bytes)
         /\ EncodeEntry(e) \in Seq(Bytes) /\ Len(EncodeEntry(e)) = 1 + Length(e.target)
<1>1. /\ e.payee \in Bytes /\ e.target \in Nat /\ e.target < Wrap
      /\ e = [payee |-> e.payee, target |-> e.target]
  BY ChunksFit DEF Entries
<1>2. Encode(e.target) \in Seq(Bytes) /\ Len(Encode(e.target)) = Length(e.target)
  BY <1>1, EncodeIs
<1>3. <<e.payee>> \in Seq(Bytes) /\ Len(<<e.payee>>) = 1
  BY <1>1
<1>. QED
  BY <1>1, <1>2, <1>3 DEF EncodeEntry

\* parse_channel_entry reads what createClearingRoundMessage writes.
LEMMA EntryIsRead ==
  ASSUME msg \in Seq(Bytes), NEW at \in Nat, NEW e \in Entries, Holds(at, EncodeEntry(e))
  PROVE  /\ at < Len(msg) /\ CanRead(at + 1)
         /\ End(at + 1) = at + Len(EncodeEntry(e))
         /\ EntryAt(at) = e
<1>. PICK n \in Nat : n = e.target /\ n < Wrap
  BY EntryType
<1>. PICK p \in Seq(Bytes), q \in Seq(Bytes) : p = <<e.payee>> /\ q = Encode(n)
  BY EntryType
<1>1. Len(p) = 1 /\ p[1] = e.payee /\ Holds(at, p \o q)
  BY DEF EncodeEntry
<1>2. Holds(at, p) /\ Holds(at + 1, q) /\ at + 1 \in Nat
  BY <1>1, HoldsBoth
<1>3. at + 1 <= Len(msg) /\ msg[at + 1] = e.payee
  BY <1>1, <1>2 DEF Holds
<1>4. CanRead(at + 1) /\ End(at + 1) = (at + 1) + Length(n) /\ Value(at + 1) = n
  BY <1>2, IntegerIsRead
<1>5. EntryAt(at) = e
  BY <1>3, <1>4, EntryType DEF EntryAt
<1>6. Length(n) \in Nat /\ Len(EncodeEntry(e)) = 1 + Length(n)
  BY LengthIs, EntryType, Powers
<1>7. (at + 1) + Length(n) = at + Len(EncodeEntry(e))
  BY <1>6
<1>8. at < Len(msg)
  BY <1>3
<1>. QED
  BY <1>4, <1>5, <1>7, <1>8

\* The entries of a block as they are written.
EntryParts(b) == [j \in DOMAIN b.entries |-> EncodeEntry(b.entries[j])]

\* A block has an id of 32 bits, and one part of bytes for each entry.
LEMMA EntryPartsType ==
  ASSUME NEW b \in EntryBlocks
  PROVE  /\ b.id \in Nat /\ b.id <= MaxId /\ b.id < Wrap
         /\ b.entries \in Seq(Entries)
         /\ EntryParts(b) \in Seq(Seq(Bytes)) /\ Len(EntryParts(b)) = Len(b.entries)
         /\ \A j \in 1 .. Len(b.entries) : EntryParts(b)[j] = EncodeEntry(b.entries[j])
<1>1. b.id \in Nat /\ b.id <= MaxId /\ b.id < Wrap
  BY ClientAssumption, CodecAssumption, ChunksFit DEF EntryBlocks
<1>2. b.entries \in Seq(Entries)
  BY DEF EntryBlocks
<1>. PICK s \in Seq(Entries) : s = b.entries
  BY <1>2
<1>3. DOMAIN s = 1 .. Len(s) /\ Len(s) \in Nat /\ \A j \in 1 .. Len(s) : s[j] \in Entries
  OBVIOUS
<1>4. \A j \in 1 .. Len(s) : EncodeEntry(s[j]) \in Seq(Bytes)
  BY <1>3, EntryType
<1>5. EntryParts(b) = [j \in 1 .. Len(s) |-> EncodeEntry(s[j])]
  BY <1>3 DEF EntryParts
<1>. QED
  BY <1>1, <1>2, <1>3, <1>4, <1>5, IsASeq

\* The second reading of a block sees what was written there.
LEMMA EntriesAreRead ==
  ASSUME msg \in Seq(Bytes), NEW at \in Nat, NEW b \in EntryBlocks,
         Holds(at, FlattenSeq(EntryParts(b))),
         NEW l, l.entry_count = Len(b.entries), l.entries_offset = at
  PROVE  /\ \A j \in 0 .. Len(b.entries) :
              EntryStart(l)[j] = at + Before(EntryParts(b), j)
         /\ \A j \in 0 .. Len(b.entries) - 1 :
              /\ EntryStart(l)[j] < Len(msg) /\ CanRead(EntryStart(l)[j] + 1)
              /\ EntryAt(EntryStart(l)[j]) = b.entries[j + 1]
<1>. PICK n \in Nat : n = Len(b.entries)
  BY EntryPartsType
<1>. PICK s \in Seq(Seq(Bytes)) : s = EntryParts(b) /\ Len(s) = n
  BY EntryPartsType
<1>1. /\ EntryStart(l)[0] = at
      /\ \A j \in 1 .. n : EntryStart(l)[j] = End(EntryStart(l)[j - 1] + 1)
  BY EntriesFollow
<1>2. ASSUME NEW j \in 0 .. n - 1
      PROVE  /\ at + Before(s, j) < Len(msg) /\ CanRead(at + Before(s, j) + 1)
             /\ End(at + Before(s, j) + 1) = at + Before(s, j + 1)
             /\ EntryAt(at + Before(s, j)) = b.entries[j + 1]
  <2>. PICK here \in Nat : here = at + Before(s, j) /\ Holds(here, s[j + 1])
    BY HoldsParts
  <2>. PICK e \in Entries : e = b.entries[j + 1]
    BY EntryPartsType
  <2>1. s[j + 1] = EncodeEntry(e)
    <3>1. j + 1 \in 1 .. n
      OBVIOUS
    <3>. QED
      BY <3>1, EntryPartsType
  <2>2. /\ here < Len(msg) /\ CanRead(here + 1)
        /\ End(here + 1) = here + Len(s[j + 1]) /\ EntryAt(here) = e
    BY <2>1, EntryIsRead
  <2>3. here + Len(s[j + 1]) = at + Before(s, j + 1)
    <3>1. j \in 0 .. Len(s) /\ s[j + 1] \in Seq(Bytes)
      OBVIOUS
    <3>2. Before(s, j) \in Nat /\ Before(s, j + 1) = Before(s, j) + Len(s[j + 1])
      BY <3>1, BeforeIs
    <3>. QED
      BY <3>1, <3>2
  <2>. QED
    BY <2>2, <2>3
<1>. DEFINE T == {j \in Nat : j <= n => EntryStart(l)[j] = at + Before(s, j)}
<1>3. 0 \in T
  BY <1>1, BeforeIs
<1>4. ASSUME NEW j \in Nat, j \in T PROVE j + 1 \in T
  <2>1. SUFFICES ASSUME j + 1 <= n PROVE EntryStart(l)[j + 1] = at + Before(s, j + 1)
    OBVIOUS
  <2>2. j \in 0 .. n - 1 /\ j + 1 \in 1 .. n /\ (j + 1) - 1 = j /\ j <= n
    BY <2>1
  <2>3. EntryStart(l)[j + 1] = End(EntryStart(l)[j] + 1)
    BY <1>1, <2>2
  <2>4. EntryStart(l)[j] = at + Before(s, j)
    BY <1>4, <2>2
  <2>. QED
    BY <1>2, <2>2, <2>3, <2>4
<1>5. \A j \in Nat : j \in T
  <2>. HIDE DEF T
  <2>. QED
    BY <1>3, <1>4, Induction
<1>6. \A j \in 0 .. n : EntryStart(l)[j] = at + Before(s, j)
  BY <1>5
<1>7. ASSUME NEW j \in 0 .. n - 1
      PROVE  /\ EntryStart(l)[j] < Len(msg) /\ CanRead(EntryStart(l)[j] + 1)
             /\ EntryAt(EntryStart(l)[j]) = b.entries[j + 1]
  <2>1. j \in 0 .. n
    OBVIOUS
  <2>2. EntryStart(l)[j] = at + Before(s, j)
    BY <1>6, <2>1
  <2>. QED
    BY <1>2, <2>2
<1>. QED
  BY <1>6, <1>7

\* A block is written as bytes: its id, the number of its entries, and these.
LEMMA BlockType ==
  ASSUME NEW b \in EntryBlocks, Len(b.entries) \in Bytes
  PROVE  /\ Encode(b.id) \in Seq(Bytes) /\ Len(Encode(b.id)) = Length(b.id)
         /\ Length(b.id) \in Nat
         /\ <<Len(b.entries)>> \in Seq(Bytes)
         /\ FlattenSeq(EntryParts(b)) \in Seq(Bytes)
         /\ EncodeBlock(b) = Encode(b.id) \o <<Len(b.entries)>> \o FlattenSeq(EntryParts(b))
         /\ EncodeBlock(b) \in Seq(Bytes)
         /\ Len(EncodeBlock(b)) = Length(b.id) + 1 + Len(FlattenSeq(EntryParts(b)))
<1>1. /\ Encode(b.id) \in Seq(Bytes) /\ Len(Encode(b.id)) = Length(b.id)
      /\ Length(b.id) \in Nat
  BY EntryPartsType, EncodeIs, LengthIs, Powers
<1>2. <<Len(b.entries)>> \in Seq(Bytes) /\ Len(<<Len(b.entries)>>) = 1
  OBVIOUS
<1>3. FlattenSeq(EntryParts(b)) \in Seq(Bytes)
  BY EntryPartsType, FlattenType
<1>4. EncodeBlock(b) = Encode(b.id) \o <<Len(b.entries)>> \o FlattenSeq(EntryParts(b))
  BY DEF EncodeBlock, EntryParts
<1>. PICK p \in Seq(Bytes), q \in Seq(Bytes), t \in Seq(Bytes) :
       p = Encode(b.id) /\ q = <<Len(b.entries)>> /\ t = FlattenSeq(EntryParts(b))
  BY <1>1, <1>2, <1>3
<1>5. p \o q \o t \in Seq(Bytes) /\ Len(p \o q \o t) = Len(p) + Len(q) + Len(t)
  OBVIOUS
<1>. QED
  BY <1>1, <1>2, <1>3, <1>4, <1>5

\* The first reading takes the head of a block, and its entries are next.
LEMMA BlockIsRead ==
  ASSUME msg \in Seq(Bytes), NEW at \in Nat, NEW b \in EntryBlocks, Len(b.entries) \in Bytes,
         Holds(at, EncodeBlock(b))
  PROVE  /\ CanReadId(at) /\ Value(at) = b.id /\ End(at) = at + Length(b.id)
         /\ End(at) < Len(msg) /\ msg[End(at) + 1] = Len(b.entries)
         /\ End(at) + 1 \in Nat
         /\ Holds(End(at) + 1, FlattenSeq(EntryParts(b)))
         /\ End(at) + 1 + Len(FlattenSeq(EntryParts(b))) = at + Len(EncodeBlock(b))
<1>. PICK n \in Nat : n = b.id /\ n < Wrap /\ n <= MaxId
  BY EntryPartsType
<1>. PICK p \in Seq(Bytes), q \in Seq(Bytes), t \in Seq(Bytes) :
       p = Encode(n) /\ q = <<Len(b.entries)>> /\ t = FlattenSeq(EntryParts(b))
  BY BlockType
<1>. PICK pq \in Seq(Bytes) : pq = p \o q
  <2>1. p \o q \in Seq(Bytes)
    OBVIOUS
  <2>. QED
    BY <2>1, Zenon
<1>. PICK k \in Nat : k = Length(n) /\ k = Len(p)
  BY BlockType
<1>1. Len(q) = 1 /\ q[1] = Len(b.entries) /\ Len(pq) = k + 1
  OBVIOUS
<1>2. Holds(at, pq) /\ Holds(at + (k + 1), t) /\ at + (k + 1) \in Nat
  <2>1. Holds(at, pq \o t)
    BY BlockType
  <2>2. Holds(at, pq) /\ Holds(at + Len(pq), t) /\ at + Len(pq) \in Nat
    BY <2>1, HoldsBoth
  <2>. QED
    BY <1>1, <2>2
<1>3. Holds(at, p) /\ Holds(at + k, q)
  BY <1>2, HoldsBoth
<1>4. CanRead(at) /\ End(at) = at + k /\ Value(at) = n
  BY <1>3, IntegerIsRead
<1>5. at + k + 1 <= Len(msg) /\ msg[at + k + 1] = Len(b.entries)
  BY <1>1, <1>3 DEF Holds
<1>6. End(at) + 1 = at + (k + 1) /\ End(at) < Len(msg) /\ msg[End(at) + 1] = Len(b.entries)
  BY <1>4, <1>5
<1>7. at + (k + 1) + Len(t) = at + Len(EncodeBlock(b))
  <2>1. Len(EncodeBlock(b)) = k + 1 + Len(t)
    BY BlockType
  <2>2. Len(t) \in Nat
    OBVIOUS
  <2>3. at + (k + 1) + Len(t) = at + (k + 1 + Len(t))
    BY <2>2
  <2>. QED
    BY <2>1, <2>3, Zenon
<1>. QED
  BY <1>2, <1>4, <1>6, <1>7 DEF CanReadId

-----------------------------------------------------------------------------
(***************************************************************************)
(* Reading what was written: rounds.                                       *)
(***************************************************************************)
BlockParts(r) == [i \in DOMAIN r |-> EncodeBlock(r[i])]

\* A round is written as bytes, block after block.
LEMMA BlockPartsType ==
  ASSUME NEW r \in Rounds
  PROVE  /\ r \in Seq(EntryBlocks) /\ Len(r) \in Nat
         /\ \A i \in 1 .. Len(r) :
              /\ r[i] \in EntryBlocks /\ Len(r[i].entries) \in Bytes
              /\ BlockParts(r)[i] = EncodeBlock(r[i])
         /\ BlockParts(r) \in Seq(Seq(Bytes)) /\ Len(BlockParts(r)) = Len(r)
         /\ EncodeRound(r) = FlattenSeq(BlockParts(r))
         /\ EncodeRound(r) \in Seq(Bytes)
<1>1. r \in Seq(EntryBlocks) /\ \A i \in DOMAIN r : Len(r[i].entries) \in Bytes
  BY ClientAssumption
<1>2. Len(r) \in Nat /\ DOMAIN r = 1 .. Len(r) /\ \A i \in 1 .. Len(r) : r[i] \in EntryBlocks
  BY <1>1
<1>3. \A i \in 1 .. Len(r) : EncodeBlock(r[i]) \in Seq(Bytes)
  BY <1>1, <1>2, BlockType
<1>4. BlockParts(r) = [i \in 1 .. Len(r) |-> EncodeBlock(r[i])]
  BY <1>2 DEF BlockParts
<1>5. BlockParts(r) \in Seq(Seq(Bytes)) /\ Len(BlockParts(r)) = Len(r)
  BY <1>2, <1>3, <1>4, IsASeq
<1>6. EncodeRound(r) = FlattenSeq(BlockParts(r))
  BY DEF EncodeRound, BlockParts
<1>7. EncodeRound(r) \in Seq(Bytes)
  BY <1>5, <1>6, FlattenType
<1>. QED
  BY <1>1, <1>2, <1>4, <1>5, <1>6, <1>7

\* What the first reading should keep of block i.
LayoutOf(r, i) ==
  Block(r[i].id, Len(r[i].entries), Before(BlockParts(r), i - 1) + Length(r[i].id) + 1)

\* What it has kept of a round that a client wrote.
RoundWritten(r) ==
  /\ verdict # "rejected"
  /\ Len(blocks) <= Len(r)
  /\ \A i \in 1 .. Len(blocks) : blocks[i] = LayoutOf(r, i)
  /\ blocks = <<>> => offset = 0
  /\ verdict = "accepted" => Len(blocks) = Len(r)

\* Each block of the round is where it should be, and so are its entries.
LEMMA BlockInRound ==
  ASSUME NEW r \in Rounds, msg = EncodeRound(r), NEW i \in 1 .. Len(r)
  PROVE  LET at == Before(BlockParts(r), i - 1)
             b == r[i]
         IN  /\ at \in Nat
             /\ CanReadId(at) /\ Value(at) = b.id /\ End(at) = at + Length(b.id)
             /\ End(at) < Len(msg) /\ msg[End(at) + 1] = Len(b.entries)
             /\ End(at) + 1 \in Nat
             /\ Holds(End(at) + 1, FlattenSeq(EntryParts(b)))
             /\ End(at) + 1 + Len(FlattenSeq(EntryParts(b))) = Before(BlockParts(r), i)
<1>1. msg \in Seq(Bytes)
  BY BlockPartsType
<1>. PICK s \in Seq(Seq(Bytes)) : s = BlockParts(r) /\ Len(s) = Len(r)
  BY BlockPartsType
<1>. PICK k \in 0 .. Len(s) - 1 : k = i - 1 /\ k + 1 = i
  <2>1. i - 1 \in 0 .. Len(s) - 1 /\ (i - 1) + 1 = i
    BY BlockPartsType
  <2>. QED
    BY <2>1, Zenon
<1>. PICK b \in EntryBlocks : b = r[i] /\ Len(b.entries) \in Bytes /\ s[i] = EncodeBlock(b)
  BY BlockPartsType
<1>2. Holds(0, FlattenSeq(s))
  BY <1>1, BlockPartsType, HoldsAll
<1>. PICK at \in Nat : at = Before(s, k) /\ Holds(at, EncodeBlock(b))
  <2>1. 0 + Before(s, k) \in Nat /\ Holds(0 + Before(s, k), s[k + 1])
    BY <1>1, <1>2, HoldsParts
  <2>2. Before(s, k) \in Nat
    <3>1. k \in 0 .. Len(s)
      OBVIOUS
    <3>. QED
      BY <3>1, BeforeIs
  <2>3. 0 + Before(s, k) = Before(s, k)
    BY <2>2
  <2>. QED
    BY <2>1, <2>2, <2>3
<1>3. /\ CanReadId(at) /\ Value(at) = b.id /\ End(at) = at + Length(b.id)
      /\ End(at) < Len(msg) /\ msg[End(at) + 1] = Len(b.entries)
      /\ End(at) + 1 \in Nat
      /\ Holds(End(at) + 1, FlattenSeq(EntryParts(b)))
      /\ End(at) + 1 + Len(FlattenSeq(EntryParts(b))) = at + Len(EncodeBlock(b))
  BY <1>1, BlockIsRead
<1>4. Before(s, i) = at + Len(EncodeBlock(b))
  BY BeforeIs
<1>. QED
  BY <1>3, <1>4

\* What the second reading sees of a block that was kept as it should be.
LEMMA LayoutIsRead ==
  ASSUME NEW r \in Rounds, msg = EncodeRound(r), NEW i \in 1 .. Len(r)
  PROVE  LET l == LayoutOf(r, i)
         IN  /\ l.id = r[i].id /\ l.entry_count = Len(r[i].entries) /\ l.entry_count \in Nat
             /\ EntryStart(l)[l.entry_count] = Before(BlockParts(r), i)
             /\ \A j \in 0 .. l.entry_count - 1 :
                  EntryStart(l)[j] < Len(msg) /\ CanRead(EntryStart(l)[j] + 1)
             /\ EntriesOf(l) = r[i].entries
<1>. PICK l : l = LayoutOf(r, i)
  OBVIOUS
<1>. PICK b \in EntryBlocks : b = r[i]
  BY BlockPartsType
<1>. PICK at \in Nat : at = End(Before(BlockParts(r), i - 1)) + 1
  BY BlockInRound
<1>1. msg \in Seq(Bytes)
  BY BlockPartsType
<1>2. /\ Holds(at, FlattenSeq(EntryParts(b)))
      /\ at + Len(FlattenSeq(EntryParts(b))) = Before(BlockParts(r), i)
      /\ at = Before(BlockParts(r), i - 1) + Length(b.id) + 1
  BY BlockInRound
<1>3. l.id = b.id /\ l.entry_count = Len(b.entries) /\ l.entries_offset = at
  BY <1>2 DEF LayoutOf, Block
<1>0. /\ \A j \in 0 .. Len(b.entries) : EntryStart(l)[j] = at + Before(EntryParts(b), j)
      /\ \A j \in 0 .. Len(b.entries) - 1 :
           /\ EntryStart(l)[j] < Len(msg) /\ CanRead(EntryStart(l)[j] + 1)
           /\ EntryAt(EntryStart(l)[j]) = b.entries[j + 1]
  <2>1. l.entry_count = Len(b.entries) /\ l.entries_offset = at
    BY <1>3
  <2>2. Holds(at, FlattenSeq(EntryParts(b)))
    BY <1>2
  <2>. QED
    BY <1>1, <2>1, <2>2, EntriesAreRead
<1>. PICK n \in Nat : n = Len(b.entries) /\ n = l.entry_count
  BY <1>3, EntryPartsType
<1>4. /\ \A j \in 0 .. n : EntryStart(l)[j] = at + Before(EntryParts(b), j)
      /\ \A j \in 0 .. n - 1 :
           /\ EntryStart(l)[j] < Len(msg) /\ CanRead(EntryStart(l)[j] + 1)
           /\ EntryAt(EntryStart(l)[j]) = b.entries[j + 1]
  BY <1>0
<1>5. EntryStart(l)[n] = Before(BlockParts(r), i)
  <2>1. n \in 0 .. n
    OBVIOUS
  <2>2. Before(EntryParts(b), n) = Len(FlattenSeq(EntryParts(b)))
    BY EntryPartsType, BeforeIs
  <2>. QED
    BY <1>2, <1>4, <2>1, <2>2
<1>6. EntriesOf(l) = b.entries
  <2>. PICK s \in Seq(Entries) : s = b.entries
    BY EntryPartsType
  <2>1. ASSUME NEW j \in 1 .. n PROVE EntryAt(EntryStart(l)[j - 1]) = s[j]
    <3>1. j - 1 \in 0 .. n - 1 /\ (j - 1) + 1 = j
      OBVIOUS
    <3>. QED
      BY <1>4, <3>1
  <2>2. EntriesOf(l) = [j \in 1 .. n |-> s[j]]
    BY <2>1 DEF EntriesOf
  <2>3. s = [j \in 1 .. Len(s) |-> s[j]]
    OBVIOUS
  <2>. QED
    BY <2>2, <2>3
<1>. QED
  BY <1>3, <1>4, <1>5, <1>6

\* Between two blocks the first reading stands where the next one begins.
LEMMA NextBlockAt ==
  ASSUME NEW r \in Rounds, msg = EncodeRound(r), RoundInvariant, RoundWritten(r), left = 0
  PROVE  offset = Before(BlockParts(r), Len(blocks))
<1>1. blocks \in Seq(Blocks) /\ Len(blocks) \in Nat /\ Len(blocks) <= Len(r) /\ Len(r) \in Nat
  BY BlockPartsType DEF RoundInvariant, RoundWritten
<1>2. CASE blocks = <<>>
  <2>1. offset = 0 /\ Len(blocks) = 0
    BY <1>2 DEF RoundWritten
  <2>2. Before(BlockParts(r), 0) = 0
    BY BlockPartsType, BeforeIs
  <2>. QED
    BY <2>1, <2>2
<1>3. CASE blocks # <<>>
  <2>. PICK i \in 1 .. Len(r) : i = Len(blocks) /\ i \in 1 .. Len(blocks)
    <3>1. Len(blocks) \in 1 .. Len(r) /\ Len(blocks) \in 1 .. Len(blocks)
      BY <1>1, <1>3
    <3>. QED
      BY <3>1, Zenon
  <2>. PICK l : l = blocks[i] /\ l = LayoutOf(r, i)
    BY DEF RoundWritten
  <2>1. offset = EntryStart(l)[l.entry_count - left]
    BY <1>3 DEF RoundInvariant
  <2>2. l.entry_count \in Nat /\ EntryStart(l)[l.entry_count] = Before(BlockParts(r), i)
    BY LayoutIsRead
  <2>3. l.entry_count - left = l.entry_count
    BY <2>2
  <2>. QED
    BY <2>1, <2>2, <2>3
<1>. QED
  BY <1>2, <1>3

\* The first reading goes on until it accepts.
LEMMA RoundGoesOn ==
  ASSUME NEW r \in Rounds, msg = EncodeRound(r), count = Len(r), kind = "round",
         RoundInvariant, RoundWritten(r), verdict = "reading"
  PROVE  CanReadBlock \/ CanReadEntry \/ CanAcceptRound
<1>1. blocks \in Seq(Blocks) /\ Len(blocks) \in Nat /\ Len(blocks) <= Len(r) /\ Len(r) \in Nat
      /\ left \in Nat
  BY BlockPartsType DEF RoundInvariant, RoundWritten
<1>2. CASE left = 0 /\ Len(blocks) < Len(r)
  <2>. PICK i \in 1 .. Len(r) : i = Len(blocks) + 1 /\ i - 1 = Len(blocks)
    <3>1. Len(blocks) + 1 \in 1 .. Len(r) /\ (Len(blocks) + 1) - 1 = Len(blocks)
      BY <1>1, <1>2
    <3>. QED
      BY <3>1, Zenon
  <2>1. offset = Before(BlockParts(r), i - 1)
    BY <1>2, NextBlockAt
  <2>2. CanReadId(offset) /\ End(offset) < Len(msg)
    BY <2>1, BlockInRound
  <2>. QED
    BY <1>2, <2>2 DEF CanReadBlock, Reading
<1>3. CASE left = 0 /\ Len(blocks) = Len(r)
  <2>1. offset = Before(BlockParts(r), Len(r))
    BY <1>3, NextBlockAt
  <2>2. Before(BlockParts(r), Len(r)) = Len(msg)
    BY BlockPartsType, BeforeIs
  <2>. QED
    BY <1>3, <2>1, <2>2 DEF CanAcceptRound, Reading
<1>4. CASE left > 0
  <2>1. blocks # <<>>
    BY <1>4 DEF RoundInvariant
  <2>. PICK i \in 1 .. Len(r) : i = Len(blocks) /\ i \in 1 .. Len(blocks)
    <3>1. Len(blocks) \in 1 .. Len(r) /\ Len(blocks) \in 1 .. Len(blocks)
      BY <1>1, <2>1
    <3>. QED
      BY <3>1, Zenon
  <2>. PICK l : l = blocks[i] /\ l = LayoutOf(r, i)
    BY DEF RoundWritten
  <2>2. left <= l.entry_count /\ offset = EntryStart(l)[l.entry_count - left]
    BY <2>1 DEF RoundInvariant
  <2>3. /\ l.entry_count \in Nat
        /\ \A j \in 0 .. l.entry_count - 1 :
             EntryStart(l)[j] < Len(msg) /\ CanRead(EntryStart(l)[j] + 1)
    BY LayoutIsRead
  <2>4. l.entry_count - left \in 0 .. l.entry_count - 1
    BY <1>1, <1>4, <2>2, <2>3
  <2>5. offset < Len(msg) /\ CanRead(offset + 1)
    BY <2>2, <2>3, <2>4
  <2>. QED
    BY <1>4, <2>5 DEF CanReadEntry, Reading
<1>. QED
  BY <1>1, <1>2, <1>3, <1>4

\* What is accepted of the round is the round.
LEMMA RoundIsRead ==
  ASSUME NEW r \in Rounds, msg = EncodeRound(r), RoundInvariant, RoundWritten(r),
         verdict = "accepted"
  PROVE  [i \in DOMAIN blocks |->
            [id |-> blocks[i].id, entries |-> EntriesOf(blocks[i])]] = r
<1>1. blocks \in Seq(Blocks) /\ DOMAIN blocks = 1 .. Len(r) /\ Len(blocks) = Len(r)
  BY DEF RoundInvariant, RoundWritten
<1>2. r \in Seq(EntryBlocks)
  BY BlockPartsType
<1>3. ASSUME NEW i \in 1 .. Len(r)
      PROVE  [id |-> blocks[i].id, entries |-> EntriesOf(blocks[i])] = r[i]
  <2>1. blocks[i] = LayoutOf(r, i)
    BY <1>1 DEF RoundWritten
  <2>. PICK l : l = LayoutOf(r, i)
    OBVIOUS
  <2>2. l.id = r[i].id /\ EntriesOf(l) = r[i].entries
    BY LayoutIsRead
  <2>3. r[i] = [id |-> r[i].id, entries |-> r[i].entries]
    <3>1. r[i] \in EntryBlocks
      BY BlockPartsType
    <3>. QED
      BY <3>1 DEF EntryBlocks
  <2>. QED
    BY <2>1, <2>2, <2>3
<1>4. r = [i \in 1 .. Len(r) |-> r[i]]
  BY <1>2
<1>. QED
  BY <1>1, <1>3, <1>4

-----------------------------------------------------------------------------
(***************************************************************************)
(* The reader: what a client wrote is accepted.                            *)
(***************************************************************************)
LEMMA WrittenRoundStep ==
  ASSUME NEW r \in Rounds, msg = EncodeRound(r), count = Len(r), kind = "round",
         RoundInvariant, RoundWritten(r), Next
  PROVE  RoundWritten(r)'
<1>0. blocks \in Seq(Blocks) /\ Len(blocks) \in Nat /\ Len(r) \in Nat
  BY BlockPartsType DEF RoundInvariant
<1>1. ASSUME blocks' = blocks, offset' = offset \/ blocks # <<>>, verdict' # "rejected",
             verdict' = "accepted" => Len(blocks) = Len(r)
      PROVE  RoundWritten(r)'
  <2>1. \A i : LayoutOf(r, i)' = LayoutOf(r, i)
    BY DEF LayoutOf, Block, Before, BlockParts, Leading, EncodeBlock, Length
  <2>2. (\A i \in 1 .. Len(blocks) : blocks[i] = LayoutOf(r, i))'
    BY <1>1, <2>1 DEF RoundWritten
  <2>. QED
    BY <1>1, <2>2 DEF RoundWritten
<1>2. CASE ReadBlock
  <2>1. /\ left = 0 /\ Len(blocks) < Len(r) /\ verdict' # "rejected" /\ verdict' # "accepted"
        /\ blocks' = Append(blocks, Block(Value(offset), msg[End(offset) + 1], End(offset) + 1))
    BY <1>2 DEF ReadBlock, CanReadBlock, Reading, AfterCount
  <2>. PICK i \in 1 .. Len(r) : i = Len(blocks) + 1 /\ i - 1 = Len(blocks)
    <3>1. Len(blocks) + 1 \in 1 .. Len(r) /\ (Len(blocks) + 1) - 1 = Len(blocks)
      BY <1>0, <2>1
    <3>. QED
      BY <3>1, Zenon
  <2>2. offset = Before(BlockParts(r), i - 1)
    BY <2>1, NextBlockAt
  <2>3. Block(Value(offset), msg[End(offset) + 1], End(offset) + 1) = LayoutOf(r, i)
    <3>. PICK at : at = Before(BlockParts(r), i - 1)
      OBVIOUS
    <3>1. /\ Value(at) = r[i].id /\ End(at) = at + Length(r[i].id)
          /\ msg[End(at) + 1] = Len(r[i].entries)
      BY BlockInRound
    <3>. QED
      BY <2>2, <3>1 DEF LayoutOf
  <2>4. blocks' = Append(blocks, LayoutOf(r, i))
    BY <2>1, <2>3
  <2>5. /\ Len(blocks') = i /\ blocks' # <<>> /\ blocks'[i] = LayoutOf(r, i)
        /\ \A j \in 1 .. Len(blocks) : blocks'[j] = blocks[j]
    BY <1>0, <2>4
  <2>6. ASSUME NEW j \in 1 .. i PROVE blocks'[j] = LayoutOf(r, j)
    <3>1. CASE j = i
      BY <2>5, <3>1
    <3>2. CASE j # i
      <4>1. j \in 1 .. Len(blocks)
        BY <1>0, <3>2
      <4>. QED
        BY <2>5, <4>1 DEF RoundWritten
    <3>. QED
      BY <3>1, <3>2
  <2>7. \A j : LayoutOf(r, j)' = LayoutOf(r, j)
    BY DEF LayoutOf, Block, Before, BlockParts, Leading, EncodeBlock, Length
  <2>8. (\A j \in 1 .. Len(blocks) : blocks[j] = LayoutOf(r, j))'
    BY <2>5, <2>6, <2>7
  <2>9. i <= Len(r)
    BY <1>0
  <2>. QED
    BY <2>1, <2>5, <2>8, <2>9 DEF RoundWritten
<1>3. CASE ReadEntry
  <2>1. left > 0 /\ blocks' = blocks /\ verdict' = "reading"
    BY <1>3 DEF ReadEntry, CanReadEntry, Reading
  <2>2. blocks # <<>>
    BY <2>1 DEF RoundInvariant
  <2>. QED
    BY <1>1, <2>1, <2>2
<1>4. CASE Accept
  <2>1. ~CanAcceptCommitment
    BY DEF CanAcceptCommitment, Reading
  <2>2. CanAcceptRound /\ UNCHANGED <<offset, read>> /\ blocks' = blocks /\ verdict' = "accepted"
    BY <1>4, <2>1 DEF Accept
  <2>3. Len(blocks) = Len(r)
    BY <2>2 DEF CanAcceptRound
  <2>. QED
    BY <1>1, <2>2, <2>3
<1>5. CASE Reject
  <2>1. verdict = "reading" /\ ~(CanReadBlock \/ CanReadEntry \/ CanAcceptRound)
    BY <1>5 DEF Reject
  <2>. QED
    BY <2>1, RoundGoesOn
<1>. QED
  BY <1>2, <1>3, <1>4, <1>5 DEF Next

\* Nothing that a client wrote is rejected, and its blocks are kept as written.
WrittenInvariant ==
  /\ kind = "commitment" =>
       \A c \in Commitments :
         msg = EncodeCommitment(c) /\ count = Flag(c) => verdict # "rejected"
  /\ kind = "round" =>
       \A r \in Rounds : msg = EncodeRound(r) /\ count = Len(r) => RoundWritten(r)

\* Every step keeps it.
LEMMA WrittenStep ==
  ASSUME ReaderInvariant, WrittenInvariant, Next
  PROVE  WrittenInvariant'
<1>0. kind' = kind /\ msg' = msg /\ count' = count
  BY DEF Next, ReadBlock, ReadEntry, Accept, Reject
<1>1. ASSUME kind = "commitment", NEW c \in Commitments, msg = EncodeCommitment(c),
             count = Flag(c)
      PROVE  verdict' # "rejected"
  <2>1. CASE Reject
    <3>1. verdict = "reading" /\ ~CanAcceptCommitment
      BY <2>1 DEF Reject
    <3>2. CanAcceptCommitment
      BY <1>1, <3>1, CommitmentIsRead DEF CanAcceptCommitment, Reading
    <3>. QED
      BY <3>1, <3>2
  <2>2. CASE ReadBlock \/ ReadEntry \/ Accept
    BY <2>2 DEF ReadBlock, ReadEntry, Accept, CanReadBlock, CanReadEntry, Reading
  <2>. QED
    BY <2>1, <2>2 DEF Next
<1>2. ASSUME kind = "round", NEW r \in Rounds, msg = EncodeRound(r), count = Len(r)
      PROVE  RoundWritten(r)'
  BY <1>2, WrittenRoundStep DEF ReaderInvariant, WrittenInvariant
<1>3. \A c \in Commitments : EncodeCommitment(c)' = EncodeCommitment(c) /\ Flag(c)' = Flag(c)
  BY DEF EncodeCommitment, Encode, Length, Flag
<1>4. \A r \in Rounds : EncodeRound(r)' = EncodeRound(r)
  BY DEF EncodeRound, EncodeBlock, EncodeEntry, Encode, Length
<1>. QED
  BY <1>0, <1>1, <1>2, <1>3, <1>4 DEF WrittenInvariant

\* What a client wrote is read as it was meant (ReadsWhatWasWritten).
LEMMA WrittenConclusion ==
  ASSUME ReaderInvariant, WrittenInvariant
  PROVE  ReadsWhatWasWritten
<1>1. ASSUME NEW c \in Commitments, kind = "commitment", msg = EncodeCommitment(c),
             count = Flag(c)
      PROVE  verdict # "rejected" /\ (verdict = "accepted" => read = <<c>>)
  <2>1. verdict # "rejected"
    BY <1>1 DEF WrittenInvariant
  <2>2. ASSUME verdict = "accepted" PROVE read = <<c>>
    <3>1. read = <<Commitment>>
      BY <1>1, <2>2 DEF ReaderInvariant, CommitmentInvariant
    <3>2. Commitment = c
      BY <1>1, CommitmentIsRead
    <3>. QED
      BY <3>1, <3>2
  <2>. QED
    BY <2>1, <2>2
<1>2. ASSUME NEW r \in Rounds, kind = "round", msg = EncodeRound(r), count = Len(r)
      PROVE  /\ verdict # "rejected"
             /\ verdict = "accepted" =>
                  [i \in DOMAIN blocks |->
                     [id |-> blocks[i].id, entries |-> EntriesOf(blocks[i])]] = r
  <2>1. RoundInvariant /\ RoundWritten(r)
    BY <1>2 DEF ReaderInvariant, WrittenInvariant
  <2>. QED
    BY <1>2, <2>1, RoundIsRead DEF RoundWritten
<1>. QED
  BY <1>1, <1>2 DEF ReadsWhatWasWritten

\* Messages that no client wrote are bytes, too.
LEMMA StrayType ==
  ASSUME NEW m \in BoundedSeq(StrayBytes, MaxLength)
  PROVE  m \in Seq(Bytes)
<1>1. PICK k \in 0 .. MaxLength : m \in [1 .. k -> StrayBytes]
  BY DEF BoundedSeq, SeqOf
<1>2. k \in Nat /\ \A i \in 1 .. k : m[i] \in Bytes
  <2>1. StrayBytes \subseteq Bytes
    BY CodecAssumption DEF Bytes
  <2>2. \A i \in 1 .. k : m[i] \in StrayBytes
    BY <1>1
  <2>. QED
    BY <2>1, <2>2
<1>3. m = [i \in 1 .. k |-> m[i]]
  BY <1>1
<1>. QED
  BY <1>2, <1>3, IsASeq

\* The invariants hold before a byte is read.
LEMMA ReaderStart ==
  ASSUME Init
  PROVE  ReaderInvariant /\ WrittenInvariant
<1>1. msg \in Seq(Bytes) /\ kind \in {"round", "commitment"}
  BY BlockPartsType, CommitmentType, StrayType DEF Init
<1>2. offset = 0 /\ blocks = <<>> /\ left = 0 /\ read = <<>> /\ verdict = "reading"
  BY DEF Init
<1>3. RoundInvariant
  <2>1. Len(blocks) = 0 /\ blocks \in Seq(Blocks) /\ 1 .. Len(blocks) = {}
    BY <1>2
  <2>2. Seen = <<>>
    <3>1. Seen \in Seq({}) /\ Len(Seen) = 0
      BY <2>1, IsASeq DEF Seen
    <3>. QED
      BY <3>1
  <2>. QED
    BY <1>2, <2>1, <2>2, FlattenEmpty DEF RoundInvariant
<1>4. \A r \in Rounds : RoundWritten(r)
  <2>1. Len(blocks) = 0 /\ 1 .. Len(blocks) = {} /\ \A r \in Rounds : Len(r) \in Nat
    BY <1>2, BlockPartsType
  <2>. QED
    BY <1>2, <2>1 DEF RoundWritten
<1>. QED
  BY <1>1, <1>2, <1>3, <1>4 DEF ReaderInvariant, WrittenInvariant, CommitmentInvariant

\* The other parts of the model leave them alone.
LEMMA ReaderStutter ==
  ASSUME ReaderInvariant, WrittenInvariant, UNCHANGED vars
  PROVE  ReaderInvariant' /\ WrittenInvariant'
<1>0. /\ kind' = kind /\ count' = count /\ msg' = msg /\ offset' = offset /\ blocks' = blocks
      /\ left' = left /\ read' = read /\ verdict' = verdict
  BY DEF vars
<1>1. RoundInvariant => RoundInvariant'
  <2>1. SUFFICES ASSUME RoundInvariant PROVE RoundInvariant'
    OBVIOUS
  <2>2. UNCHANGED <<offset, read, msg, blocks, left>>
    BY <1>0
  <2>. QED
    BY <1>0, <2>1, <2>2, StillRound
<1>2. CommitmentInvariant' <=> CommitmentInvariant
  BY <1>0 DEF CommitmentInvariant, CanReadId, CanRead, Commitment, Value, MapThenSumSet,
              MapThenFoldSet, Chunk, PayeeAt, TokenAt, End, Ends
<1>3. \A r \in Rounds : RoundWritten(r) => RoundWritten(r)'
  <2>1. \A r, i : LayoutOf(r, i)' = LayoutOf(r, i)
    BY DEF LayoutOf, Block, Before, BlockParts, Leading, EncodeBlock, Length
  <2>. QED
    BY <1>0, <2>1 DEF RoundWritten
<1>4. \A c \in Commitments : EncodeCommitment(c)' = EncodeCommitment(c) /\ Flag(c)' = Flag(c)
  BY DEF EncodeCommitment, Encode, Length, Flag
<1>5. \A r \in Rounds : EncodeRound(r)' = EncodeRound(r)
  BY DEF EncodeRound, EncodeBlock, EncodeEntry, Encode, Length
<1>6. ReaderInvariant'
  BY <1>0, <1>1, <1>2 DEF ReaderInvariant
<1>7. WrittenInvariant'
  BY <1>0, <1>3, <1>4, <1>5 DEF WrittenInvariant
<1>. QED
  BY <1>6, <1>7

\* What a client wrote as a commitment or a clearing round is accepted and read
\* as it was meant (createCommitmentMessage and createClearingRoundMessage on one
\* side, parse_commitment_message, parse_clearing_round_layout_with_version and
\* parse_channel_entry on the other); the entries that are settled are those that
\* were checked, and no integer is truncated, in every message.
THEOREM MessagesReadRight == WireSpec => []MessagesAreReadRight
<1>. DEFINE Read == part = "reader" => ReaderInvariant /\ WrittenInvariant
<1>1. WireInit => Read
  BY ReaderStart DEF WireInit
<1>2. Read /\ [WireStep \/ ProbeThrows]_wireVars => Read'
  <2>1. SUFFICES ASSUME Read, [WireStep \/ ProbeThrows]_wireVars, part' = "reader"
                 PROVE  (ReaderInvariant /\ WrittenInvariant)'
    OBVIOUS
  <2>2. part = "reader" /\ (Next \/ UNCHANGED vars)
    BY <2>1 DEF WireStep, ProbeThrows, wireVars
  <2>3. ReaderInvariant /\ WrittenInvariant
    BY <2>1, <2>2
  <2>4. CASE Next
    BY <2>3, <2>4, ReaderStep, WrittenStep
  <2>5. CASE UNCHANGED vars
    BY <2>3, <2>5, ReaderStutter
  <2>. QED
    BY <2>2, <2>4, <2>5
<1>3. Read => MessagesAreReadRight
  BY ReaderConclusion, WrittenConclusion DEF MessagesAreReadRight
<1>. QED
  BY <1>1, <1>2, <1>3, PTL DEF WireSpec

-----------------------------------------------------------------------------
(***************************************************************************)
(* Sizes grow (RoundCapacity).                                             *)
(***************************************************************************)
\* RoundCapacity counts as this module does.
LEMMA MeasuringCardinality ==
  \A S : Measuring!Cardinality(S) = Cardinality(S)
BY DEF Measuring!Cardinality, Cardinality

\* A longer list has no shorter length prefix.
LEMMA PrefixesGrow ==
  \A m, n \in Int : /\ Measuring!CompactLength(m) \in Nat
                    /\ m <= n => Measuring!CompactLength(m) <= Measuring!CompactLength(n)
BY DEF Measuring!CompactLength

\* An instruction with more keys and more data is larger.
LEMMA InstructionsGrow ==
  ASSUME NEW k \in Int, NEW l \in Int, k <= l, NEW d \in Int, NEW e \in Int, d <= e
  PROVE  /\ Measuring!Instruction(k, d) \in Int /\ Measuring!Instruction(l, e) \in Int
         /\ Measuring!Instruction(k, d) <= Measuring!Instruction(l, e)
BY PrefixesGrow DEF Measuring!Instruction

\* And so is a transaction with more keys or a larger instruction.
LEMMA TransactionsGrow ==
  ASSUME NEW k \in Int, NEW l \in Int, k <= l, NEW v \in Int, NEW w \in Int, v <= w,
         NEW r \in Int, NEW i \in Int, NEW j \in Int, i <= j
  PROVE  /\ Measuring!Legacy(k, i) \in Int /\ Measuring!Legacy(l, j) \in Int
         /\ Measuring!Legacy(k, i) <= Measuring!Legacy(l, j)
         /\ Measuring!WithTable(k, v, r, i) \in Int /\ Measuring!WithTable(l, w, r, j) \in Int
         /\ Measuring!WithTable(k, v, r, i) <= Measuring!WithTable(l, w, r, j)
<1>1. /\ Measuring!Legacy(k, i) \in Int /\ Measuring!Legacy(l, j) \in Int
      /\ Measuring!Legacy(k, i) <= Measuring!Legacy(l, j)
  BY PrefixesGrow DEF Measuring!Legacy
<1>. QED
  BY <1>1, PrefixesGrow DEF Measuring!WithTable

\* More buckets and a longer message make a larger round.
LEMMA RoundsGrow ==
  ASSUME NEW p, NEW c, NEW q, NEW d, NEW table \in BOOLEAN,
         Measuring!Buckets(p, c) \in Int, Measuring!Buckets(q, d) \in Int,
         Measuring!Buckets(p, c) <= Measuring!Buckets(q, d),
         Measuring!RoundMessage(p, c) \in Int, Measuring!RoundMessage(q, d) \in Int,
         Measuring!RoundMessage(p, c) <= Measuring!RoundMessage(q, d)
  PROVE  /\ Measuring!RoundBytes(table, p, c) \in Int
         /\ Measuring!RoundBytes(table, q, d) \in Int
         /\ Measuring!RoundBytes(table, p, c) <= Measuring!RoundBytes(table, q, d)
<1>. DEFINE m == Measuring!Buckets(p, c)
            n == Measuring!Buckets(q, d)
            x == Measuring!RoundData(p, c)
            y == Measuring!RoundData(q, d)
            i == Measuring!Instruction(4 + m, x)
            j == Measuring!Instruction(4 + n, y)
<1>1. x \in Int /\ y \in Int /\ x <= y
  BY DEF Measuring!RoundData
<1>2. m \in Int /\ n \in Int /\ m <= n
  OBVIOUS
<1>. HIDE DEF m, n, x, y
<1>3. i \in Int /\ j \in Int /\ i <= j
  <2>1. 4 + m \in Int /\ 4 + n \in Int /\ 4 + m <= 4 + n
    BY <1>2
  <2>. QED
    BY <1>1, <2>1, InstructionsGrow
<1>. HIDE DEF i, j
<1>t. 2 \in Int /\ 3 \in Int /\ 2 <= 2
  OBVIOUS
<1>4. /\ Measuring!WithTable(2, m, 3, i) \in Int /\ Measuring!WithTable(2, n, 3, j) \in Int
      /\ Measuring!WithTable(2, m, 3, i) <= Measuring!WithTable(2, n, 3, j)
  BY <1>2, <1>3, <1>t, TransactionsGrow
<1>5. /\ Measuring!Legacy(5 + m, i) \in Int /\ Measuring!Legacy(5 + n, j) \in Int
      /\ Measuring!Legacy(5 + m, i) <= Measuring!Legacy(5 + n, j)
  <2>1. 5 + m \in Int /\ 5 + n \in Int /\ 5 + m <= 5 + n
    BY <1>2
  <2>. QED
    BY <1>2, <1>3, <1>t, <2>1, TransactionsGrow
<1>6. /\ Measuring!RoundBytes(table, p, c) = IF table THEN Measuring!WithTable(2, m, 3, i)
                                             ELSE Measuring!Legacy(5 + m, i)
      /\ Measuring!RoundBytes(table, q, d) = IF table THEN Measuring!WithTable(2, n, 3, j)
                                             ELSE Measuring!Legacy(5 + n, j)
  BY DEF Measuring!RoundBytes, m, n, x, y, i, j
<1>. QED
  BY <1>4, <1>5, <1>6

\* A larger bundle needs more bytes.
LEMMA BundlesGrow ==
  ASSUME NEW m \in Nat, NEW n \in Nat, m <= n, NEW message \in Nat
  PROVE  /\ Measuring!BundleBytes(m, message) \in Int
         /\ Measuring!BundleBytes(n, message) \in Int
         /\ Measuring!BundleBytes(m, message) <= Measuring!BundleBytes(n, message)
<1>. DEFINE x == Measuring!ProofData(m, message)
            y == Measuring!ProofData(n, message)
            i == Measuring!Instruction(0, x) + Measuring!Instruction(5 + 2 * m, 9)
            j == Measuring!Instruction(0, y) + Measuring!Instruction(5 + 2 * n, 9)
<1>1. x \in Int /\ y \in Int /\ x <= y
  <2>. DEFINE a == 14 + 32 + 64 + message
  <2>1. a \in Nat
    OBVIOUS
  <2>. HIDE DEF a
  <2>2. m * a \in Int /\ n * a \in Int /\ m * a <= n * a
    BY <2>1
  <2>3. x = 2 + m * a /\ y = 2 + n * a
    BY DEF Measuring!ProofData, a
  <2>. QED
    BY <2>2, <2>3
<1>. HIDE DEF x, y
<1>2. i \in Int /\ j \in Int /\ i <= j
  <2>0. 0 \in Int /\ 0 <= 0
    OBVIOUS
  <2>1. /\ Measuring!Instruction(0, x) \in Int /\ Measuring!Instruction(0, y) \in Int
        /\ Measuring!Instruction(0, x) <= Measuring!Instruction(0, y)
    BY <1>1, <2>0, InstructionsGrow
  <2>. DEFINE k == 5 + 2 * m
              l == 5 + 2 * n
  <2>2. k \in Int /\ l \in Int /\ k <= l /\ 9 \in Int /\ 9 <= 9
    OBVIOUS
  <2>. HIDE DEF k, l
  <2>3. /\ Measuring!Instruction(k, 9) \in Int /\ Measuring!Instruction(l, 9) \in Int
        /\ Measuring!Instruction(k, 9) <= Measuring!Instruction(l, 9)
    BY <2>2, InstructionsGrow
  <2>. QED
    BY <2>1, <2>3 DEF k, l
<1>. HIDE DEF i, j
<1>. DEFINE k == 1 + 2 * m
            l == 1 + 2 * n
<1>3. k \in Int /\ l \in Int /\ k <= l /\ 3 \in Int /\ 3 <= 3
  OBVIOUS
<1>. HIDE DEF k, l
<1>4. /\ Measuring!WithTable(3, k, 3, i) \in Int /\ Measuring!WithTable(3, l, 3, j) \in Int
      /\ Measuring!WithTable(3, k, 3, i) <= Measuring!WithTable(3, l, 3, j)
  BY <1>2, <1>3, TransactionsGrow
<1>. QED
  BY <1>4 DEF Measuring!BundleBytes, x, y, i, j, k, l

-----------------------------------------------------------------------------
(***************************************************************************)
(* Messages and buckets grow.                                              *)
(***************************************************************************)
\* The bytes of id and count of a block.
BlockHead(id) == Measuring!CompactLength(id) + 1
Heads(p) == [id \in 0 .. p - 1 |-> BlockHead(id)]

\* A round's length as a sum of the library.
LEMMA MessageIsSum ==
  ASSUME NEW p, NEW c
  PROVE  Measuring!RoundMessage(p, c)
           = 21 + SumFunctionOnSet(Heads(p), 0 .. p - 1) + 4 * c
<1>. DEFINE S == 0 .. p - 1
            f == Heads(p)
            of(g) == [u \in SUBSET S |-> IF u = {} THEN 0 ELSE BlockHead(Pick(u)) + g[Rest(u)]]
<1>1. \A g : g = of(g) <=> Sums(f, S, g)
  <2>1. ASSUME NEW u \in SUBSET S, NEW g
        PROVE  (IF u = {} THEN 0 ELSE BlockHead(Pick(u)) + g[Rest(u)])
                 = IF u = {} THEN 0 ELSE f[Pick(u)] + g[Rest(u)]
    <3>1. CASE u = {}
      BY <3>1
    <3>2. CASE u # {}
      <4>1. Pick(u) \in S
        BY <3>2, PickRest
      <4>2. f[Pick(u)] = BlockHead(Pick(u))
        BY <4>1 DEF Heads
      <4>. HIDE DEF f
      <4>. QED
        BY <4>2
    <3>. QED
      BY <3>1, <3>2
  <2>. HIDE DEF f, S
  <2>2. ASSUME NEW g
        PROVE  of(g) = [u \in SUBSET S |-> IF u = {} THEN 0 ELSE f[Pick(u)] + g[Rest(u)]]
    BY <2>1, Zenon
  <2>. HIDE DEF of
  <2>. QED
    BY <2>2, Zenon DEF Sums
<1>2. Measuring!RoundMessage(p, c) = 21 + (CHOOSE g : g = of(g))[S] + 4 * c
  BY DEF Measuring!RoundMessage, Measuring!MapThenSumSet, Measuring!MapThenFoldSet, Pick, Rest,
         BlockHead
<1>3. SumFunctionOnSet(f, S) = (CHOOSE g : Sums(f, S, g))[S]
  BY SumIsChosen
<1>. HIDE DEF of, f, S
<1>4. (CHOOSE g : g = of(g)) = (CHOOSE g : Sums(f, S, g))
  BY <1>1, Zenon
<1>. QED
  BY <1>2, <1>3, <1>4 DEF f, S

\* A round of more channels is longer, and one of one participant more.
LEMMA MessagesGrow ==
  ASSUME NEW p \in Nat, NEW c \in Nat, NEW d \in Nat, c <= d
  PROVE  /\ Measuring!RoundMessage(p, c) \in Int /\ Measuring!RoundMessage(p, d) \in Int
         /\ Measuring!RoundMessage(p + 1, d) \in Int
         /\ Measuring!RoundMessage(p, c) <= Measuring!RoundMessage(p, d)
         /\ Measuring!RoundMessage(p, c) <= Measuring!RoundMessage(p + 1, d)
<1>. DEFINE S == 0 .. p - 1
            T == 0 .. p
            x == SumFunctionOnSet(Heads(p), S)
            y == SumFunctionOnSet(Heads(p + 1), T)
<1>1. \A id \in Int : BlockHead(id) \in Nat
  BY PrefixesGrow DEF BlockHead
<1>2. IsFiniteSet(S) /\ IsFiniteSet(T)
  <2>1. 0 \in Int /\ p \in Int /\ p - 1 \in Int
    OBVIOUS
  <2>. QED
    BY <2>1, FS_Interval
<1>3. p \in T /\ T \ {p} = S /\ (p + 1) - 1 = p
  OBVIOUS
<1>4. x \in Int
  <2>1. \A id \in S : Heads(p)[id] \in Int
    BY <1>1 DEF Heads
  <2>. QED
    BY <1>2, <2>1, SumType
<1>5. \A id \in T : Heads(p + 1)[id] = BlockHead(id) /\ Heads(p + 1)[id] \in Int
  BY <1>1, <1>3 DEF Heads
<1>6. y = BlockHead(p) + x
  <2>1. y = Heads(p + 1)[p] + SumFunctionOnSet(Heads(p + 1), S)
    <3>1. y = Heads(p + 1)[p] + SumFunctionOnSet(Heads(p + 1), T \ {p})
      <4>. HIDE DEF T
      <4>. QED
        BY <1>2, <1>3, <1>5, SumWithout
    <3>. QED
      BY <1>3, <3>1
  <2>2. SumFunctionOnSet(Heads(p + 1), S) = x
    <3>1. \A id \in S : Heads(p + 1)[id] = Heads(p)[id]
      BY <1>5 DEF Heads
    <3>. QED
      BY <1>2, <3>1, SumCongruence
  <2>. QED
    BY <1>3, <1>5, <2>1, <2>2
<1>7. BlockHead(p) \in Nat
  BY <1>1
<1>8. /\ Measuring!RoundMessage(p, c) = 21 + x + 4 * c
      /\ Measuring!RoundMessage(p, d) = 21 + x + 4 * d
      /\ Measuring!RoundMessage(p + 1, d) = 21 + y + 4 * d
  BY <1>3, MessageIsSum
<1>. HIDE DEF x, y
<1>. QED
  BY <1>4, <1>6, <1>7, <1>8

\* The values of a function on a finite set are finitely many.
LEMMA FiniteImage ==
  ASSUME NEW S, IsFiniteSet(S), NEW f
  PROVE  LET T == {f[x] : x \in S}
         IN  IsFiniteSet(T) /\ Cardinality(T) \in Nat /\ Cardinality(T) <= Cardinality(S)
<1>. DEFINE T == {f[x] : x \in S}
            g == [x \in S |-> f[x]]
<1>1. g \in Surjection(S, T)
  <2>1. g \in [S -> T]
    OBVIOUS
  <2>2. \A t \in T : \E x \in S : g[x] = t
    OBVIOUS
  <2>. HIDE DEF g, T
  <2>. QED
    BY <2>1, <2>2 DEF Surjection
<1>. HIDE DEF g, T
<1>2. IsFiniteSet(T) /\ Cardinality(T) <= Cardinality(S)
  BY <1>1, FS_Surjection
<1>3. Cardinality(T) \in Nat
  BY <1>2, FS_CardinalityType
<1>. QED
  BY <1>2, <1>3 DEF T

\* The pairs of a round, by number, and the buckets of their channels.
PairAt(p, k) == <<Measuring!PayerOf(p, k), Measuring!PayeeOf(p, k)>>
BucketOf(q) ==
  Measuring!ChannelBucketId(Measuring!Lower(q[1], q[2]), Measuring!Higher(q[1], q[2]))
BucketsOf(p, c) == {BucketOf(q) : q \in Measuring!Pairs(p, c)}

\* They are finitely many.
LEMMA BucketsAreFinite ==
  ASSUME NEW p, NEW c \in Nat
  PROVE  /\ IsFiniteSet(Measuring!Pairs(p, c)) /\ IsFiniteSet(BucketsOf(p, c))
         /\ Measuring!ChannelBuckets(p, c) = Cardinality(BucketsOf(p, c))
         /\ Measuring!ChannelBuckets(p, c) \in Nat
<1>. DEFINE P == Measuring!Pairs(p, c)
            K == 0 .. c - 1
            f == [k \in K |-> PairAt(p, k)]
            b == [q \in P |-> BucketOf(q)]
<1>1. IsFiniteSet(K)
  <2>1. 0 \in Int /\ c - 1 \in Int
    OBVIOUS
  <2>. QED
    BY <2>1, FS_Interval
<1>2. IsFiniteSet(P)
  <2>1. P = {PairAt(p, k) : k \in K}
    BY DEF Measuring!Pairs, PairAt
  <2>2. {PairAt(p, k) : k \in K} = {f[k] : k \in K}
    <3>1. \A k \in K : f[k] = PairAt(p, k)
      OBVIOUS
    <3>. HIDE DEF f, K
    <3>. QED
      BY <3>1
  <2>. HIDE DEF f, K, P
  <2>3. IsFiniteSet({f[k] : k \in K})
    BY <1>1, FiniteImage
  <2>. QED
    BY <2>1, <2>2, <2>3
<1>3. IsFiniteSet(BucketsOf(p, c)) /\ Cardinality(BucketsOf(p, c)) \in Nat
  <2>1. BucketsOf(p, c) = {b[q] : q \in P}
    <3>1. \A q \in P : b[q] = BucketOf(q)
      OBVIOUS
    <3>2. BucketsOf(p, c) = {BucketOf(q) : q \in P}
      BY DEF BucketsOf
    <3>. HIDE DEF b, P
    <3>. QED
      BY <3>1, <3>2
  <2>. HIDE DEF b, P
  <2>2. IsFiniteSet({b[q] : q \in P}) /\ Cardinality({b[q] : q \in P}) \in Nat
    BY <1>2, FiniteImage
  <2>. QED
    BY <2>1, <2>2
<1>4. Measuring!ChannelBuckets(p, c) = Cardinality(BucketsOf(p, c))
  BY MeasuringCardinality DEF Measuring!ChannelBuckets, BucketsOf, BucketOf
<1>. QED
  BY <1>2, <1>3, <1>4

\* More channels are in no fewer buckets.
LEMMA MoreChannels ==
  ASSUME NEW p, NEW c \in Nat, NEW d \in Nat, c <= d
  PROVE  /\ Measuring!Pairs(p, c) \subseteq Measuring!Pairs(p, d)
         /\ Measuring!ChannelBuckets(p, c) <= Measuring!ChannelBuckets(p, d)
<1>1. Measuring!Pairs(p, c) \subseteq Measuring!Pairs(p, d)
  <2>1. \A k \in 0 .. c - 1 : k \in 0 .. d - 1
    OBVIOUS
  <2>. QED
    BY <2>1 DEF Measuring!Pairs
<1>2. BucketsOf(p, c) \subseteq BucketsOf(p, d)
  BY <1>1 DEF BucketsOf
<1>. QED
  BY <1>1, <1>2, BucketsAreFinite, FS_Subset

\* A larger number has no smaller quotient, and one larger by the divisor or more
\* has a larger one.
LEMMA QuotientsGrow ==
  ASSUME NEW s \in Nat, s >= 1, NEW m \in Nat, NEW n \in Nat
  PROVE  /\ m \div s \in Nat /\ n \div s \in Nat
         /\ m <= n => m \div s <= n \div s
         /\ m + s <= n => m \div s < n \div s
<1>0. \A x \in Nat : /\ x \div s \in Nat /\ x % s \in 0 .. s - 1
                     /\ x = s * (x \div s) + (x % s)
  BY Division
<1>. PICK a \in Nat, r \in 0 .. s - 1 : a = m \div s /\ m = s * a + r
  BY <1>0
<1>. PICK b \in Nat, t \in 0 .. s - 1 : b = n \div s /\ n = s * b + t
  BY <1>0
<1>1. ASSUME b < a PROVE n < m
  <2>1. b + 1 <= a
    BY <1>1
  <2>2. s * (b + 1) <= s * a
    BY <2>1
  <2>3. s * (b + 1) = s * b + s
    OBVIOUS
  <2>4. s * a \in Nat /\ s * b \in Nat
    OBVIOUS
  <2>. QED
    BY <2>2, <2>3, <2>4
<1>2. ASSUME b <= a PROVE n < m + s
  <2>1. s * b <= s * a
    BY <1>2
  <2>. QED
    BY <2>1
<1>3. a \in Nat /\ b \in Nat /\ m \in Nat /\ n \in Nat /\ s \in Nat
  OBVIOUS
<1>4. m \div s = a /\ n \div s = b
  OBVIOUS
<1>5. /\ m <= n => a <= b
      /\ m + s <= n => a < b
  BY <1>1, <1>2, <1>3
<1>. QED
  BY <1>3, <1>4, <1>5

\* The number of accounts of participants.
LEMMA ParticipantsGrow ==
  ASSUME NEW p \in Nat, p >= 1
  PROVE  /\ Measuring!ParticipantBuckets(p) \in Nat
         /\ Measuring!ParticipantBuckets(p + 1) \in Nat
         /\ Measuring!ParticipantBuckets(p) <= Measuring!ParticipantBuckets(p + 1)
<1>1. p - 1 \in Nat /\ (p + 1) - 1 = p /\ p - 1 <= p
  OBVIOUS
<1>2. ParticipantSlots \in Nat /\ ParticipantSlots >= 1
  BY RoundCapacityAssumption
<1>3. /\ (p - 1) \div ParticipantSlots \in Nat /\ p \div ParticipantSlots \in Nat
      /\ (p - 1) \div ParticipantSlots <= p \div ParticipantSlots
  BY <1>1, <1>2, QuotientsGrow
<1>. QED
  BY <1>1, <1>3 DEF Measuring!ParticipantBuckets, Measuring!ParticipantBucketId

-----------------------------------------------------------------------------
(***************************************************************************)
(* The pairs of a synthetic round.                                         *)
(***************************************************************************)
\* Remainders of numbers below twice the divisor.
LEMMA Remainders ==
  ASSUME NEW p \in Nat, p >= 1, NEW x \in Nat
  PROVE  /\ x < p => x \div p = 0 /\ x % p = x
         /\ p <= x /\ x < 2 * p => x % p = x - p
<1>1. /\ x \div p \in Nat /\ x % p \in 0 .. p - 1
      /\ x = p * (x \div p) + (x % p)
  BY Division
<1>2. CASE x < p
  <2>1. x \in 0 .. p - 1 /\ p * 0 + x = x
    BY <1>2
  <2>2. (p * 0 + x) \div p = 0
    BY <2>1, DivisionUnique
  <2>3. x \div p = 0
    BY <2>1, <2>2
  <2>. QED
    BY <1>1, <1>2, <2>3
<1>3. CASE p <= x /\ x < 2 * p
  <2>1. x - p \in 0 .. p - 1 /\ p * 1 + (x - p) = x
    BY <1>3
  <2>2. (p * 1 + (x - p)) \div p = 1
    BY <2>1, DivisionUnique
  <2>3. x \div p = 1
    BY <2>1, <2>2
  <2>4. p * (x \div p) = p
    BY <2>3
  <2>. QED
    BY <1>1, <1>3, <2>4
<1>. QED
  BY <1>2, <1>3

\* The k-th pair: row of distance o + 1, payer r.
LEMMA PairIs ==
  ASSUME NEW p \in Nat, p >= 1, NEW k \in Nat, k < p * (p - 1)
  PROVE  \E o \in 0 .. p - 2, r \in 0 .. p - 1 :
           /\ k = p * o + r
           /\ PairAt(p, k) = <<r, IF r + o + 1 < p THEN r + o + 1 ELSE r + o + 1 - p>>
<1>0. /\ k \div p \in Nat /\ k % p \in 0 .. p - 1
      /\ k = p * (k \div p) + (k % p)
  BY Division
<1>. DEFINE o == k \div p
            r == k % p
            x == r + o + 1
<1>1. o \in Nat /\ r \in 0 .. p - 1 /\ k = p * o + r
  BY <1>0
<1>. HIDE DEF o, r
<1>2. o <= p - 2
  <2>1. SUFFICES ASSUME p - 1 <= o PROVE FALSE
    BY <1>1
  <2>2. p - 1 \in Nat
    OBVIOUS
  <2>3. p * (p - 1) <= p * o
    BY <1>1, <2>1, <2>2
  <2>4. p * (p - 1) \in Nat /\ p * o \in Nat
    BY <1>1
  <2>. QED
    BY <1>1, <2>3, <2>4
<1>3. x \in Nat /\ x < 2 * p /\ x = r + o + 1
  BY <1>1, <1>2
<1>. HIDE DEF x
<1>4. x % p = IF x < p THEN x ELSE x - p
  BY <1>3, Remainders
<1>5. PairAt(p, k) = <<r, x % p>>
  BY <1>3 DEF PairAt, Measuring!PayerOf, Measuring!PayeeOf, o, r, x
<1>6. o \in 0 .. p - 2
  BY <1>1, <1>2
<1>7. PairAt(p, k) = <<r, IF r + o + 1 < p THEN r + o + 1 ELSE r + o + 1 - p>>
  BY <1>1, <1>3, <1>4, <1>5
<1>. QED
  BY <1>1, <1>6, <1>7

\* The first p pairs are the ring.
LEMMA RingPairs ==
  ASSUME NEW p \in Nat, p >= 3, NEW k \in 0 .. p - 1
  PROVE  PairAt(p, k) = <<k, IF k + 1 < p THEN k + 1 ELSE 0>>
<1>1. k \in Nat /\ k < p /\ k + 1 \in Nat /\ p >= 1
  OBVIOUS
<1>2. k \div p = 0 /\ k % p = k
  BY <1>1, Remainders
<1>3. (k + 1) % p = IF k + 1 < p THEN k + 1 ELSE 0
  <2>1. /\ k + 1 < p => (k + 1) % p = k + 1
        /\ p <= k + 1 /\ k + 1 < 2 * p => (k + 1) % p = (k + 1) - p
    BY <1>1, Remainders
  <2>. QED
    BY <1>1, <2>1
<1>4. (k % p) + (k \div p) + 1 = k + 1
  BY <1>1, <1>2
<1>. QED
  BY <1>2, <1>3, <1>4 DEF PairAt, Measuring!PayerOf, Measuring!PayeeOf

\* A round takes each pair once, nobody is its own payee, and everybody pays.
LEMMA RoundsAreProper ==
  ASSUME NEW p \in Nat, p >= 3, NEW c \in Nat, p <= c, c <= p * (p - 1)
  PROVE  /\ \A q \in Measuring!Pairs(p, c) : q[1] # q[2]
         /\ Measuring!Cardinality(Measuring!Pairs(p, c)) = c
         /\ {q[1] : q \in Measuring!Pairs(p, c)} = 0 .. p - 1
<1>. DEFINE K == 0 .. c - 1
            P == Measuring!Pairs(p, c)
            f == [k \in K |-> PairAt(p, k)]
<1>1. P = {PairAt(p, k) : k \in K}
  BY DEF Measuring!Pairs, PairAt
<1>2. \A k \in K :
        \E o \in 0 .. p - 2, r \in 0 .. p - 1 :
           /\ k = p * o + r
           /\ PairAt(p, k) = <<r, IF r + o + 1 < p THEN r + o + 1 ELSE r + o + 1 - p>>
  <2>1. TAKE k \in K
  <2>2. p >= 1 /\ p * (p - 1) \in Nat
    OBVIOUS
  <2>3. k \in Nat /\ k < p * (p - 1)
    BY <2>2
  <2>. QED
    BY <2>2, <2>3, PairIs
<1>3. \A k \in K : PairAt(p, k)[1] \in 0 .. p - 1 /\ PairAt(p, k)[1] # PairAt(p, k)[2]
  <2>1. TAKE k \in K
  <2>2. PICK o \in 0 .. p - 2, r \in 0 .. p - 1 :
           PairAt(p, k) = <<r, IF r + o + 1 < p THEN r + o + 1 ELSE r + o + 1 - p>>
    BY <1>2
  <2>. QED
    BY <2>2
<1>4. ASSUME NEW k \in K, NEW l \in K, PairAt(p, k) = PairAt(p, l)
      PROVE  k = l
  <2>1. PICK o \in 0 .. p - 2, r \in 0 .. p - 1 :
           /\ k = p * o + r
           /\ PairAt(p, k) = <<r, IF r + o + 1 < p THEN r + o + 1 ELSE r + o + 1 - p>>
    BY <1>2
  <2>2. PICK u \in 0 .. p - 2, t \in 0 .. p - 1 :
           /\ l = p * u + t
           /\ PairAt(p, l) = <<t, IF t + u + 1 < p THEN t + u + 1 ELSE t + u + 1 - p>>
    BY <1>2
  <2>. DEFINE x == IF r + o + 1 < p THEN r + o + 1 ELSE r + o + 1 - p
              y == IF t + u + 1 < p THEN t + u + 1 ELSE t + u + 1 - p
  <2>3. <<r, x>> = <<t, y>>
    BY <1>4, <2>1, <2>2
  <2>4. r = t /\ x = y
    BY <2>3
  <2>5. o = u
    BY <2>4
  <2>. QED
    BY <2>1, <2>2, <2>4, <2>5
<1>5. Cardinality(P) = c
  <2>1. f \in Surjection(K, P) /\ f \in Injection(K, P)
    <3>1. f \in [K -> P]
      BY <1>1
    <3>2. \A k \in K : f[k] = PairAt(p, k)
      OBVIOUS
    <3>3. \A q \in P : \E k \in K : f[k] = q
      BY <1>1, <3>2
    <3>4. \A k, l \in K : f[k] = f[l] => k = l
      BY <1>4, <3>2
    <3>. HIDE DEF f, K, P
    <3>. QED
      BY <3>1, <3>3, <3>4 DEF Surjection, Injection, IsInjective
  <2>2. IsFiniteSet(K) /\ Cardinality(K) = c
    <3>1. 0 \in Int /\ c - 1 \in Int
      OBVIOUS
    <3>2. IsFiniteSet(K) /\ Cardinality(K) = IF 0 > c - 1 THEN 0 ELSE (c - 1) - 0 + 1
      BY <3>1, FS_Interval, Zenon
    <3>3. ~(0 > c - 1) /\ (c - 1) - 0 + 1 = c
      OBVIOUS
    <3>. QED
      BY <3>2, <3>3
  <2>. HIDE DEF f, K, P
  <2>. QED
    BY <2>1, <2>2, FS_Surjection
<1>6. {q[1] : q \in P} = 0 .. p - 1
  <2>1. ASSUME NEW i \in 0 .. p - 1
        PROVE  i \in K /\ PairAt(p, i)[1] = i
    <3>1. PairAt(p, i) = <<i, IF i + 1 < p THEN i + 1 ELSE 0>>
      BY RingPairs
    <3>. QED
      BY <3>1
  <2>. HIDE DEF K, P
  <2>. QED
    BY <1>1, <1>3, <2>1
<1>7. \A q \in P : q[1] # q[2]
  <2>. HIDE DEF K, P
  <2>. QED
    BY <1>1, <1>3
<1>. QED
  BY <1>5, <1>6, <1>7, MeasuringCardinality

-----------------------------------------------------------------------------
(***************************************************************************)
(* The buckets of a cycle.                                                 *)
(***************************************************************************)
\* The number of the first pair whose higher id is h, the pair of two neighbours,
\* and the bucket of a pair.
Triangle(h) == (h * (h - 1)) \div 2
Neighbours(k) == Triangle(k + 1) + k
BucketAt(ordinal) == ordinal \div ChannelSlots

\* One id more brings as many pairs as there are ids below it.
LEMMA Triangles ==
  ASSUME NEW h \in Nat, h >= 1
  PROVE  /\ Triangle(h) \in Nat /\ Triangle(h + 1) \in Nat
         /\ Triangle(h + 1) = Triangle(h) + h
<1>. DEFINE x == h * (h - 1)
<1>1. x \in Nat
  OBVIOUS
<1>2. (h + 1) * ((h + 1) - 1) = x + 2 * h
  OBVIOUS
<1>. HIDE DEF x
<1>3. x \div 2 \in Nat /\ x % 2 \in 0 .. 1 /\ x = 2 * (x \div 2) + (x % 2)
  BY <1>1
<1>4. (x + 2 * h) \div 2 = (x \div 2) + h
  BY <1>1, <1>3
<1>. QED
  BY <1>2, <1>3, <1>4 DEF Triangle, x

\* Neighbours with higher ids come later.
LEMMA NeighboursGrow ==
  ASSUME NEW k \in Nat
  PROVE  /\ Neighbours(k) \in Nat
         /\ \A l \in Nat : l <= k => Neighbours(l) \in Nat /\ Neighbours(l) <= Neighbours(k)
<1>1. \A i \in Nat : Neighbours(i) \in Nat /\ Neighbours(i + 1) = Neighbours(i) + i + 2
  <2>1. TAKE i \in Nat
  <2>2. i + 1 \in Nat /\ i + 1 >= 1
    OBVIOUS
  <2>3. /\ Triangle(i + 1) \in Nat /\ Triangle((i + 1) + 1) = Triangle(i + 1) + (i + 1)
    BY <2>2, Triangles
  <2>. QED
    BY <2>3 DEF Neighbours
<1>. DEFINE T == {n \in Nat : \A l \in Nat : l <= n => Neighbours(l) <= Neighbours(n)}
<1>2. 0 \in T
  BY <1>1
<1>3. \A n \in Nat : n \in T => n + 1 \in T
  <2>1. TAKE n \in Nat
  <2>2. HAVE n \in T
  <2>3. Neighbours(n) \in Nat /\ Neighbours(n + 1) = Neighbours(n) + n + 2
    BY <1>1
  <2>4. ASSUME NEW l \in Nat, l <= n + 1 PROVE Neighbours(l) <= Neighbours(n + 1)
    <3>1. CASE l = n + 1
      BY <1>1, <3>1
    <3>2. CASE l <= n
      <4>1. Neighbours(l) <= Neighbours(n) /\ Neighbours(l) \in Nat
        BY <1>1, <2>2, <3>2
      <4>. QED
        BY <2>3, <4>1
    <3>. QED
      BY <2>4, <3>1, <3>2
  <2>5. n + 1 \in Nat
    OBVIOUS
  <2>. QED
    BY <2>4, <2>5
<1>4. k \in T
  <2>. HIDE DEF T
  <2>. QED
    BY <1>2, <1>3, Induction
<1>. QED
  BY <1>1, <1>4

\* The buckets of the first neighbours, and the one of the pair that closes the ring.
Path(p) == {BucketAt(Neighbours(k)) : k \in 0 .. p - 2}
Closing(p) == BucketAt(Triangle(p - 1))

\* A cycle is in those and in no others.
LEMMA CycleBuckets ==
  ASSUME NEW p \in Nat, p >= 3
  PROVE  BucketsOf(p, p) = Path(p) \cup {Closing(p)}
<1>1. Measuring!Pairs(p, p) = {PairAt(p, k) : k \in 0 .. p - 1}
  BY DEF Measuring!Pairs, PairAt
<1>2. BucketsOf(p, p) = {BucketOf(PairAt(p, k)) : k \in 0 .. p - 1}
  BY <1>1 DEF BucketsOf
<1>3. ASSUME NEW k \in 0 .. p - 2
      PROVE  BucketOf(PairAt(p, k)) = BucketAt(Neighbours(k))
  <2>1. k \in 0 .. p - 1 /\ k + 1 < p /\ k < k + 1
    OBVIOUS
  <2>2. PairAt(p, k) = <<k, k + 1>>
    BY <2>1, RingPairs
  <2>3. Measuring!Lower(k, k + 1) = k /\ Measuring!Higher(k, k + 1) = k + 1
    BY <2>1 DEF Measuring!Lower, Measuring!Higher
  <2>4. BucketOf(<<k, k + 1>>) = Measuring!ChannelBucketId(k, k + 1)
    BY <2>3 DEF BucketOf
  <2>. QED
    BY <2>2, <2>4
    DEF Measuring!ChannelBucketId, Measuring!PairOrdinal, BucketAt, Neighbours, Triangle
<1>4. BucketOf(PairAt(p, p - 1)) = Closing(p)
  <2>1. p - 1 \in 0 .. p - 1 /\ ~((p - 1) + 1 < p) /\ ~(p - 1 < 0) /\ p - 1 \in Nat /\ p - 1 >= 1
    OBVIOUS
  <2>2. PairAt(p, p - 1) = <<p - 1, 0>>
    BY <2>1, RingPairs
  <2>3. Measuring!Lower(p - 1, 0) = 0 /\ Measuring!Higher(p - 1, 0) = p - 1
    BY <2>1 DEF Measuring!Lower, Measuring!Higher
  <2>4. BucketOf(<<p - 1, 0>>) = Measuring!ChannelBucketId(0, p - 1)
    BY <2>3 DEF BucketOf
  <2>5. Triangle(p - 1) + 0 = Triangle(p - 1)
    BY <2>1, Triangles
  <2>. QED
    BY <2>2, <2>4, <2>5
    DEF Measuring!ChannelBucketId, Measuring!PairOrdinal, BucketAt, Closing, Triangle
<1>5. \A k : k \in 0 .. p - 1 <=> k \in 0 .. p - 2 \/ k = p - 1
  OBVIOUS
<1>. QED
  BY <1>2, <1>3, <1>4, <1>5 DEF Path

\* A longer cycle is in no fewer buckets.  Its path goes on; what the closing pair
\* loses, the path gains, because a closing pair with a bucket of its own is the first
\* of that bucket, and the path has left it already.
LEMMA LongerCycles ==
  ASSUME NEW p \in Nat, p >= 3
  PROVE  Measuring!ChannelBuckets(p, p) <= Measuring!ChannelBuckets(p + 1, p + 1)
<1>. DEFINE o == Triangle(p - 1)
            last == Neighbours(p - 2)
            next == Neighbours(p - 1)
<1>1. o \in Nat /\ last \in Nat /\ next \in Nat
      /\ last = o + p - 2 /\ next = last + p
      /\ Neighbours(p - 3) = o - 1 /\ o - 1 \in Nat
  <2>1. p - 2 \in Nat /\ p - 2 >= 1 /\ (p - 2) + 1 = p - 1 /\ p - 1 \in Nat /\ p - 1 >= 1
        /\ (p - 1) + 1 = p /\ (p - 3) + 1 = p - 2
    OBVIOUS
  <2>2. Triangle(p - 2) \in Nat /\ Triangle(p - 1) = Triangle(p - 2) + (p - 2)
    BY <2>1, Triangles
  <2>3. Triangle(p - 1) \in Nat /\ Triangle(p) = Triangle(p - 1) + (p - 1)
    BY <2>1, Triangles
  <2>4. last = Triangle(p - 1) + (p - 2) /\ next = Triangle(p) + (p - 1)
        /\ Neighbours(p - 3) = Triangle(p - 2) + (p - 3)
    BY <2>1 DEF Neighbours
  <2>. QED
    BY <2>1, <2>2, <2>3, <2>4
<1>2. ChannelSlots \in Nat /\ ChannelSlots >= 1
  BY RoundCapacityAssumption
<1>3. Path(p + 1) = Path(p) \cup {BucketAt(next)}
  <2>1. \A k : k \in 0 .. (p + 1) - 2 <=> k \in 0 .. p - 2 \/ k = p - 1
    OBVIOUS
  <2>. QED
    BY <2>1 DEF Path
<1>4. BucketsOf(p, p) = Path(p) \cup {Closing(p)}
  BY CycleBuckets
<1>5. Path(p) \cup {BucketAt(next)} \subseteq BucketsOf(p + 1, p + 1)
  <2>1. p + 1 \in Nat /\ p + 1 >= 3
    OBVIOUS
  <2>. QED
    BY <1>3, <2>1, CycleBuckets
<1>6. /\ IsFiniteSet(BucketsOf(p, p)) /\ Measuring!ChannelBuckets(p, p) = Cardinality(BucketsOf(p, p))
      /\ IsFiniteSet(BucketsOf(p + 1, p + 1))
      /\ Measuring!ChannelBuckets(p + 1, p + 1) = Cardinality(BucketsOf(p + 1, p + 1))
  <2>1. p + 1 \in Nat
    OBVIOUS
  <2>. QED
    BY <2>1, BucketsAreFinite
<1>7. CASE Closing(p) \in Path(p)
  <2>1. BucketsOf(p, p) \subseteq BucketsOf(p + 1, p + 1)
    BY <1>4, <1>5, <1>7
  <2>. QED
    BY <1>6, <2>1, FS_Subset
<1>8. CASE Closing(p) \notin Path(p)
  <2>. DEFINE before == BucketAt(o - 1)
              first == BucketAt(o)
  <2>1. before \in Path(p) /\ BucketAt(last) \in Path(p)
    <3>1. p - 3 \in 0 .. p - 2 /\ p - 2 \in 0 .. p - 2
      OBVIOUS
    <3>. QED
      BY <1>1, <3>1 DEF Path
  <2>2. first # before /\ first # BucketAt(last)
    BY <1>8, <2>1 DEF Closing
  <2>3. p >= ChannelSlots
    <3>1. SUFFICES ASSUME p + 1 <= ChannelSlots PROVE FALSE
      BY <1>2
    <3>. PICK s \in Nat : s = ChannelSlots /\ s >= 1 /\ p + 1 <= s
      BY <1>2, <3>1
    <3>2. PICK q \in Nat, r \in Nat : q = first /\ r <= s - 1 /\ o = s * q + r
      <4>1. o \div s \in Nat /\ o % s \in 0 .. s - 1 /\ o = s * (o \div s) + (o % s)
        BY <1>1, Division
      <4>. QED
        BY <4>1 DEF BucketAt
    <3>3. \A t \in 0 .. s - 1 : (s * q + t) \div s = q
      BY DivisionUnique
    <3>4. s * q \in Nat
      BY <3>2
    <3>5. r = 0
      <4>1. SUFFICES ASSUME r >= 1 PROVE FALSE
        BY <3>2
      <4>2. r - 1 \in 0 .. s - 1 /\ s * q + (r - 1) = o - 1
        BY <1>1, <3>2, <3>4, <4>1
      <4>3. (s * q + (r - 1)) \div s = q
        BY <3>3, <4>2
      <4>. QED
        BY <2>2, <3>2, <4>2, <4>3 DEF BucketAt
    <3>6. p - 2 \in 0 .. s - 1 /\ s * q + (p - 2) = last
      BY <1>1, <3>2, <3>4, <3>5
    <3>7. (s * q + (p - 2)) \div s = q
      BY <3>3, <3>6
    <3>. QED
      BY <2>2, <3>2, <3>6, <3>7 DEF BucketAt
  <2>4. BucketAt(next) \notin Path(p)
    <3>1. ASSUME NEW k \in 0 .. p - 2 PROVE BucketAt(Neighbours(k)) # BucketAt(next)
      <4>1. k \in Nat /\ p - 2 \in Nat /\ k <= p - 2
        OBVIOUS
      <4>2. Neighbours(k) \in Nat /\ Neighbours(k) <= last
        BY <4>1, NeighboursGrow
      <4>. PICK n \in Nat : n = Neighbours(k) /\ n + ChannelSlots <= next
        BY <1>1, <1>2, <2>3, <4>2
      <4>. HIDE DEF next
      <4>3. n \div ChannelSlots \in Nat /\ next \div ChannelSlots \in Nat
            /\ n \div ChannelSlots < next \div ChannelSlots
        BY <1>1, <1>2, QuotientsGrow
      <4>. QED
        BY <4>3 DEF BucketAt
    <3>. QED
      BY <3>1 DEF Path
  <2>5. IsFiniteSet(Path(p))
    BY <1>4, <1>6, FS_Subset
  <2>6. Cardinality(Path(p) \cup {Closing(p)}) = Cardinality(Path(p) \cup {BucketAt(next)})
    <3>1. \A x : x \notin Path(p) => Cardinality(Path(p) \cup {x}) = Cardinality(Path(p)) + 1
      BY <2>5, FS_AddElement
    <3>. QED
      BY <1>8, <2>4, <3>1
  <2>7. Cardinality(Path(p) \cup {BucketAt(next)}) <= Cardinality(BucketsOf(p + 1, p + 1))
    BY <1>5, <1>6, FS_Subset
  <2>. QED
    BY <1>4, <1>6, <2>6, <2>7
<1>. QED
  BY <1>7, <1>8

-----------------------------------------------------------------------------
(***************************************************************************)
(* The capacity searches.                                                  *)
(***************************************************************************)
\* With the same participants, a round of fewer channels needs no more bytes.
LEMMA FewerChannelsFit ==
  ASSUME NEW p \in Nat, p >= 3, NEW c \in Nat, NEW d \in Nat, c <= d, NEW table \in BOOLEAN
  PROVE  /\ Measuring!RoundBytes(table, p, c) \in Int
         /\ Measuring!RoundBytes(table, p, d) \in Int
         /\ Measuring!RoundBytes(table, p, c) <= Measuring!RoundBytes(table, p, d)
<1>1. Measuring!ParticipantBuckets(p) \in Nat
  BY ParticipantsGrow
<1>2. /\ Measuring!ChannelBuckets(p, c) \in Nat /\ Measuring!ChannelBuckets(p, d) \in Nat
      /\ Measuring!ChannelBuckets(p, c) <= Measuring!ChannelBuckets(p, d)
  BY BucketsAreFinite, MoreChannels
<1>3. /\ Measuring!Buckets(p, c) \in Int /\ Measuring!Buckets(p, d) \in Int
      /\ Measuring!Buckets(p, c) <= Measuring!Buckets(p, d)
  BY <1>1, <1>2 DEF Measuring!Buckets
<1>4. /\ Measuring!RoundMessage(p, c) \in Int /\ Measuring!RoundMessage(p, d) \in Int
      /\ Measuring!RoundMessage(p, c) <= Measuring!RoundMessage(p, d)
  BY MessagesGrow
<1>. QED
  BY <1>3, <1>4, RoundsGrow

\* A shorter cycle needs no more bytes.
LEMMA ShorterCyclesFit ==
  ASSUME NEW m \in Nat, m >= 3, NEW n \in Nat, m <= n, NEW table \in BOOLEAN
  PROVE  /\ Measuring!RoundBytes(table, m, m) \in Int
         /\ Measuring!RoundBytes(table, n, n) \in Int
         /\ Measuring!RoundBytes(table, m, m) <= Measuring!RoundBytes(table, n, n)
<1>. DEFINE bytes(p) == Measuring!RoundBytes(table, p, p)
            T == {i \in Nat : bytes(m) <= bytes(m + i)}
<1>1. ASSUME NEW p \in Nat, p >= 3
      PROVE  bytes(p) \in Int /\ bytes(p + 1) \in Int /\ bytes(p) <= bytes(p + 1)
  <2>1. p + 1 \in Nat /\ p >= 1 /\ p <= p + 1
    BY <1>1
  <2>2. /\ Measuring!ParticipantBuckets(p) \in Nat /\ Measuring!ParticipantBuckets(p + 1) \in Nat
        /\ Measuring!ParticipantBuckets(p) <= Measuring!ParticipantBuckets(p + 1)
    BY <2>1, ParticipantsGrow
  <2>3. /\ Measuring!ChannelBuckets(p, p) \in Nat
        /\ Measuring!ChannelBuckets(p + 1, p + 1) \in Nat
    BY <2>1, BucketsAreFinite
  <2>4. Measuring!ChannelBuckets(p, p) <= Measuring!ChannelBuckets(p + 1, p + 1)
    BY <1>1, LongerCycles
  <2>5. /\ Measuring!Buckets(p, p) \in Int /\ Measuring!Buckets(p + 1, p + 1) \in Int
        /\ Measuring!Buckets(p, p) <= Measuring!Buckets(p + 1, p + 1)
    BY <2>2, <2>3, <2>4 DEF Measuring!Buckets
  <2>6. /\ Measuring!RoundMessage(p, p) \in Int
        /\ Measuring!RoundMessage(p + 1, p + 1) \in Int
        /\ Measuring!RoundMessage(p, p) <= Measuring!RoundMessage(p + 1, p + 1)
    BY <2>1, MessagesGrow
  <2>. QED
    BY <2>5, <2>6, RoundsGrow
<1>. HIDE DEF bytes
<1>2. 0 \in T
  <2>1. m + 0 = m /\ bytes(m) \in Int
    BY <1>1
  <2>. QED
    BY <2>1
<1>3. \A i \in Nat : i \in T => i + 1 \in T
  <2>1. TAKE i \in Nat
  <2>2. HAVE i \in T
  <2>3. m + i \in Nat /\ m + i >= 3 /\ (m + i) + 1 = m + (i + 1) /\ i + 1 \in Nat
    OBVIOUS
  <2>4. bytes(m + i) \in Int /\ bytes(m + (i + 1)) \in Int /\ bytes(m + i) <= bytes(m + (i + 1))
    BY <1>1, <2>3
  <2>5. bytes(m) \in Int /\ bytes(m) <= bytes(m + i)
    BY <1>1, <2>2
  <2>. QED
    BY <2>3, <2>4, <2>5
<1>4. n - m \in T
  <2>1. n - m \in Nat
    OBVIOUS
  <2>. HIDE DEF T
  <2>. QED
    BY <1>2, <1>3, <2>1, Induction
<1>5. m + (n - m) = n /\ n >= 3
  OBVIOUS
<1>6. bytes(m) <= bytes(n)
  BY <1>4, <1>5
<1>7. bytes(m) \in Int /\ bytes(n) \in Int
  BY <1>1, <1>5
<1>. QED
  BY <1>6, <1>7 DEF bytes

\* Cycles and bundles grow by one: what has come is what fits, and the smallest is
\* kept whether it fits or not.
GrowingInvariant ==
  search.kind # "overall" =>
    LET smallest == Measuring!Smallest[search.kind]
    IN  /\ size = Measuring!Shape(size.p, size.p)
        /\ size.p \in Nat /\ smallest.p < size.p /\ size.p <= Measuring!Limit + 1
        /\ largest = Measuring!Shape(size.p - 1, size.p - 1)
        /\ largest = smallest \/ Measuring!FitsInto(largest)
        /\ done => size.p > Measuring!Limit \/ ~Measuring!FitsInto(size)

\* Rounds: none that fits and that was passed is better than the best so far.
Passed(s) == s.p < size.p \/ (s.p = size.p /\ s.c < size.c)
SweepingInvariant ==
  search.kind = "overall" =>
    /\ size = Measuring!Shape(size.p, size.c)
    /\ size.p \in Nat /\ size.p >= 3 /\ size.c \in Nat
    /\ size.p <= size.c /\ size.c <= Measuring!MaxChannels(size.p)
    /\ largest \in Measuring!Fitting \cup {Measuring!Shape(3, 3)}
    /\ \A s \in Measuring!Fitting : Passed(s) => ~Measuring!Better(s, largest)
    /\ done => size.p > MaxParticipants

CapacityInvariant ==
  /\ search \in Measuring!Searches /\ done \in BOOLEAN
  /\ GrowingInvariant /\ SweepingInvariant

\* What the searches are.
LEMMA SearchKinds ==
  ASSUME search \in Measuring!Searches
  PROVE  /\ search.kind \in {"cycle", "overall", "bundle"}
         /\ search.table \in BOOLEAN /\ search.packet \in Int
         /\ search.kind = "bundle" => search.message \in Nat
         /\ MaxParticipants \in Nat /\ MaxParticipants >= 3 /\ MaxParticipants <= 256
         /\ MaxEntries \in Nat /\ MaxEntries >= 1
<1>1. /\ PacketSizes \subseteq Nat /\ MessageLengths \subseteq Nat
      /\ MaxParticipants \in 3 .. 256 /\ MaxEntries \in Nat \ {0}
  BY RoundCapacityAssumption DEF Measuring!CapacityAssumption
<1>2. \/ search \in [kind : {"cycle", "overall"}, table : BOOLEAN, packet : PacketSizes, message : {0}]
      \/ search \in [kind : {"bundle"}, table : {TRUE}, packet : PacketSizes, message : MessageLengths]
  BY DEF Measuring!Searches
<1>3. /\ search.kind \in {"cycle", "overall", "bundle"}
      /\ search.table \in BOOLEAN /\ search.packet \in PacketSizes
      /\ search.kind = "bundle" => search.message \in MessageLengths
  <2>1. CASE search \in [kind : {"cycle", "overall"}, table : BOOLEAN,
                         packet : PacketSizes, message : {0}]
    BY <2>1
  <2>2. CASE search \in [kind : {"bundle"}, table : {TRUE}, packet : PacketSizes,
                         message : MessageLengths]
    BY <2>2
  <2>. QED
    BY <1>2, <2>1, <2>2
<1>4. search.packet \in Int
  <2>1. \A n \in PacketSizes : n \in Nat
    BY <1>1
  <2>. QED
    BY <1>3, <2>1
<1>6. search.kind = "bundle" => search.message \in Nat
  <2>1. \A n \in MessageLengths : n \in Nat
    BY <1>1
  <2>. QED
    BY <1>3, <2>1
<1>5. /\ MaxParticipants \in Nat /\ MaxParticipants >= 3 /\ MaxParticipants <= 256
      /\ MaxEntries \in Nat /\ MaxEntries >= 1
  BY <1>1
<1>. QED
  BY <1>3, <1>4, <1>5, <1>6

\* Smaller cycles and bundles fit where larger ones do.
LEMMA GrowingFits ==
  ASSUME search \in Measuring!Searches, search.kind # "overall",
         NEW m \in Nat, Measuring!Smallest[search.kind].p <= m, NEW n \in Nat, m <= n,
         Measuring!FitsInto(Measuring!Shape(n, n))
  PROVE  Measuring!FitsInto(Measuring!Shape(m, m))
<1>1. CASE search.kind = "bundle"
  <2>1. /\ Measuring!BundleBytes(m, search.message) \in Int
        /\ Measuring!BundleBytes(n, search.message) \in Int
        /\ Measuring!BundleBytes(m, search.message) <= Measuring!BundleBytes(n, search.message)
    BY <1>1, SearchKinds, BundlesGrow
  <2>. QED
    BY <1>1, <2>1, SearchKinds DEF Measuring!FitsInto, Measuring!Bytes, Measuring!Shape
<1>2. CASE search.kind = "cycle"
  <2>1. m >= 3
    BY <1>2 DEF Measuring!Smallest, Measuring!Shape
  <2>2. /\ Measuring!RoundBytes(search.table, m, m) \in Int
        /\ Measuring!RoundBytes(search.table, n, n) \in Int
        /\ Measuring!RoundBytes(search.table, m, m) <= Measuring!RoundBytes(search.table, n, n)
    BY <2>1, SearchKinds, ShorterCyclesFit
  <2>. QED
    BY <1>2, <2>2, SearchKinds DEF Measuring!FitsInto, Measuring!Bytes, Measuring!Shape
<1>. QED
  BY <1>1, <1>2, SearchKinds

\* The shapes that a search can choose.
LEMMA GrowingShapes ==
  ASSUME search \in Measuring!Searches, search.kind # "overall"
  PROVE  LET least == Measuring!Smallest[search.kind].p
         IN  /\ least \in Nat /\ least <= Measuring!Limit /\ Measuring!Limit \in Nat
             /\ Measuring!Smallest[search.kind] = Measuring!Shape(least, least)
             /\ Measuring!Shapes = {Measuring!Shape(n, n) : n \in least .. Measuring!Limit}
<1>1. CASE search.kind = "bundle"
  BY <1>1, SearchKinds DEF Measuring!Smallest, Measuring!Shape, Measuring!Shapes, Measuring!Limit
<1>2. CASE search.kind = "cycle"
  BY <1>2, SearchKinds DEF Measuring!Smallest, Measuring!Shape, Measuring!Shapes, Measuring!Limit
<1>. QED
  BY <1>1, <1>2, SearchKinds

\* And those of the search for rounds.
LEMMA SweepingShapes ==
  ASSUME search \in Measuring!Searches, search.kind = "overall", NEW p, NEW c
  PROVE  Measuring!Shape(p, c) \in Measuring!Shapes <=>
           /\ p \in 3 .. MaxParticipants
           /\ c \in p .. Measuring!MaxChannels(p)
<1>1. Measuring!Shapes =
        UNION {{Measuring!Shape(a, b) : b \in a .. Measuring!MaxChannels(a)} :
                 a \in 3 .. MaxParticipants}
  BY DEF Measuring!Shapes
<1>2. \A a, b : Measuring!Shape(a, b) = Measuring!Shape(p, c) <=> a = p /\ b = c
  BY DEF Measuring!Shape
<1>. QED
  BY <1>1, <1>2

\* The searches start with the smallest shape.
LEMMA MeasuringStarts ==
  ASSUME Measuring!Init
  PROVE  CapacityInvariant
<1>1. /\ search \in Measuring!Searches /\ done = FALSE
      /\ size = Measuring!First[search.kind] /\ largest = Measuring!Smallest[search.kind]
  BY DEF Measuring!Init
<1>2. GrowingInvariant
  <2>1. SUFFICES ASSUME search.kind # "overall"
                 PROVE  GrowingInvariant!2
    BY DEF GrowingInvariant
  <2>2. CASE search.kind = "cycle"
    <3>1. size = Measuring!Shape(4, 4) /\ largest = Measuring!Shape(3, 3)
          /\ Measuring!Smallest[search.kind] = Measuring!Shape(3, 3)
          /\ Measuring!Limit = MaxParticipants
      BY <1>1, <2>2 DEF Measuring!First, Measuring!Smallest, Measuring!Limit
    <3>. QED
      BY <1>1, <3>1, SearchKinds DEF Measuring!Shape
  <2>3. CASE search.kind = "bundle"
    <3>1. size = Measuring!Shape(2, 2) /\ largest = Measuring!Shape(1, 1)
          /\ Measuring!Smallest[search.kind] = Measuring!Shape(1, 1)
          /\ Measuring!Limit = MaxEntries
      BY <1>1, <2>3 DEF Measuring!First, Measuring!Smallest, Measuring!Limit
    <3>. QED
      BY <1>1, <3>1, SearchKinds DEF Measuring!Shape
  <2>. QED
    BY <1>1, <2>1, <2>2, <2>3, SearchKinds
<1>3. SweepingInvariant
  <2>1. SUFFICES ASSUME search.kind = "overall"
                 PROVE  SweepingInvariant!2
    BY DEF SweepingInvariant
  <2>2. size = Measuring!Shape(3, 3) /\ largest = Measuring!Shape(3, 3)
    BY <1>1, <2>1 DEF Measuring!First, Measuring!Smallest
  <2>3. size.p = 3 /\ size.c = 3
    BY <2>2 DEF Measuring!Shape
  <2>4. Measuring!MaxChannels(3) = 6
    BY DEF Measuring!MaxChannels
  <2>5. ASSUME NEW s \in Measuring!Fitting, Passed(s)
        PROVE  FALSE
    <3>1. PICK p \in 3 .. MaxParticipants : \E c \in p .. Measuring!MaxChannels(p) :
                 s = Measuring!Shape(p, c)
      BY <2>1, <2>5 DEF Measuring!Fitting, Measuring!Shapes
    <3>2. PICK c \in p .. Measuring!MaxChannels(p) : s = Measuring!Shape(p, c)
      BY <3>1
    <3>3. s.p = p /\ s.c = c
      BY <3>2 DEF Measuring!Shape
    <3>. QED
      BY <2>3, <2>5, <3>3 DEF Passed
  <2>. QED
    BY <1>1, <2>2, <2>3, <2>4, <2>5
<1>. QED
  BY <1>1, <1>2, <1>3 DEF CapacityInvariant

\* A cycle or bundle more.
LEMMA GrowStep ==
  ASSUME CapacityInvariant, Measuring!Grow
  PROVE  CapacityInvariant'
<1>1. /\ search \in Measuring!Searches /\ search' = search /\ done = FALSE
      /\ search.kind # "overall" /\ size.p <= Measuring!Limit
  BY DEF CapacityInvariant, Measuring!Grow
<1>. DEFINE k == size.p
            least == Measuring!Smallest[search.kind].p
<1>2. /\ size = Measuring!Shape(k, k) /\ k \in Nat /\ least < k /\ k <= Measuring!Limit + 1
      /\ largest = Measuring!Shape(k - 1, k - 1)
      /\ largest = Measuring!Smallest[search.kind] \/ Measuring!FitsInto(largest)
  BY <1>1 DEF CapacityInvariant, GrowingInvariant
<1>3. Measuring!Limit' = Measuring!Limit /\ Measuring!Limit \in Nat
  BY <1>1, GrowingShapes DEF Measuring!Limit
<1>5. CASE Measuring!FitsInto(size)
  <2>1. largest' = size /\ size' = Measuring!Shape(k + 1, k + 1) /\ done' = FALSE
    BY <1>1, <1>5 DEF Measuring!Grow
  <2>2. size'.p = k + 1 /\ size' = Measuring!Shape(size'.p, size'.p)
    BY <2>1 DEF Measuring!Shape
  <2>3. (k + 1) - 1 = k /\ k + 1 \in Nat /\ least < k + 1 /\ k + 1 <= Measuring!Limit + 1
    <3>1. least \in Nat
      BY <1>1, GrowingShapes
    <3>. HIDE DEF least, k
    <3>. QED
      BY <1>1, <1>2, <1>3, <3>1 DEF k
  <2>4. largest' = Measuring!Shape(size'.p - 1, size'.p - 1)
    BY <1>2, <2>1, <2>2, <2>3
  <2>5. Measuring!FitsInto(largest)'
    BY <1>1, <1>5, <2>1 DEF Measuring!FitsInto, Measuring!Bytes
  <2>6. Measuring!Smallest[search.kind]' = Measuring!Smallest[search.kind]
    BY <1>1
  <2>. QED
    BY <1>1, <1>3, <2>1, <2>2, <2>3, <2>4, <2>5, <2>6
    DEF CapacityInvariant, GrowingInvariant, SweepingInvariant
<1>6. CASE ~Measuring!FitsInto(size)
  <2>1. largest' = largest /\ size' = size /\ done' = TRUE
    BY <1>1, <1>6 DEF Measuring!Grow
  <2>2. ~Measuring!FitsInto(size)'
    BY <1>1, <1>6, <2>1 DEF Measuring!FitsInto, Measuring!Bytes
  <2>3. Measuring!FitsInto(largest)' <=> Measuring!FitsInto(largest)
    BY <1>1, <2>1 DEF Measuring!FitsInto, Measuring!Bytes
  <2>. QED
    BY <1>1, <1>2, <1>3, <2>1, <2>2, <2>3
    DEF CapacityInvariant, GrowingInvariant, SweepingInvariant
<1>. QED
  BY <1>5, <1>6

\* The search is over.
LEMMA FinishStep ==
  ASSUME CapacityInvariant, Measuring!Finish
  PROVE  CapacityInvariant'
<1>1. /\ search' = search /\ size' = size /\ largest' = largest /\ done' = TRUE
      /\ size.p > Measuring!Limit
  BY DEF Measuring!Finish
<1>2. /\ Measuring!Limit' = Measuring!Limit /\ Measuring!Fitting' = Measuring!Fitting
      /\ Measuring!FitsInto(largest)' <=> Measuring!FitsInto(largest)
  BY <1>1 DEF Measuring!Limit, Measuring!Fitting, Measuring!Shapes, Measuring!FitsInto,
              Measuring!Bytes
<1>3. GrowingInvariant'
  BY <1>1, <1>2 DEF CapacityInvariant, GrowingInvariant
<1>4. SweepingInvariant'
  <2>1. search.kind = "overall" => Measuring!Limit = MaxParticipants
    BY DEF Measuring!Limit
  <2>2. \A s : Passed(s)' <=> Passed(s)
    BY <1>1 DEF Passed
  <2>. QED
    BY <1>1, <1>2, <2>1, <2>2 DEF CapacityInvariant, SweepingInvariant
<1>. QED
  BY <1>1, <1>3, <1>4 DEF CapacityInvariant

\* One round more, or the next row.
LEMMA SweepStep ==
  ASSUME CapacityInvariant, Measuring!Sweep
  PROVE  CapacityInvariant'
<1>1. /\ search \in Measuring!Searches /\ search' = search /\ done = FALSE /\ done' = FALSE
      /\ search.kind = "overall" /\ size.p <= MaxParticipants
  BY DEF CapacityInvariant, Measuring!Sweep
<1>. DEFINE p == size.p
            c == size.c
            row == Measuring!Shape(p + 1, p + 1)
<1>2. /\ size = Measuring!Shape(p, c) /\ p \in Nat /\ p >= 3 /\ c \in Nat
      /\ p <= c /\ c <= Measuring!MaxChannels(p)
      /\ largest \in Measuring!Fitting \cup {Measuring!Shape(3, 3)}
      /\ \A s \in Measuring!Fitting : Passed(s) => ~Measuring!Better(s, largest)
  BY <1>1 DEF CapacityInvariant, SweepingInvariant
<1>3. Measuring!Fitting' = Measuring!Fitting
  BY <1>1 DEF Measuring!Fitting, Measuring!Shapes, Measuring!FitsInto, Measuring!Bytes
<1>4. \A s \in Measuring!Fitting :
        /\ s = Measuring!Shape(s.p, s.c) /\ s.p \in Nat /\ s.c \in Nat
        /\ s.p >= 3 /\ s.p <= MaxParticipants /\ s.p <= s.c /\ s.c <= Measuring!MaxChannels(s.p)
        /\ Measuring!RoundBytes(search.table, s.p, s.c) <= search.packet
  <2>1. TAKE s \in Measuring!Fitting
  <2>2. s \in Measuring!Shapes /\ Measuring!FitsInto(s)
    BY DEF Measuring!Fitting
  <2>3. PICK a \in 3 .. MaxParticipants : \E b \in a .. Measuring!MaxChannels(a) :
               s = Measuring!Shape(a, b)
    BY <1>1, <2>2 DEF Measuring!Shapes
  <2>4. PICK b \in a .. Measuring!MaxChannels(a) : s = Measuring!Shape(a, b)
    BY <2>3
  <2>5. s.p = a /\ s.c = b
    BY <2>4 DEF Measuring!Shape
  <2>6. Measuring!RoundBytes(search.table, s.p, s.c) <= search.packet
    BY <1>1, <2>2 DEF Measuring!FitsInto, Measuring!Bytes
  <2>7. Measuring!MaxChannels(a) \in Int
    BY DEF Measuring!MaxChannels
  <2>. QED
    BY <2>4, <2>5, <2>6, <2>7, SearchKinds, <1>1
<1>5. largest.p \in Nat /\ largest.c \in Nat
  BY <1>2, <1>4 DEF Measuring!Shape
<1>6. /\ row.p = p + 1 /\ row.c = p + 1 /\ row.p \in Nat /\ row.p >= 3
      /\ row = Measuring!Shape(row.p, row.c) /\ row.c <= Measuring!MaxChannels(row.p)
  <2>1. (p + 1) * p >= p + 1
    BY <1>2
  <2>2. (p + 1) - 1 = p
    BY <1>2
  <2>. QED
    BY <1>2, <2>1, <2>2 DEF Measuring!Shape, Measuring!MaxChannels
<1>. HIDE DEF p, c, row
<1>7. p <= MaxParticipants /\ MaxParticipants \in Nat
  BY <1>1, SearchKinds DEF p
<1>8. CASE Measuring!FitsInto(size)
  <2>1. size \in Measuring!Fitting
    <3>1. Measuring!Shape(p, c) \in Measuring!Shapes
      BY <1>1, <1>2, <1>7, SweepingShapes DEF Measuring!MaxChannels
    <3>. QED
      BY <1>2, <1>8, <3>1 DEF Measuring!Fitting
  <2>2. /\ largest' = IF Measuring!Better(size, largest) THEN size ELSE largest
        /\ size' = IF c < Measuring!MaxChannels(p) THEN Measuring!Shape(p, c + 1) ELSE row
    BY <1>8 DEF Measuring!Sweep, Measuring!NextRow, p, c, row
  <2>3. largest' \in Measuring!Fitting \cup {Measuring!Shape(3, 3)}
    BY <1>2, <2>1, <2>2
  <2>4. /\ size' = Measuring!Shape(size'.p, size'.c) /\ size'.p \in Nat /\ size'.p >= 3
        /\ size'.c \in Nat /\ size'.p <= size'.c /\ size'.c <= Measuring!MaxChannels(size'.p)
    <3>1. CASE c < Measuring!MaxChannels(p)
      <4>1. size'.p = p /\ size'.c = c + 1 /\ size' = Measuring!Shape(p, c + 1)
        BY <2>2, <3>1 DEF Measuring!Shape
      <4>2. Measuring!MaxChannels(p) \in Int
        BY <1>2 DEF Measuring!MaxChannels
      <4>. QED
        BY <1>2, <3>1, <4>1, <4>2
    <3>2. CASE ~(c < Measuring!MaxChannels(p))
      BY <1>6, <2>2, <3>2
    <3>. QED
      BY <3>1, <3>2
  <2>5. ASSUME NEW s \in Measuring!Fitting, s.p < size'.p \/ (s.p = size'.p /\ s.c < size'.c)
        PROVE  Passed(s) \/ s = size
    <3>1. /\ s = Measuring!Shape(s.p, s.c) /\ s.p \in Nat /\ s.c \in Nat
          /\ s.p <= s.c /\ s.c <= Measuring!MaxChannels(s.p)
      BY <1>4
    <3>2. s.p < p \/ (s.p = p /\ s.c < c) \/ (s.p = p /\ s.c = c)
      <4>1. CASE c < Measuring!MaxChannels(p)
        <5>1. size'.p = p /\ size'.c = c + 1
          BY <2>2, <4>1 DEF Measuring!Shape
        <5>. QED
          BY <1>2, <2>5, <3>1, <5>1
      <4>2. CASE ~(c < Measuring!MaxChannels(p))
        <5>1. size'.p = p + 1 /\ size'.c = p + 1
          BY <1>6, <2>2, <4>2
        <5>2. s.p <= p
          BY <1>2, <2>5, <3>1, <5>1
        <5>3. Measuring!MaxChannels(p) \in Int /\ c = Measuring!MaxChannels(p)
          BY <1>2, <4>2 DEF Measuring!MaxChannels
        <5>4. s.p = p => s.c <= c
          BY <3>1, <5>3
        <5>. QED
          BY <1>2, <3>1, <5>2, <5>4
      <4>. QED
        BY <4>1, <4>2
    <3>. QED
      BY <1>2, <3>1, <3>2 DEF Passed, p, c
  <2>6. \A s \in Measuring!Fitting : Passed(s)' => ~Measuring!Better(s, largest')
    <3>1. TAKE s \in Measuring!Fitting
    <3>2. HAVE Passed(s)'
    <3>3. Passed(s) \/ s = size
      BY <2>5, <3>2 DEF Passed
    <3>4. /\ s.p \in Nat /\ s.c \in Nat /\ largest.p \in Nat /\ largest.c \in Nat
          /\ size.p \in Nat /\ size.c \in Nat
      BY <1>2, <1>4, <1>5 DEF p, c
    <3>5. CASE Passed(s)
      <4>1. ~Measuring!Better(s, largest)
        BY <1>2, <3>5
      <4>. QED
        BY <2>2, <3>4, <4>1 DEF Measuring!Better
    <3>6. CASE s = size
      BY <2>2, <3>4, <3>6 DEF Measuring!Better
    <3>. QED
      BY <3>3, <3>5, <3>6
  <2>. QED
    BY <1>1, <1>3, <2>3, <2>4, <2>6 DEF CapacityInvariant, GrowingInvariant, SweepingInvariant
<1>9. CASE ~Measuring!FitsInto(size)
  <2>1. largest' = largest /\ size' = row
    BY <1>9 DEF Measuring!Sweep, Measuring!NextRow, p, row
  <2>2. ASSUME NEW s \in Measuring!Fitting, Passed(s)'
        PROVE  Passed(s)
    <3>1. /\ s.p \in Nat /\ s.c \in Nat /\ s.p <= s.c
          /\ Measuring!RoundBytes(search.table, s.p, s.c) <= search.packet
      BY <1>4
    <3>2. s.p <= p
      BY <1>2, <1>6, <2>1, <2>2, <3>1 DEF Passed
    <3>3. CASE s.p < p
      BY <3>3 DEF Passed, p
    <3>4. CASE s.p = p
      <4>1. SUFFICES ASSUME c <= s.c PROVE FALSE
        BY <1>2, <3>1, <3>4 DEF Passed, p, c
      <4>2. search.table \in BOOLEAN /\ search.packet \in Int
        BY <1>1, SearchKinds
      <4>3. /\ Measuring!RoundBytes(search.table, p, c) \in Int
            /\ Measuring!RoundBytes(search.table, p, s.c) \in Int
            /\ Measuring!RoundBytes(search.table, p, c) <= Measuring!RoundBytes(search.table, p, s.c)
        BY <1>2, <3>1, <4>1, <4>2, FewerChannelsFit
      <4>4. Measuring!RoundBytes(search.table, p, c) <= search.packet
        BY <3>1, <3>4, <4>2, <4>3
      <4>. QED
        BY <1>1, <1>9, <4>4 DEF Measuring!FitsInto, Measuring!Bytes, p, c
    <3>. QED
      BY <1>2, <3>1, <3>2, <3>3, <3>4
  <2>3. \A s \in Measuring!Fitting : Passed(s)' => ~Measuring!Better(s, largest')
    BY <1>2, <2>1, <2>2
  <2>4. /\ size' = Measuring!Shape(size'.p, size'.c) /\ size'.p \in Nat /\ size'.p >= 3
        /\ size'.c \in Nat /\ size'.p <= size'.c /\ size'.c <= Measuring!MaxChannels(size'.p)
    BY <1>6, <2>1
  <2>. QED
    BY <1>1, <1>2, <1>3, <2>1, <2>3, <2>4
    DEF CapacityInvariant, GrowingInvariant, SweepingInvariant
<1>. QED
  BY <1>8, <1>9

\* Every step of a capacity search.
LEMMA MeasuringStep ==
  ASSUME CapacityInvariant, Measuring!Next \/ UNCHANGED <<search, size, largest, done>>
  PROVE  CapacityInvariant'
<1>1. CASE UNCHANGED <<search, size, largest, done>>
  BY <1>1
  DEF CapacityInvariant, GrowingInvariant, SweepingInvariant, Passed, Measuring!Limit,
      Measuring!FitsInto, Measuring!Bytes, Measuring!Fitting, Measuring!Shapes
<1>. QED
  BY <1>1, GrowStep, SweepStep, FinishStep DEF Measuring!Next

\* What a finished search has found.
LEMMA CapacityFound ==
  ASSUME CapacityInvariant
  PROVE  Measuring!SearchFindsTheLargest
<1>1. search \in Measuring!Searches
  BY DEF CapacityInvariant
<1>2. SUFFICES ASSUME done
               PROVE  /\ Measuring!Fitting = {} =>
                           /\ largest = Measuring!Smallest[search.kind]
                           /\ ~Measuring!FitsInto(largest)
                      /\ Measuring!Fitting # {} =>
                           /\ largest \in Measuring!Fitting
                           /\ ~\E s \in Measuring!Fitting :
                                  s.c > largest.c \/ (s.c = largest.c /\ s.p > largest.p)
  BY DEF Measuring!SearchFindsTheLargest
<1>3. CASE search.kind # "overall"
  <2>. DEFINE k == size.p
              low1 == Measuring!Smallest[search.kind].p
              top == Measuring!Limit
  <2>1. /\ size = Measuring!Shape(k, k) /\ k \in Nat /\ low1 < k /\ k <= top + 1
        /\ largest = Measuring!Shape(k - 1, k - 1)
        /\ largest = Measuring!Smallest[search.kind] \/ Measuring!FitsInto(largest)
        /\ k > top \/ ~Measuring!FitsInto(size)
    BY <1>2, <1>3 DEF CapacityInvariant, GrowingInvariant
  <2>2. /\ low1 \in Nat /\ low1 <= top /\ top \in Nat
        /\ Measuring!Smallest[search.kind] = Measuring!Shape(low1, low1)
        /\ Measuring!Shapes = {Measuring!Shape(n, n) : n \in low1 .. top}
    BY <1>1, <1>3, GrowingShapes
  <2>. HIDE DEF k, low1, top
  <2>3. k - 1 \in low1 .. top
    BY <2>1, <2>2
  <2>4. largest \in Measuring!Shapes
    BY <2>1, <2>2, <2>3
  <2>5. Measuring!Fitting = {} =>
          largest = Measuring!Smallest[search.kind] /\ ~Measuring!FitsInto(largest)
    BY <2>1, <2>4 DEF Measuring!Fitting
  <2>6. ASSUME NEW s \in Measuring!Fitting
        PROVE  /\ largest \in Measuring!Fitting
               /\ ~(s.c > largest.c \/ (s.c = largest.c /\ s.p > largest.p))
    <3>1. s \in Measuring!Shapes /\ Measuring!FitsInto(s)
      BY <2>6 DEF Measuring!Fitting
    <3>2. PICK n \in low1 .. top : s = Measuring!Shape(n, n)
      BY <2>2, <3>1
    <3>3. n \in Nat /\ low1 <= n /\ n <= top
      BY <2>2
    <3>4. ASSUME NEW m \in Nat, low1 <= m, m <= n
          PROVE  Measuring!FitsInto(Measuring!Shape(m, m))
      BY <1>1, <1>3, <3>1, <3>2, <3>3, <3>4, GrowingFits DEF low1
    <3>5. n <= k - 1
      <4>1. SUFFICES ASSUME k <= n PROVE FALSE
        BY <2>1, <3>3
      <4>2. Measuring!FitsInto(size)
        BY <2>1, <2>2, <3>3, <3>4, <4>1
      <4>. QED
        BY <2>1, <2>2, <3>3, <4>1, <4>2
    <3>6. Measuring!FitsInto(largest)
      BY <2>1, <2>2, <3>3, <3>4
    <3>7. largest \in Measuring!Fitting
      BY <2>4, <3>6 DEF Measuring!Fitting
    <3>8. s.c = n /\ s.p = n /\ largest.c = k - 1 /\ largest.p = k - 1
      BY <2>1, <3>2 DEF Measuring!Shape
    <3>. QED
      BY <2>1, <3>3, <3>5, <3>7, <3>8
  <2>. QED
    BY <2>5, <2>6
<1>4. CASE search.kind = "overall"
  <2>1. /\ size.p \in Nat /\ size.p > MaxParticipants
        /\ largest \in Measuring!Fitting \cup {Measuring!Shape(3, 3)}
        /\ \A s \in Measuring!Fitting : Passed(s) => ~Measuring!Better(s, largest)
    BY <1>2, <1>4 DEF CapacityInvariant, SweepingInvariant
  <2>2. Measuring!Smallest[search.kind] = Measuring!Shape(3, 3)
    BY <1>4 DEF Measuring!Smallest
  <2>3. Measuring!Shape(3, 3) \in Measuring!Shapes
    <3>1. Measuring!MaxChannels(3) = 6
      BY DEF Measuring!MaxChannels
    <3>2. 3 \in 3 .. MaxParticipants /\ 3 \in 3 .. Measuring!MaxChannels(3)
      BY <1>1, <3>1, SearchKinds
    <3>. QED
      BY <1>1, <1>4, <3>2, SweepingShapes
  <2>4. Measuring!Fitting = {} =>
          largest = Measuring!Smallest[search.kind] /\ ~Measuring!FitsInto(largest)
    BY <2>1, <2>2, <2>3 DEF Measuring!Fitting
  <2>5. ASSUME NEW s \in Measuring!Fitting
        PROVE  /\ largest \in Measuring!Fitting
               /\ ~(s.c > largest.c \/ (s.c = largest.c /\ s.p > largest.p))
    <3>1. s \in Measuring!Shapes
      BY <2>5 DEF Measuring!Fitting
    <3>2. PICK a \in 3 .. MaxParticipants : \E b \in a .. Measuring!MaxChannels(a) :
                 s = Measuring!Shape(a, b)
      BY <1>4, <3>1 DEF Measuring!Shapes
    <3>3. PICK b \in a .. Measuring!MaxChannels(a) : s = Measuring!Shape(a, b)
      BY <3>2
    <3>4. s.p = a /\ s.c = b
      BY <3>3 DEF Measuring!Shape
    <3>5. MaxParticipants \in Nat /\ Measuring!MaxChannels(a) \in Int
      BY <1>1, SearchKinds DEF Measuring!MaxChannels
    <3>6. a \in Nat /\ b \in Nat /\ 3 <= a /\ a <= b /\ a <= MaxParticipants
      BY <3>5
    <3>7. ~Measuring!Better(s, largest)
      BY <2>1, <2>5, <3>4, <3>5, <3>6 DEF Passed
    <3>8. largest \in Measuring!Fitting
      <4>1. CASE largest = Measuring!Shape(3, 3)
        <5>1. largest.p = 3 /\ largest.c = 3
          BY <4>1 DEF Measuring!Shape
        <5>2. ~(b > 3) /\ ~(b = 3 /\ a > 3)
          BY <3>4, <3>7, <5>1 DEF Measuring!Better
        <5>3. a = 3 /\ b = 3
          BY <3>6, <5>2
        <5>. QED
          BY <2>5, <3>3, <4>1, <5>3
      <4>. QED
        BY <2>1, <4>1
    <3>. QED
      BY <3>7, <3>8 DEF Measuring!Better
  <2>. QED
    BY <2>4, <2>5
<1>. QED
  BY <1>3, <1>4

\* What is measured.
LEMMA RoundsAreMeasured ==
  ASSUME CapacityInvariant
  PROVE  Measuring!MeasuredRoundsAreRounds
<1>1. search \in Measuring!Searches
  BY DEF CapacityInvariant
<1>2. SUFFICES ASSUME search.kind # "bundle", size.p <= MaxParticipants
               PROVE  Measuring!MeasuredRoundsAreRounds!2
  BY DEF Measuring!MeasuredRoundsAreRounds
<1>3. /\ size.p \in Nat /\ size.p >= 3 /\ size.c \in Nat
      /\ size.p <= size.c /\ size.c <= size.p * (size.p - 1)
  <2>1. CASE search.kind = "overall"
    BY <2>1 DEF CapacityInvariant, SweepingInvariant, Measuring!MaxChannels
  <2>2. CASE search.kind = "cycle"
    <3>1. size = Measuring!Shape(size.p, size.p) /\ size.p \in Nat
          /\ Measuring!Smallest[search.kind].p < size.p
      BY <2>2 DEF CapacityInvariant, GrowingInvariant
    <3>2. Measuring!Smallest[search.kind].p = 3
      BY <2>2 DEF Measuring!Smallest, Measuring!Shape
    <3>3. size.c = size.p
      BY <3>1 DEF Measuring!Shape
    <3>. DEFINE p == size.p
    <3>4. p \in Nat /\ p >= 3
      BY <3>1, <3>2
    <3>. HIDE DEF p
    <3>5. p <= p * (p - 1)
      BY <3>4
    <3>. QED
      BY <3>3, <3>4, <3>5 DEF p
  <2>. QED
    BY <1>1, <1>2, <2>1, <2>2, SearchKinds
<1>4. size.p <= 256
  BY <1>1, <1>2, <1>3, SearchKinds
<1>. QED
  BY <1>3, <1>4, RoundsAreProper

\* The capacity searches: for every packet, length of commitments, number of
\* participants and size of buckets, a search ends with the largest cycle, round or
\* bundle that fits, though it breaks off at the first that does not, and every
\* round that it measures is one the program would take (findLargestCycleRound,
\* findLargestOverallRound, findLargestBundleSettlementEntryCount).
THEOREM CapacitiesAreRight ==
  WireSpec =>
    [](part = "capacity" =>
         Measuring!SearchFindsTheLargest /\ Measuring!MeasuredRoundsAreRounds)
<1>. DEFINE Inv == part = "capacity" => CapacityInvariant
<1>1. WireInit => Inv
  BY MeasuringStarts DEF WireInit
<1>2. Inv /\ [WireStep \/ ProbeThrows]_wireVars => Inv'
  <2>1. SUFFICES ASSUME Inv, [WireStep \/ ProbeThrows]_wireVars, part' = "capacity"
                 PROVE  CapacityInvariant'
    OBVIOUS
  <2>2. part = "capacity"
    BY <2>1 DEF WireStep, ProbeThrows, wireVars
  <2>3. CapacityInvariant
    BY <2>1, <2>2
  <2>4. Measuring!Next \/ UNCHANGED <<search, size, largest, done>>
    BY <2>1, <2>2 DEF WireStep, ProbeThrows, wireVars, measuringVars
  <2>. QED
    BY <2>3, <2>4, MeasuringStep
<1>3. Inv => (part = "capacity" =>
                Measuring!SearchFindsTheLargest /\ Measuring!MeasuredRoundsAreRounds)
  BY CapacityFound, RoundsAreMeasured
<1>. QED
  BY <1>1, <1>2, <1>3, PTL DEF WireSpec

-----------------------------------------------------------------------------
(***************************************************************************)
(* The first channels of the dense graph are rings.                        *)
(***************************************************************************)
IdPairs == Int \X Int

\* What a wallet more brings: a channel to it from the one before, and back to the
\* first wallet.
RingPart(i) == <<<<i + 1, i + 2>>, <<i + 2, 0>>>>
RingParts(m) == [i \in 1 .. m |-> RingPart(i)]

\* The order in which the channels of all rings are wanted.
RingOrder(m) == <<<<0, 1>>, <<1, 2>>, <<2, 0>>>> \o FlattenSeq(RingParts(m))

\* A sequence that continues another one has its elements and then its own.
LEMMA Continued ==
  ASSUME NEW P, NEW s \in Seq(P), NEW t \in Seq(P)
  PROVE  /\ s \o t \in Seq(P) /\ Len(s \o t) = Len(s) + Len(t)
         /\ \A i \in 1 .. Len(s) : (s \o t)[i] = s[i]
         /\ \A i \in 1 .. Len(t) : (s \o t)[Len(s) + i] = t[i]
<1>. DEFINE g == s \o t
            k == Len(s)
            l == Len(t)
<1>1. g \in Seq(P) /\ Len(g) = k + l
      /\ \A i \in 1 .. k + l : g[i] = IF i <= k THEN s[i] ELSE t[i - k]
  BY ConcatProperties
<1>2. k \in Nat /\ l \in Nat
  OBVIOUS
<1>. HIDE DEF g, k, l
<1>3. \A i \in 1 .. k : g[i] = s[i]
  BY <1>1, <1>2
<1>4. ASSUME NEW i \in 1 .. l PROVE g[k + i] = t[i]
  <2>1. k + i \in 1 .. k + l /\ ~(k + i <= k) /\ (k + i) - k = i
    BY <1>2
  <2>. QED
    BY <1>1, <2>1
<1>. QED
  BY <1>1, <1>3, <1>4 DEF g, k, l

\* Where the channels of a wallet come.
LEMMA RingPartsFlatten ==
  ASSUME NEW m \in Nat
  PROVE  /\ FlattenSeq(RingParts(m)) \in Seq(IdPairs)
         /\ Len(FlattenSeq(RingParts(m))) = 2 * m
         /\ \A i \in 1 .. m : /\ FlattenSeq(RingParts(m))[2 * i - 1] = <<i + 1, i + 2>>
                              /\ FlattenSeq(RingParts(m))[2 * i] = <<i + 2, 0>>
<1>. DEFINE Flat(n) == FlattenSeq(RingParts(n))
            Fine(n) == /\ Flat(n) \in Seq(IdPairs) /\ Len(Flat(n)) = 2 * n
                       /\ \A i \in 1 .. n : /\ Flat(n)[2 * i - 1] = <<i + 1, i + 2>>
                                            /\ Flat(n)[2 * i] = <<i + 2, 0>>
            T == {n \in Nat : Fine(n)}
<1>1. \A i \in Int : /\ RingPart(i) \in Seq(IdPairs) /\ Len(RingPart(i)) = 2
                    /\ RingPart(i)[1] = <<i + 1, i + 2>> /\ RingPart(i)[2] = <<i + 2, 0>>
  BY DEF RingPart, IdPairs
<1>2. \A n \in Nat : RingParts(n) \in Seq(Seq(IdPairs))
  <2>1. TAKE n \in Nat
  <2>2. \A i \in 1 .. n : RingPart(i) \in Seq(IdPairs)
    BY <1>1
  <2>. QED
    BY <2>2, IsASeq DEF RingParts
<1>3. 0 \in T
  <2>1. RingParts(0) = <<>>
    BY DEF RingParts
  <2>2. Flat(0) = <<>>
    BY <2>1, FlattenEmpty
  <2>3. <<>> \in Seq(IdPairs) /\ Len(<<>>) = 2 * 0 /\ 1 .. 0 = {}
    OBVIOUS
  <2>. QED
    BY <2>2, <2>3
<1>4. \A n \in Nat : n \in T => n + 1 \in T
  <2>1. TAKE n \in Nat
  <2>2. HAVE n \in T
  <2>3. n + 1 \in Nat /\ n + 1 \in Int
    OBVIOUS
  <2>. DEFINE x == RingPart(n + 1)
              f == Flat(n)
  <2>4. x \in Seq(IdPairs) /\ Len(x) = 2 /\ x[1] = <<(n + 1) + 1, (n + 1) + 2>>
        /\ x[2] = <<(n + 1) + 2, 0>>
    BY <1>1, <2>3
  <2>5. RingParts(n + 1) = Append(RingParts(n), x)
    <3>1. /\ RingParts(n) \in Seq(Seq(IdPairs)) /\ Len(RingParts(n)) = n
          /\ \A i \in 1 .. n : RingParts(n)[i] = RingPart(i)
      BY <1>2 DEF RingParts
    <3>2. Append(RingParts(n), x)
            = [i \in 1 .. n + 1 |-> IF i = n + 1 THEN x ELSE RingParts(n)[i]]
      BY <2>4, <3>1, AppendIs
    <3>3. \A i \in 1 .. n + 1 : RingPart(i) = IF i = n + 1 THEN x ELSE RingParts(n)[i]
      BY <3>1
    <3>. QED
      BY <3>2, <3>3 DEF RingParts
  <2>6. Flat(n + 1) = f \o x
    BY <1>2, <2>4, <2>5, FlattenAppend
  <2>7. /\ f \in Seq(IdPairs) /\ Len(f) = 2 * n
        /\ \A i \in 1 .. n : f[2 * i - 1] = <<i + 1, i + 2>> /\ f[2 * i] = <<i + 2, 0>>
    BY <2>2
  <2>. DEFINE g == f \o x
  <2>. HIDE DEF x, f
  <2>8. /\ g \in Seq(IdPairs) /\ Len(g) = Len(f) + Len(x)
        /\ \A j \in 1 .. Len(f) : g[j] = f[j]
        /\ \A j \in 1 .. Len(x) : g[Len(f) + j] = x[j]
    <3>1. f \in Seq(IdPairs) /\ x \in Seq(IdPairs)
      BY <2>4, <2>7
    <3>2. g \in Seq(IdPairs) /\ Len(g) = Len(f) + Len(x)
      BY <3>1, Continued
    <3>3. \A j \in 1 .. Len(f) : g[j] = f[j]
      BY <3>1, Continued
    <3>4. \A j \in 1 .. Len(x) : g[Len(f) + j] = x[j]
      BY <3>1, Continued
    <3>. QED
      BY <3>2, <3>3, <3>4
  <2>. HIDE DEF g
  <2>9. /\ Len(g) = 2 * (n + 1)
        /\ \A j \in 1 .. 2 * n : g[j] = f[j]
        /\ g[2 * n + 1] = x[1] /\ g[2 * n + 2] = x[2]
    <3>1. 1 \in 1 .. Len(x) /\ 2 \in 1 .. Len(x)
      BY <2>4
    <3>2. g[Len(f) + 1] = x[1] /\ g[Len(f) + 2] = x[2]
      BY <2>8, <3>1
    <3>. QED
      BY <2>4, <2>7, <2>8, <3>2
  <2>10. ASSUME NEW i \in 1 .. n + 1
         PROVE  g[2 * i - 1] = <<i + 1, i + 2>> /\ g[2 * i] = <<i + 2, 0>>
    <3>1. CASE i = n + 1
      <4>1. 2 * i - 1 = 2 * n + 1 /\ 2 * i = 2 * n + 2
        BY <3>1
      <4>. QED
        BY <2>4, <2>9, <3>1, <4>1
    <3>2. CASE i # n + 1
      <4>1. i \in 1 .. n /\ 2 * i - 1 \in 1 .. 2 * n /\ 2 * i \in 1 .. 2 * n
        BY <3>2
      <4>. QED
        BY <2>7, <2>9, <4>1
    <3>. QED
      BY <3>1, <3>2
  <2>. QED
    BY <2>3, <2>6, <2>8, <2>9, <2>10 DEF g
<1>5. m \in T
  <2>. HIDE DEF T
  <2>. QED
    BY <1>3, <1>4, Induction
<1>. QED
  BY <1>5

\* The position of a ring's channels in it: wallet i and the next at 2 * i (the first
\* two wallets at 1), the closing channel of n wallets at 2 * n - 3.
LEMMA RingOrderIs ==
  ASSUME NEW m \in Nat
  PROVE  /\ RingOrder(m) \in Seq(IdPairs) /\ Len(RingOrder(m)) = 2 * m + 3
         /\ RingOrder(m)[1] = <<0, 1>>
         /\ \A i \in 1 .. m + 1 : /\ RingOrder(m)[2 * i] = <<i, i + 1>>
                                  /\ RingOrder(m)[2 * i + 1] = <<i + 1, 0>>
<1>. DEFINE h == <<<<0, 1>>, <<1, 2>>, <<2, 0>>>>
            f == FlattenSeq(RingParts(m))
            g == h \o f
<1>1. h \in Seq(IdPairs) /\ Len(h) = 3 /\ h[1] = <<0, 1>> /\ h[2] = <<1, 2>> /\ h[3] = <<2, 0>>
  BY DEF IdPairs
<1>2. /\ f \in Seq(IdPairs) /\ Len(f) = 2 * m
      /\ \A i \in 1 .. m : f[2 * i - 1] = <<i + 1, i + 2>> /\ f[2 * i] = <<i + 2, 0>>
  BY RingPartsFlatten
<1>3. RingOrder(m) = g
  BY DEF RingOrder
<1>. HIDE DEF h, f
<1>4. /\ g \in Seq(IdPairs) /\ Len(g) = Len(h) + Len(f)
      /\ \A j \in 1 .. Len(h) : g[j] = h[j]
      /\ \A j \in 1 .. Len(f) : g[Len(h) + j] = f[j]
  <2>1. h \in Seq(IdPairs) /\ f \in Seq(IdPairs)
    BY <1>1, <1>2
  <2>2. g \in Seq(IdPairs) /\ Len(g) = Len(h) + Len(f)
    BY <2>1, Continued
  <2>3. \A j \in 1 .. Len(h) : g[j] = h[j]
    BY <2>1, Continued
  <2>4. \A j \in 1 .. Len(f) : g[Len(h) + j] = f[j]
    BY <2>1, Continued
  <2>. QED
    BY <2>2, <2>3, <2>4
<1>. HIDE DEF g
<1>5. /\ Len(g) = 2 * m + 3
      /\ g[1] = <<0, 1>> /\ g[2] = <<1, 2>> /\ g[3] = <<2, 0>>
      /\ \A j \in 1 .. 2 * m : g[3 + j] = f[j]
  <2>1. 1 \in 1 .. Len(h) /\ 2 \in 1 .. Len(h) /\ 3 \in 1 .. Len(h)
    BY <1>1
  <2>2. \A j \in 1 .. 2 * m : g[3 + j] = f[j]
    BY <1>1, <1>2, <1>4
  <2>3. Len(g) = 2 * m + 3
    BY <1>1, <1>2, <1>4
  <2>. QED
    BY <1>1, <1>4, <2>1, <2>2, <2>3
<1>6. ASSUME NEW i \in 1 .. m + 1
      PROVE  g[2 * i] = <<i, i + 1>> /\ g[2 * i + 1] = <<i + 1, 0>>
  <2>1. CASE i = 1
    BY <1>5, <2>1
  <2>2. CASE i # 1
    <3>. DEFINE k == i - 1
    <3>1. k \in 1 .. m /\ 2 * k - 1 \in 1 .. 2 * m /\ 2 * k \in 1 .. 2 * m
          /\ 3 + (2 * k - 1) = 2 * i /\ 3 + 2 * k = 2 * i + 1 /\ k + 1 = i /\ k + 2 = i + 1
      BY <2>2
    <3>. HIDE DEF k
    <3>2. g[3 + (2 * k - 1)] = f[2 * k - 1] /\ g[3 + 2 * k] = f[2 * k]
      BY <1>5, <3>1
    <3>3. f[2 * k - 1] = <<k + 1, k + 2>> /\ f[2 * k] = <<k + 2, 0>>
      BY <1>2, <3>1
    <3>. QED
      BY <3>1, <3>2, <3>3
  <2>. QED
    BY <2>1, <2>2
<1>. QED
  BY <1>3, <1>4, <1>5, <1>6

\* No channel is wanted twice.
LEMMA RingOrderIsInjective ==
  ASSUME NEW m \in Nat, NEW i \in 1 .. 2 * m + 3, NEW j \in 1 .. 2 * m + 3,
         RingOrder(m)[i] = RingOrder(m)[j]
  PROVE  i = j
<1>1. \A k \in 1 .. 2 * m + 3 :
        \/ k = 1 /\ RingOrder(m)[k] = <<0, 1>>
        \/ \E a \in 1 .. m + 1 : k = 2 * a /\ RingOrder(m)[k] = <<a, a + 1>>
        \/ \E a \in 1 .. m + 1 : k = 2 * a + 1 /\ RingOrder(m)[k] = <<a + 1, 0>>
  <2>1. TAKE k \in 1 .. 2 * m + 3
  <2>2. CASE k = 1
    BY <2>2, RingOrderIs
  <2>3. CASE k # 1
    <3>1. \E a \in 1 .. m + 1 : k = 2 * a \/ k = 2 * a + 1
      <4>1. k \in Nat /\ k >= 2
        BY <2>3
      <4>2. k \div 2 \in 1 .. m + 1 /\ (k = 2 * (k \div 2) \/ k = 2 * (k \div 2) + 1)
        BY <4>1
      <4>. QED
        BY <4>2
    <3>. QED
      BY <3>1, RingOrderIs
  <2>. QED
    BY <2>2, <2>3
<1>2. PICK x \in Int, y \in Int : RingOrder(m)[i] = <<x, y>> /\ RingOrder(m)[j] = <<x, y>>
  <2>1. \E x \in Int, y \in Int : RingOrder(m)[i] = <<x, y>>
    BY <1>1
  <2>. QED
    BY <2>1
<1>3. \A k \in 1 .. 2 * m + 3 : RingOrder(m)[k] = <<x, y>> =>
        \/ k = 1 /\ x = 0 /\ y = 1
        \/ x \in 1 .. m + 1 /\ k = 2 * x /\ y = x + 1
        \/ x - 1 \in 1 .. m + 1 /\ k = 2 * (x - 1) + 1 /\ y = 0
  <2>1. TAKE k \in 1 .. 2 * m + 3
  <2>2. HAVE RingOrder(m)[k] = <<x, y>>
  <2>3. CASE k = 1 /\ RingOrder(m)[k] = <<0, 1>>
    BY <2>2, <2>3
  <2>4. CASE \E a \in 1 .. m + 1 : k = 2 * a /\ RingOrder(m)[k] = <<a, a + 1>>
    BY <2>2, <2>4
  <2>5. CASE \E a \in 1 .. m + 1 : k = 2 * a + 1 /\ RingOrder(m)[k] = <<a + 1, 0>>
    BY <2>2, <2>5
  <2>. QED
    BY <1>1, <2>3, <2>4, <2>5
<1>. QED
  BY <1>2, <1>3

\* One position more.
LEMMA NextPosition ==
  ASSUME NEW n \in Nat
  PROVE  Latest(1 .. n + 1) = n + 1 /\ Others(1 .. n + 1) = 1 .. n
<1>. DEFINE D == 1 .. n + 1
<1>1. D \subseteq 0 .. n + 1 /\ n + 1 \in D /\ \A j \in D : n + 1 >= j
  OBVIOUS
<1>2. Latest(D) = n + 1
  <2>1. \A x \in D : (\A j \in D : x >= j) => x = n + 1
    BY <1>1
  <2>2. Max(D) \in D /\ \A j \in D : Max(D) >= j
    <3>. HIDE DEF D
    <3>. QED
      BY <1>1 DEF Max
  <2>. QED
    BY <2>1, <2>2 DEF Latest
<1>3. D \ {n + 1} = 1 .. n
  OBVIOUS
<1>. QED
  BY <1>2, <1>3 DEF Others

\* Of the first k pairs, all different, as many are opened as there is room for, in
\* their order; what is opened after them comes after them.
FirstPlaced(c, s, k, n, most) ==
  /\ \A j \in 1 .. Len(c) : j <= k => c[j] = s[j]
  /\ n <= k => Len(c) = n \/ (Len(c) = most /\ most <= n)
  /\ n >= k => Len(c) >= k \/ Len(c) = most

\* One pair more leaves it so.
LEMMA FirstsStay ==
  ASSUME NEW P, NEW s \in Seq(P), NEW most \in Nat, NEW k \in Nat, k <= Len(s),
         \A i, j \in 1 .. k : s[i] = s[j] => i = j,
         NEW n \in Nat, n + 1 <= Len(s),
         NEW c \in Seq(P), Len(c) <= most, FirstPlaced(c, s, k, n, most)
  PROVE  FirstPlaced(Place(c, s[n + 1], most), s, k, n + 1, most)
<1>. DEFINE pair == s[n + 1]
            l == Len(c)
<1>1. /\ l \in Nat /\ l <= most /\ pair \in P
      /\ \A j \in 1 .. l : j <= k => c[j] = s[j]
      /\ n <= k => l = n \/ (l = most /\ most <= n)
      /\ n >= k => l >= k \/ l = most
  BY DEF FirstPlaced
<1>2. ASSUME pair \in ToSet(c), n + 1 <= k PROVE l = most
  <2>1. PICK j \in 1 .. l : c[j] = pair
    BY <1>2 DEF ToSet
  <2>2. ASSUME l # most PROVE FALSE
    <3>1. l = n
      BY <1>1, <1>2, <2>2
    <3>2. j <= k /\ j \in 1 .. k /\ n + 1 \in 1 .. k /\ j # n + 1
      BY <1>2, <3>1
    <3>3. s[j] = s[n + 1]
      BY <1>1, <2>1, <3>2
    <3>. QED
      BY <3>2, <3>3
  <2>. QED
    BY <2>2
<1>3. CASE pair \in ToSet(c) \/ l >= most
  <2>1. Place(c, pair, most) = c
    BY <1>3 DEF Place
  <2>2. n + 1 <= k => l = most /\ most <= n + 1
    <3>. HIDE DEF l, pair
    <3>. QED
      BY <1>1, <1>2, <1>3
  <2>3. n + 1 >= k => l >= k \/ l = most
    <3>1. CASE n >= k
      BY <1>1, <3>1
    <3>2. CASE n + 1 = k
      BY <2>2, <3>2
    <3>. QED
      BY <3>1, <3>2
  <2>. QED
    BY <1>1, <2>1, <2>2, <2>3 DEF FirstPlaced
<1>4. CASE ~(pair \in ToSet(c) \/ l >= most)
  <2>. DEFINE d == Append(c, pair)
  <2>1. Place(c, pair, most) = d
    BY <1>4 DEF Place
  <2>2. /\ d \in Seq(P) /\ Len(d) = l + 1 /\ d[l + 1] = pair
        /\ \A j \in 1 .. l : d[j] = c[j]
    BY <1>1, AppendProperties
  <2>. HIDE DEF d, l
  <2>3. l < most
    BY <1>1, <1>4
  <2>4. n + 1 <= k => l = n
    BY <1>1, <2>3
  <2>5. n >= k => l >= k
    BY <1>1, <2>3
  <2>6. ASSUME NEW j \in 1 .. l + 1, j <= k PROVE d[j] = s[j]
    <3>1. CASE j \in 1 .. l
      BY <1>1, <2>2, <2>6, <3>1
    <3>2. CASE j = l + 1
      <4>1. n + 1 <= k
        BY <1>1, <2>5, <2>6, <3>2
      <4>. QED
        BY <2>2, <2>4, <3>2, <4>1
    <3>. QED
      BY <1>1, <3>1, <3>2
  <2>7. n + 1 <= k => Len(d) = n + 1
    BY <2>2, <2>4
  <2>8. n + 1 >= k => Len(d) >= k
    <3>1. CASE n >= k
      BY <1>1, <2>2, <2>5, <3>1
    <3>2. CASE n + 1 = k
      BY <2>7, <3>2
    <3>. QED
      BY <3>1, <3>2
  <2>. QED
    BY <2>1, <2>2, <2>6, <2>7, <2>8 DEF FirstPlaced
<1>. QED
  BY <1>3, <1>4

\* So it is when all pairs have been gone through.
LEMMA FirstsArePlaced ==
  ASSUME NEW P, NEW s \in Seq(P), NEW most \in Nat, NEW k \in Nat, k <= Len(s),
         \A i, j \in 1 .. k : s[i] = s[j] => i = j,
         NEW g, Placing(s, most, DOMAIN s, g)
  PROVE  \A j \in 1 .. Len(g[DOMAIN s]) : j <= k => g[DOMAIN s][j] = s[j]
<1>. DEFINE T == {n \in Nat : n <= Len(s) => FirstPlaced(g[1 .. n], s, k, n, most)}
<1>1. DOMAIN s = 1 .. Len(s) /\ Len(s) \in Nat /\ Positions(DOMAIN s)
  <2>1. DOMAIN s = 1 .. Len(s) /\ Len(s) \in Nat
    OBVIOUS
  <2>. QED
    BY <2>1 DEF Positions
<1>2. \A D \in SUBSET DOMAIN s : g[D] \in Seq(P) /\ Len(g[D]) <= most
  BY <1>1, PlacedWithinRoom
<1>3. 0 \in T
  <2>1. 1 .. 0 = {} /\ {} \in SUBSET DOMAIN s
    OBVIOUS
  <2>2. g[1 .. 0] = <<>>
    BY <2>1, PlacingStep
  <2>3. Len(<<>>) = 0 /\ 1 .. 0 = {}
    OBVIOUS
  <2>. QED
    BY <2>2, <2>3 DEF FirstPlaced
<1>4. ASSUME NEW n \in Nat, n \in T PROVE n + 1 \in T
  <2>1. SUFFICES ASSUME n + 1 <= Len(s)
                 PROVE  FirstPlaced(g[1 .. n + 1], s, k, n + 1, most)
    OBVIOUS
  <2>2. n <= Len(s) /\ 1 .. n \in SUBSET DOMAIN s /\ 1 .. n + 1 \in SUBSET DOMAIN s
        /\ 1 .. n + 1 # {}
    <3>. DEFINE l == Len(s)
    <3>1. l \in Nat /\ n + 1 <= l /\ DOMAIN s = 1 .. l
      BY <1>1, <2>1
    <3>. HIDE DEF l
    <3>2. n <= l /\ 1 .. n \subseteq 1 .. l /\ 1 .. n + 1 \subseteq 1 .. l /\ 1 \in 1 .. n + 1
      BY <3>1
    <3>. QED
      BY <3>1, <3>2 DEF l
  <2>3. FirstPlaced(g[1 .. n], s, k, n, most)
    BY <1>4, <2>2
  <2>4. g[1 .. n + 1] = Place(g[1 .. n], s[n + 1], most)
    <3>1. \A D \in SUBSET DOMAIN s :
            IF D = {} THEN g[D] = <<>>
                      ELSE g[D] = Place(g[Others(D)], s[Latest(D)], most)
      BY PlacingStep
    <3>2. g[1 .. n + 1] = Place(g[Others(1 .. n + 1)], s[Latest(1 .. n + 1)], most)
      BY <2>2, <3>1, Zenon
    <3>. QED
      BY <3>2, NextPosition
  <2>5. g[1 .. n] \in Seq(P) /\ Len(g[1 .. n]) <= most
    BY <1>2, <2>2
  <2>6. FirstPlaced(Place(g[1 .. n], s[n + 1], most), s, k, n + 1, most)
    BY <2>1, <2>3, <2>5, FirstsStay
  <2>. QED
    BY <2>4, <2>6
<1>5. \A n \in Nat : n \in T
  <2>. HIDE DEF T
  <2>. QED
    BY <1>3, <1>4, Induction
<1>6. FirstPlaced(g[1 .. Len(s)], s, k, Len(s), most)
  BY <1>1, <1>5
<1>. QED
  BY <1>1, <1>6 DEF FirstPlaced

\* The dense graph begins with the channels of the rings.
LEMMA RingsFirst ==
  ASSUME NEW n \in Nat, n >= 3, NEW most \in Nat
  PROVE  \A j \in 1 .. Len(Searching!DensePairs(n, most)) :
           j <= 2 * n - 3 => Searching!DensePairs(n, most)[j] = RingOrder(n - 3)[j]
<1>. DEFINE P == Int \X Int
            rings == RingOrder(n - 3)
            rest == Searching!OrderedPairs(n)
            all == Wanted(n)
            room == Room(n, most)
            k == 2 * n - 3
<1>1. n - 3 \in Nat /\ 2 * (n - 3) + 3 = k /\ k \in Nat
  OBVIOUS
<1>2. rings \in Seq(P) /\ Len(rings) = k /\ \A i, j \in 1 .. k : rings[i] = rings[j] => i = j
  <2>1. rings \in Seq(P) /\ Len(rings) = 2 * (n - 3) + 3
    BY <1>1, RingOrderIs DEF IdPairs
  <2>2. \A i, j \in 1 .. 2 * (n - 3) + 3 : rings[i] = rings[j] => i = j
    BY <1>1, RingOrderIsInjective
  <2>. QED
    BY <1>1, <2>1, <2>2
<1>3. Searching!PrefixRings(n) = rings
  BY DEF Searching!PrefixRings, Searching!FlattenSeq, FlattenSeq, RingOrder, RingParts, RingPart
<1>4. all = rings \o rest /\ rest \in Seq(P)
  BY <1>1, <1>3, WantedPairs DEF Wanted
<1>5. all \in Seq(P)
  BY WantedPairs
<1>6. room \in Nat
  BY DenseGraph
<1>7. PICK g : Placing(all, room, DOMAIN all, g) /\ Searching!DensePairs(n, most) = g[DOMAIN all]
  BY DenseGraph
<1>. HIDE DEF P, rings, rest, all, room, k
<1>8. k <= Len(all) /\ \A i \in 1 .. k : all[i] = rings[i]
  <2>1. Len(all) = Len(rings) + Len(rest) /\ \A i \in 1 .. Len(rings) : all[i] = rings[i]
    <3>1. rings \in Seq(P) /\ rest \in Seq(P)
      BY <1>2, <1>4
    <3>2. Len(rings \o rest) = Len(rings) + Len(rest)
      BY <3>1, Continued
    <3>3. \A i \in 1 .. Len(rings) : (rings \o rest)[i] = rings[i]
      BY <3>1, Continued
    <3>. QED
      BY <1>4, <3>2, <3>3
  <2>2. Len(rest) \in Nat
    BY <1>4
  <2>. QED
    BY <1>1, <1>2, <2>1, <2>2
<1>9. \A i, j \in 1 .. k : all[i] = all[j] => i = j
  BY <1>2, <1>8
<1>10. \A j \in 1 .. Len(g[DOMAIN all]) : j <= k => g[DOMAIN all][j] = all[j]
  BY <1>1, <1>5, <1>6, <1>7, <1>8, <1>9, FirstsArePlaced
<1>11. ASSUME NEW j \in 1 .. Len(g[DOMAIN all]), j <= k PROVE g[DOMAIN all][j] = rings[j]
  <2>1. g[DOMAIN all] \in Seq(P)
    BY <1>7, PairsWithinCap DEF P
  <2>2. j \in 1 .. k
    BY <1>1, <1>11, <2>1
  <2>. QED
    BY <1>8, <1>10, <1>11, <2>2
<1>. QED
  BY <1>7, <1>11 DEF k, rings

\* What a ring needs of that order: its last channel, and only channels before it.
LEMMA RingsInOrder ==
  ASSUME NEW m \in Nat, NEW n \in 3 .. m + 3
  PROVE  /\ 2 * n - 3 \in 1 .. 2 * m + 3
         /\ RingOrder(m)[2 * n - 3] \in Searching!Ring(n)
         /\ \A e \in Searching!Ring(n) : \E j \in 1 .. 2 * n - 3 : e = RingOrder(m)[j]
<1>. DEFINE order == RingOrder(m)
<1>1. /\ order[1] = <<0, 1>>
      /\ \A i \in 1 .. m + 1 : order[2 * i] = <<i, i + 1>> /\ order[2 * i + 1] = <<i + 1, 0>>
  BY RingOrderIs
<1>. HIDE DEF order
<1>2. \A i \in 0 .. n - 1 : (i + 1) % n = IF i = n - 1 THEN 0 ELSE i + 1
  OBVIOUS
<1>3. Searching!Ring(n) = {<<i, IF i = n - 1 THEN 0 ELSE i + 1>> : i \in 0 .. n - 1}
  BY <1>2 DEF Searching!Ring
<1>4. order[2 * n - 3] = <<n - 1, 0>>
  <2>1. n - 2 \in 1 .. m + 1 /\ 2 * (n - 2) + 1 = 2 * n - 3 /\ (n - 2) + 1 = n - 1
    OBVIOUS
  <2>. QED
    BY <1>1, <2>1
<1>5. <<n - 1, 0>> \in Searching!Ring(n)
  BY <1>3
<1>6. ASSUME NEW e \in Searching!Ring(n) PROVE \E j \in 1 .. 2 * n - 3 : e = order[j]
  <2>1. PICK i \in 0 .. n - 1 : e = <<i, IF i = n - 1 THEN 0 ELSE i + 1>>
    BY <1>3
  <2>2. CASE i = n - 1
    <3>1. 2 * n - 3 \in 1 .. 2 * n - 3
      OBVIOUS
    <3>. QED
      BY <1>4, <2>1, <2>2, <3>1
  <2>3. CASE i = 0
    <3>1. 1 \in 1 .. 2 * n - 3 /\ i # n - 1
      BY <2>3
    <3>. QED
      BY <1>1, <2>1, <2>3, <3>1
  <2>4. CASE i # 0 /\ i # n - 1
    <3>1. i \in 1 .. m + 1 /\ 2 * i \in 1 .. 2 * n - 3
      BY <2>4
    <3>. QED
      BY <1>1, <2>1, <2>4, <3>1
  <2>. QED
    BY <2>2, <2>3, <2>4
<1>. QED
  BY <1>4, <1>5, <1>6 DEF order

\* The dense graph has the rings that the cap leaves room for and no others.
LEMMA RingsThatFit ==
  ASSUME NEW w \in Nat, w >= 3, NEW most \in Nat, NEW chosen,
         chosen = Searching!DensePairs(w, most)
  PROVE  \A n \in 3 .. w :
           Searching!Ring(n) \subseteq Searching!ToSet(chosen) <=> 2 * n - 3 <= Len(chosen)
<1>. DEFINE m == w - 3
            order == RingOrder(m)
            l == Len(chosen)
            edges == Searching!ToSet(chosen)
<1>2. m \in Nat /\ m + 3 = w /\ 2 * m + 3 = 2 * w - 3
  OBVIOUS
<1>3. chosen \in Seq(Int \X Int) /\ l \in Nat
  <2>1. chosen \in Seq(Int \X Int)
    BY PairsWithinCap
  <2>. QED
    BY <2>1
<1>4. \A j \in 1 .. l : j <= 2 * w - 3 => chosen[j] = order[j]
  BY RingsFirst
<1>5. \A i, j \in 1 .. 2 * m + 3 : order[i] = order[j] => i = j
  BY <1>2, RingOrderIsInjective
<1>6. edges = {chosen[j] : j \in 1 .. l}
  BY <1>3 DEF Searching!ToSet
<1>7. ASSUME NEW n \in 3 .. w
      PROVE  Searching!Ring(n) \subseteq edges <=> 2 * n - 3 <= l
  <2>. DEFINE k == 2 * n - 3
              ring == Searching!Ring(n)
  <2>1. /\ k \in 1 .. 2 * m + 3
        /\ order[k] \in ring
        /\ \A e \in ring : \E j \in 1 .. k : e = order[j]
    BY <1>2, RingsInOrder
  <2>. HIDE DEF k, ring, order, l, m, edges
  <2>2. ASSUME k <= l PROVE ring \subseteq edges
    <3>1. SUFFICES ASSUME NEW e \in ring PROVE e \in edges
      OBVIOUS
    <3>2. PICK j \in 1 .. k : e = order[j]
      BY <2>1
    <3>3. j \in 1 .. l /\ j <= 2 * w - 3
      BY <1>2, <1>3, <2>1, <2>2
    <3>. QED
      BY <1>4, <1>6, <3>2, <3>3
  <2>3. ASSUME ring \subseteq edges, ~(k <= l) PROVE FALSE
    <3>1. PICK j \in 1 .. l : chosen[j] = order[k]
      BY <1>6, <2>1, <2>3
    <3>2. j \in 1 .. 2 * m + 3 /\ j <= 2 * w - 3 /\ j # k
      BY <1>2, <1>3, <2>1, <2>3
    <3>3. order[j] = order[k]
      BY <1>4, <3>1, <3>2
    <3>. QED
      BY <1>5, <2>1, <3>2, <3>3
  <2>. QED
    BY <2>2, <2>3 DEF k, ring
<1>. QED
  BY <1>7

\* This is the graph that the search starts with.
LEMMA RingsAtStart ==
  ASSUME Searching!SearchInit
  PROVE  Searching!SmallRingsComeFirst
<1>1. /\ Wallets \in Nat /\ Wallets >= 3 /\ cap \in Nat
      /\ pairs = Searching!DensePairs(Wallets, cap)
  BY RoundSearchAssumption DEF Searching!SearchAssumption, Searching!SearchInit
<1>. QED
  BY <1>1, RingsThatFit DEF Searching!SmallRingsComeFirst, Searching!Edges

\* The dense graph of the demo begins with rings: the ring of the first n wallets is
\* there exactly if 2n - 3 channels are, for every number of wallets and every cap, so
\* --bls-max-dense-channels alone says which rings the search may try
\* (buildBoundedDenseGraphPairs, maxSupportedPrefixRingParticipantCount).
THEOREM RingsComeFirst ==
  WireSpec => [](part = "search" => Searching!SmallRingsComeFirst)
<1>. DEFINE Inv == part = "search" => Searching!SmallRingsComeFirst
<1>1. WireInit => Inv
  BY RingsAtStart DEF WireInit
<1>2. Inv /\ [WireStep \/ ProbeThrows]_wireVars => Inv'
  <2>1. SUFFICES ASSUME Inv, [WireStep \/ ProbeThrows]_wireVars, part' = "search"
                 PROVE  Searching!SmallRingsComeFirst'
    OBVIOUS
  <2>2. part = "search"
    BY <2>1 DEF WireStep, ProbeThrows, wireVars
  <2>3. Searching!SearchNext \/ UNCHANGED Searching!searchVars
    BY <2>1, <2>2
    DEF WireStep, ProbeThrows, wireVars, searchVars, Searching!SearchNext,
        Searching!searchVars, Searching!inputs
  <2>4. pairs' = pairs
    BY <2>3
    DEF Searching!SearchNext, Searching!SearchStep, Searching!StartRings,
        Searching!StartChannels, Searching!Probe, Searching!EndSearch, Searching!ProbeThrows,
        Searching!inputs, Searching!searchVars
  <2>. QED
    BY <2>1, <2>2, <2>4 DEF Searching!SmallRingsComeFirst, Searching!Edges, Searching!Ring
<1>. QED
  BY <1>1, <1>2, PTL DEF WireSpec
=============================================================================
