--------------------------- MODULE RoundCapacity ---------------------------
(***************************************************************************)
(* How many channels fit into one transaction: the searches of             *)
(* lib/clearing-round-capacity.ts (largest cycle and largest round, with   *)
(* and without an address lookup table) and of                             *)
(* lib/unilateral-settlement-capacity.ts (largest bundle).  A search       *)
(* measures one synthetic transaction per step, keeps the best that fits   *)
(* and breaks off a row at the first that does not.                        *)
(*                                                                         *)
(* Sizes are those of Solana's wire format, which @solana/web3.js          *)
(* serialises: a 64-byte signature, 32-byte keys, length prefixes of seven *)
(* bits to a byte.                                                         *)
(***************************************************************************)
EXTENDS BucketAddressing, FiniteSets, FiniteSetsExt

CONSTANTS
  PacketSizes,     \* packetDataSize
  MaxParticipants, \* maxParticipants
  MaxEntries,      \* maxEntries of the bundle search
  MessageLengths   \* messageBytes of a commitment

\* A round has at least three participants and counts them in one byte; a bundle
\* is not empty.
CapacityAssumption ==
  /\ PacketSizes \subseteq Nat /\ MessageLengths \subseteq Nat
  /\ MaxParticipants \in 3 .. 256 /\ MaxEntries \in Nat \ {0}

VARIABLES
  search,  \* which search this is, its packet size and message length
  size,    \* next shape: [p : participants or entries, c : channels]
  best,    \* the best shape so far
  done

vars == <<search, size, best, done>>

Shape(p, c) == [p |-> p, c |-> c]
Searches ==
  [kind : {"cycle", "overall"}, table : BOOLEAN, packet : PacketSizes, message : {0}] \cup
  [kind : {"bundle"}, table : {TRUE}, packet : PacketSizes, message : MessageLengths]

First == [cycle |-> Shape(4, 4), overall |-> Shape(3, 3), bundle |-> Shape(2, 2)]
Smallest == [cycle |-> Shape(3, 3), overall |-> Shape(3, 3), bundle |-> Shape(1, 1)]

Init ==
  /\ search \in Searches
  /\ size = First[search.kind]
  /\ best = Smallest[search.kind]
  /\ done = FALSE

-----------------------------------------------------------------------------
(***************************************************************************)
(* The synthetic round: the pairs of participants ordered by how far the   *)
(* payee is from the payer, and the buckets that their lanes are in.       *)
(***************************************************************************)
PayerOf(p, k) == k % p
PayeeOf(p, k) == ((k % p) + (k \div p) + 1) % p
Pairs(p, c) == {<<PayerOf(p, k), PayeeOf(p, k)>> : k \in 0 .. c - 1}

\* ceil(p / slots): participants are numbered from 0.
ParticipantBuckets(p) == ParticipantBucketId(p - 1) + 1
ChannelBuckets(p, c) ==
  Cardinality({ChannelBucketId(Lower(q[1], q[2]), Higher(q[1], q[2])) : q \in Pairs(p, c)})
Buckets(p, c) == ParticipantBuckets(p) + ChannelBuckets(p, c)

-----------------------------------------------------------------------------
(***************************************************************************)
(* Bytes.                                                                  *)
(***************************************************************************)
CompactLength(n) == IF n < 128 THEN 1 ELSE IF n < 16384 THEN 2 ELSE 3

\* Kind, version, domain, token and block count; a block is an id, a count and
\* its entries; an amount of about a million takes three bytes.
RoundMessage(p, c) ==
  21 + MapThenSumSet(LAMBDA id : CompactLength(id) + 1, 0 .. p - 1) + 4 * c

\* Discriminator, length prefix and aggregate signature around the message.
RoundData(p, c) == 8 + 4 + RoundMessage(p, c) + 48

Instruction(keys, data) == 1 + CompactLength(keys) + keys + CompactLength(data) + data

\* Signature, header, keys, blockhash and instructions.
Legacy(keys, instructions) ==
  1 + 64 + 3 + CompactLength(keys) + 32 * keys + 32 + 1 + instructions

\* The version byte, and the table's key and its two lists of indices in place
\* of the keys.
WithTable(keys, writable, readonly, instructions) ==
  1 + Legacy(keys, instructions) +
  1 + 32 + CompactLength(writable) + writable + CompactLength(readonly) + readonly

\* Four fixed accounts and the buckets; the program's key is a key too.
RoundBytes(table, p, c) ==
  LET n == Buckets(p, c)
      settle == Instruction(4 + n, RoundData(p, c))
  IN  IF table THEN WithTable(2, n, 3, settle) ELSE Legacy(5 + n, settle)

\* One Ed25519 instruction proves all n commitments.
ProofData(n, message) == 2 + n * (14 + 32 + 64 + message)
BundleBytes(n, message) ==
  WithTable(3, 1 + 2 * n, 3,
            Instruction(0, ProofData(n, message)) + Instruction(5 + 2 * n, 9))

Bytes(s) ==
  IF search.kind = "bundle" THEN BundleBytes(s.p, search.message)
  ELSE RoundBytes(search.table, s.p, s.c)
FitsInto(s) == Bytes(s) <= search.packet

-----------------------------------------------------------------------------
(***************************************************************************)
(* The searches.                                                           *)
(***************************************************************************)
MaxChannels(p) == p * (p - 1)

\* Cycles and bundles grow by one until one does not fit.
Limit == IF search.kind = "bundle" THEN MaxEntries ELSE MaxParticipants
Grow ==
  /\ ~done /\ search.kind # "overall" /\ size.p <= Limit
  /\ IF FitsInto(size)
     THEN best' = size /\ size' = Shape(size.p + 1, size.p + 1) /\ UNCHANGED done
     ELSE done' = TRUE /\ UNCHANGED <<size, best>>
  /\ UNCHANGED search

Better(s, t) == s.c > t.c \/ (s.c = t.c /\ s.p > t.p)

NextRow == Shape(size.p + 1, size.p + 1)

\* Rounds: a row of channel counts for each number of participants.
Sweep ==
  /\ ~done /\ search.kind = "overall" /\ size.p <= MaxParticipants
  /\ IF FitsInto(size)
     THEN /\ best' = IF Better(size, best) THEN size ELSE best
          /\ size' = IF size.c < MaxChannels(size.p) THEN Shape(size.p, size.c + 1) ELSE NextRow
     ELSE size' = NextRow /\ UNCHANGED best
  /\ UNCHANGED <<search, done>>

Finish ==
  /\ ~done
  /\ size.p > Limit
  /\ done' = TRUE
  /\ UNCHANGED <<search, size, best>>

Next == Grow \/ Sweep \/ Finish

-----------------------------------------------------------------------------
(***************************************************************************)
(* Properties.                                                             *)
(***************************************************************************)
Shapes ==
  CASE search.kind = "overall" ->
         UNION {{Shape(p, c) : c \in p .. MaxChannels(p)} : p \in 3 .. MaxParticipants}
    [] search.kind = "cycle" -> {Shape(p, p) : p \in 3 .. MaxParticipants}
    [] search.kind = "bundle" -> {Shape(n, n) : n \in 1 .. MaxEntries}
Fitting == {s \in Shapes : FitsInto(s)}

\* What a search ends with is the largest shape of all that fit, though it
\* breaks off rows early: a round with more channels never needs fewer bytes.
\* When nothing fits the smallest shape is reported, marked as not fitting
\* (findLargestCycleRound, findLargestOverallRound,
\* findLargestBundleSettlementEntryCount).
SearchFindsTheLargest ==
  done => IF Fitting = {}
          THEN best = Smallest[search.kind] /\ ~FitsInto(best)
          ELSE best \in Fitting /\
               ~\E s \in Fitting : s.c > best.c \/ (s.c = best.c /\ s.p > best.p)

\* The round that is measured is one that the program would take: no one pays
\* oneself, no lane occurs twice, every block has an entry, and counts and
\* references fit into their byte (buildSyntheticRound).
MeasuredRoundsAreRounds ==
  (search.kind # "bundle" /\ size.p <= MaxParticipants) =>
    /\ \A q \in Pairs(size.p, size.c) : q[1] # q[2]
    /\ Cardinality(Pairs(size.p, size.c)) = size.c
    /\ {q[1] : q \in Pairs(size.p, size.c)} = 0 .. size.p - 1
    /\ size.p <= 256
=============================================================================
