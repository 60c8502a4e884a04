-------------------------- MODULE BucketAddressing --------------------------
(***************************************************************************)
(* Where participants and channels live (state/bucket_state.rs).           *)
(* Participants are numbered in order of registration and packed into      *)
(* bucket accounts; the two lanes between two participants share one slot, *)
(* found from the ordinal of the unordered pair.                           *)
(***************************************************************************)
EXTENDS Integers

CONSTANTS
  ParticipantSlots, \* PARTICIPANT_BUCKET_SLOT_COUNT
  ChannelSlots      \* CHANNEL_BUCKET_SLOT_COUNT

ASSUME SlotCountAssumption ==
  ParticipantSlots \in Nat \ {0} /\ ChannelSlots \in Nat \ {0}

ParticipantBucketId(id) == id \div ParticipantSlots
ParticipantSlotIndexMutant(id) == id % (ParticipantSlots - 1)
ParticipantSlotIndex(id) == id % ParticipantSlots

\* canonicalize: the lower id first, and which of the two lanes is meant.
Lower(payer, payee) == IF payer < payee THEN payer ELSE payee
Higher(payer, payee) == IF payer < payee THEN payee ELSE payer
Selectors == {"LowerToHigher", "HigherToLower"}
Selector(payer, payee) == IF payer < payee THEN "LowerToHigher" ELSE "HigherToLower"

\* The pairs below higher come first: there are higher * (higher - 1) / 2.
PairOrdinalMutant(lower, higher) == (lower * (lower - 1)) \div 2 + higher
PairOrdinal(lower, higher) == (higher * (higher - 1)) \div 2 + lower

ChannelBucketId(lower, higher) == PairOrdinal(lower, higher) \div ChannelSlots
ChannelSlotIndex(lower, higher) == PairOrdinal(lower, higher) % ChannelSlots
=============================================================================
