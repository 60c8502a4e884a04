--------------------------- MODULE RyvoDirectory ---------------------------
(***************************************************************************)
(* Registration of participants and allocation of channels: bucket         *)
(* accounts with fixed slots, an index from owners to participant ids, and *)
(* the lanes that channel slots have opened.  What a slot holds besides is *)
(* in RyvoCore, which names a participant by its owner and a lane by its   *)
(* two ends; the properties of this module are what makes that sound.      *)
(***************************************************************************)
EXTENDS BucketAddressing, FiniteSets

CONSTANTS
  Owners,          \* keys that may register
  TokenIds,        \* tokens that channels may be opened in
  OwnerBucketOf,   \* the owner's hash, modulo OWNER_INDEX_BUCKET_COUNT
  OwnerIndexSlots, \* OWNER_INDEX_BUCKET_SLOT_COUNT
  MaxParticipantId \* u32::MAX

ASSUME DirectoryAssumption ==
  /\ OwnerBucketOf \in [Owners -> Nat]
  /\ OwnerIndexSlots \in Nat
  /\ MaxParticipantId \in Nat

VARIABLES
  next_participant_id, \* of GlobalConfig
  participantSlots,    \* initialised slots of all ParticipantBuckets
  ownerIndex,          \* initialised slots of all OwnerIndexBuckets
  channelSlots,        \* initialised slots of all ChannelBuckets
  openLanes            \* initialised lanes in them

participantVars == <<next_participant_id, participantSlots, ownerIndex>>
channelVars == <<channelSlots, openLanes>>
directoryVars == <<participantVars, channelVars>>

Policies == {"Permissionless", "ConsentRequired", "Disabled"}

ParticipantSlot ==
  [bucket : Nat, index : Nat, owner : Owners, participant_id : Nat, policy : Policies]
OwnerIndexSlot == [bucket : Nat, owner : Owners, participant_id : Nat]
ChannelSlot == [token : TokenIds, bucket : Nat, index : Nat, lower : Nat, higher : Nat]
LaneAddress == [token : TokenIds, bucket : Nat, index : Nat, selector : Selectors]

DirectoryInit ==
  /\ next_participant_id = 0
  /\ participantSlots = {}
  /\ ownerIndex = {}
  /\ channelSlots = {}
  /\ openLanes = {}

-----------------------------------------------------------------------------
\* The slot at the address of an id, and the entry of an owner in the bucket
\* that its hash selects: at most one each, as OwnerIndexAgrees says.
AtAddressOf(id) ==
  {s \in participantSlots : /\ s.bucket = ParticipantBucketId(id)
                            /\ s.index = ParticipantSlotIndex(id)}
IndexBucketOf(owner) == {e \in ownerIndex : e.bucket = OwnerBucketOf[owner]}

\* The counter is a u32 that must not wrap.
IdsRemainMutant == next_participant_id <= MaxParticipantId
IdsRemain == next_participant_id < MaxParticipantId

\* insert_owner scans one bucket, which has to have a slot left.
CanInsertOwnerMutant(owner) == Cardinality(IndexBucketOf(owner)) < OwnerIndexSlots
CanInsertOwner(owner) ==
  /\ \A e \in IndexBucketOf(owner) : e.owner # owner
  /\ Cardinality(IndexBucketOf(owner)) < OwnerIndexSlots

\* The submitter names both buckets.  The slot is taken only when it is free.
CanInitializeParticipant(owner, participantBucket, ownerBucket) ==
  /\ participantBucket = ParticipantBucketId(next_participant_id)
  /\ ownerBucket = OwnerBucketOf[owner]
  /\ AtAddressOf(next_participant_id) = {}
  /\ CanInsertOwner(owner)
  /\ IdsRemain

InitializeParticipant(owner, participantBucket, ownerBucket) ==
  LET id == next_participant_id
  IN  /\ CanInitializeParticipant(owner, participantBucket, ownerBucket)
      /\ participantSlots' =
           participantSlots \cup
             {[bucket |-> participantBucket, index |-> ParticipantSlotIndex(id),
               owner |-> owner, participant_id |-> id, policy |-> "ConsentRequired"]}
      /\ ownerIndex' =
           ownerIndex \cup {[bucket |-> ownerBucket, owner |-> owner, participant_id |-> id]}
      /\ next_participant_id' = id + 1
      /\ UNCHANGED channelVars

\* participant_id_for_verified_owner, and the slot that an id leads to.
IdsOf(owner) == {e.participant_id : e \in {f \in IndexBucketOf(owner) : f.owner = owner}}
SlotsOf(id) == {s \in AtAddressOf(id) : s.participant_id = id}

UpdateInboundChannelPolicy(owner, new) ==
  \E id \in IdsOf(owner) :
    \E s \in SlotsOf(id) :
      /\ participantSlots' = (participantSlots \ {s}) \cup {[s EXCEPT !.policy = new]}
      /\ UNCHANGED <<next_participant_id, ownerIndex, channelVars>>

\* initialize_lane_in_data: the slot at the pair's index of the bucket is the
\* pair's own or is taken now; the lane must not be open yet.
OpenLane(token, payer, payee, bucket) ==
  LET lower == Lower(payer, payee)
      higher == Higher(payer, payee)
      index == ChannelSlotIndex(lower, higher)
      own == [token |-> token, bucket |-> bucket, index |-> index,
              lower |-> lower, higher |-> higher]
      opened == [token |-> token, bucket |-> bucket, index |-> index,
                 selector |-> Selector(payer, payee)]
  IN  /\ bucket = ChannelBucketId(lower, higher)
      /\ \A c \in channelSlots :
           c.token = token /\ c.bucket = bucket /\ c.index = index => c = own
      /\ opened \notin openLanes
      /\ channelSlots' = channelSlots \cup {own}
      /\ openLanes' = openLanes \cup {opened}

\* The submitter is the payer and names the payee and the channel bucket; the
\* payee signs or does not.
CreateChannel(owner, payee, token, channelBucket, payeeSigns) ==
  \E payer \in IdsOf(owner) :
    /\ SlotsOf(payer) # {}
    /\ payer # payee
    /\ \E s \in SlotsOf(payee) :
         \/ s.policy = "Permissionless"
         \/ s.policy = "ConsentRequired" /\ payeeSigns
    /\ OpenLane(token, payer, payee, channelBucket)
    /\ UNCHANGED participantVars

\* Ids, and numbers of buckets, that submitters name.
Ids == 0 .. next_participant_id
ChannelBuckets == 0 .. ChannelBucketId(next_participant_id, next_participant_id)

DirectoryNext ==
  \/ \E o \in Owners, b \in Ids, i \in {OwnerBucketOf[x] : x \in Owners} :
       InitializeParticipant(o, b, i)
  \/ \E o \in Owners, new \in Policies : UpdateInboundChannelPolicy(o, new)
  \/ \E o \in Owners, p \in Ids, t \in TokenIds, b \in ChannelBuckets, signs \in BOOLEAN :
       CreateChannel(o, p, t, b, signs)

DirectorySpec == DirectoryInit /\ [][DirectoryNext]_directoryVars
=============================================================================
