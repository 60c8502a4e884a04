------------------------ MODULE RyvoDirectoryProofs ------------------------
(***************************************************************************)
(* Proofs about addressing and the directory, for every number of slots,   *)
(* owners and ids and every hash of owners.                                *)
(***************************************************************************)
EXTENDS RyvoDirectorySafety, TLAPS

-----------------------------------------------------------------------------
(***************************************************************************)
(* Addresses of pairs.                                                     *)
(***************************************************************************)
\* Every pair whose higher id is h has an ordinal below those of the pairs with
\* a higher one: h of them fit in between.
LEMMA HigherPairsComeLater ==
  ASSUME NEW h \in Nat, NEW k \in Nat, h < k
  PROVE  (h * (h - 1)) \div 2 + h <= (k * (k - 1)) \div 2
<1>1. PICK d \in Nat : k = h + 1 + d
  <2>1. k - h - 1 \in Nat /\ k = h + 1 + (k - h - 1)
    OBVIOUS
  <2>. QED BY <2>1
<1>2. k * (k - 1) = h * (h - 1) + 2 * h + d * (h + h + 1 + d)
  BY <1>1
<1>3. d * (h + h + 1 + d) >= 0
  BY <1>1
<1>. DEFINE H == h * (h - 1)
            K == k * (k - 1)
<1>4. H \in Int /\ K \in Int /\ K >= H + 2 * h
  <2>1. H \in Int /\ K \in Int /\ d * (h + h + 1 + d) \in Int
    BY <1>1
  <2>. QED BY <2>1, <1>2, <1>3
<1>. HIDE DEF H, K
<1>5. H \div 2 + h <= K \div 2
  BY <1>4
<1>. QED BY <1>5 DEF H, K

\* The ordinals of pairs are naturals.
LEMMA PairOrdinalIsNat ==
  ASSUME NEW l \in Nat, NEW h \in Nat, l < h
  PROVE  PairOrdinal(l, h) \in Nat
<1>. DEFINE H == h * (h - 1)
<1>1. H \in Nat
  <2>1. h - 1 \in Nat
    OBVIOUS
  <2>. QED BY <2>1
<1>. HIDE DEF H
<1>2. H \div 2 + l \in Nat
  BY <1>1
<1>. QED BY <1>2 DEF H, PairOrdinal

\* pair_ordinal gives different pairs different numbers.
THEOREM PairOrdinalIsInjective ==
  ASSUME NEW l \in Nat, NEW h \in Nat, l < h,
         NEW m \in Nat, NEW k \in Nat, m < k,
         PairOrdinal(l, h) = PairOrdinal(m, k)
  PROVE  l = m /\ h = k
<1>. DEFINE H == (h * (h - 1)) \div 2
            K == (k * (k - 1)) \div 2
<1>1. H \in Int /\ K \in Int
  <2>1. h * (h - 1) \in Int /\ k * (k - 1) \in Int
    OBVIOUS
  <2>. QED BY <2>1
<1>2. H + l = K + m
  BY DEF PairOrdinal
<1>3. (h < k => H + h <= K) /\ (k < h => K + k <= H)
  BY HigherPairsComeLater
<1>. HIDE DEF H, K
<1>4. h = k
  BY <1>1, <1>2, <1>3
<1>5. H = K
  BY <1>4 DEF H, K
<1>. QED BY <1>1, <1>2, <1>4, <1>5

\* A number is known by its quotient and its remainder.
LEMMA QuotientAndRemainder ==
  ASSUME NEW a \in Nat, NEW b \in Nat, NEW c \in Nat \ {0},
         a \div c = b \div c, a % c = b % c
  PROVE  a = b
<1>1. a = c * (a \div c) + (a % c)
  OBVIOUS
<1>2. b = c * (b \div c) + (b % c)
  OBVIOUS
<1>. QED BY <1>1, <1>2

\* bucket_id_for_pair and slot_index_for_pair: no two pairs of participants share
\* a slot, whatever the number of slots in a bucket.
THEOREM PairsHaveTheirOwnSlots ==
  ASSUME NEW l \in Nat, NEW h \in Nat, l < h,
         NEW m \in Nat, NEW k \in Nat, m < k,
         ChannelBucketId(l, h) = ChannelBucketId(m, k),
         ChannelSlotIndex(l, h) = ChannelSlotIndex(m, k)
  PROVE  l = m /\ h = k
<1>1. PairOrdinal(l, h) \in Nat /\ PairOrdinal(m, k) \in Nat
  BY PairOrdinalIsNat
<1>2. PairOrdinal(l, h) = PairOrdinal(m, k)
  BY <1>1, QuotientAndRemainder, SlotCountAssumption DEF ChannelBucketId, ChannelSlotIndex
<1>. QED BY <1>2, PairOrdinalIsInjective

\* The same of participants: bucket and slot determine the id.
LEMMA ParticipantsHaveTheirOwnSlots ==
  ASSUME NEW i \in Nat, NEW j \in Nat,
         ParticipantBucketId(i) = ParticipantBucketId(j),
         ParticipantSlotIndex(i) = ParticipantSlotIndex(j)
  PROVE  i = j
  BY QuotientAndRemainder, SlotCountAssumption DEF ParticipantBucketId, ParticipantSlotIndex

-----------------------------------------------------------------------------
(***************************************************************************)
(* The directory.  Its properties are inductive together: a free address   *)
(* is free because ids are given out in order, and an owner is new because *)
(* all its entries are in the bucket that is scanned.                      *)
(***************************************************************************)
\* What the handlers keep of the directory's accounts.
DirectoryInvariant == DirectoryTypeOK /\ OwnerIndexAgrees /\ PairsNeverCollide

\* Only the pairs' own slots are occupied, and lanes are in occupied slots:
\* what PairsNeverCollide says beyond the injectivity of addresses.
ChannelsAreAddressed ==
  /\ \A c \in channelSlots :
       /\ c.lower < c.higher
       /\ c.higher < next_participant_id
       /\ c.bucket = ChannelBucketId(c.lower, c.higher)
       /\ c.index = ChannelSlotIndex(c.lower, c.higher)
  /\ \A a \in openLanes :
       \E c \in channelSlots : c.token = a.token /\ c.bucket = a.bucket /\ c.index = a.index

\* Addresses do the rest.
LEMMA AddressedSlotsDoNotCollide ==
  ASSUME DirectoryTypeOK, ChannelsAreAddressed
  PROVE  PairsNeverCollide
<1>1. ASSUME NEW l \in 0 .. next_participant_id - 1, NEW h \in 0 .. next_participant_id - 1,
             l < h, NEW c \in channelSlots,
             c.bucket = ChannelBucketId(l, h), c.index = ChannelSlotIndex(l, h)
      PROVE  c.lower = l /\ c.higher = h
  <2>1. l \in Nat /\ h \in Nat
    BY DEF DirectoryTypeOK
  <2>2. c.lower \in Nat /\ c.higher \in Nat
    BY DEF DirectoryTypeOK, ChannelSlot
  <2>3. /\ c.lower < c.higher
        /\ c.bucket = ChannelBucketId(c.lower, c.higher)
        /\ c.index = ChannelSlotIndex(c.lower, c.higher)
    BY DEF ChannelsAreAddressed
  <2>4. /\ ChannelBucketId(l, h) = ChannelBucketId(c.lower, c.higher)
        /\ ChannelSlotIndex(l, h) = ChannelSlotIndex(c.lower, c.higher)
    BY <1>1, <2>3
  <2>5. \A m, k \in Nat :
          /\ m < k
          /\ ChannelBucketId(l, h) = ChannelBucketId(m, k)
          /\ ChannelSlotIndex(l, h) = ChannelSlotIndex(m, k)
          => l = m /\ h = k
    BY <1>1, <2>1, PairsHaveTheirOwnSlots
  <2>. QED BY <2>2, <2>3, <2>4, <2>5
<1>. QED BY <1>1 DEF ChannelsAreAddressed, PairsNeverCollide

\* Addresses of ids and pairs are naturals.
LEMMA AddressTypes ==
  /\ \A id \in Nat : ParticipantBucketId(id) \in Nat /\ ParticipantSlotIndex(id) \in Nat
  /\ \A l, h \in Nat : l < h => ChannelBucketId(l, h) \in Nat /\ ChannelSlotIndex(l, h) \in Nat
<1>1. ASSUME NEW n \in Nat, NEW c \in Nat \ {0}
      PROVE  n \div c \in Nat /\ n % c \in Nat
  <2>1. n \div c \in Int /\ n % c \in 0 .. c - 1
    OBVIOUS
  <2>2. n \div c >= 0
    OBVIOUS
  <2>. QED BY <2>1, <2>2
<1>. QED
  BY <1>1, PairOrdinalIsNat, SlotCountAssumption
  DEF ParticipantBucketId, ParticipantSlotIndex, ChannelBucketId, ChannelSlotIndex

\* initialize_participant keeps all of it.
LEMMA InitializeParticipantKeeps ==
  ASSUME DirectoryInvariant,
         NEW o \in Owners, NEW b, NEW i, InitializeParticipant(o, b, i)
  PROVE  DirectoryTypeOK' /\ OwnerIndexAgrees' /\ ChannelsAreAddressed'
<1>. DEFINE id == next_participant_id
            s == [bucket |-> b, index |-> ParticipantSlotIndex(id), owner |-> o,
                  participant_id |-> id, policy |-> "ConsentRequired"]
            e == [bucket |-> i, owner |-> o, participant_id |-> id]
<1>. USE DEF DirectoryInvariant
<1>1. /\ participantSlots' = participantSlots \cup {s}
      /\ ownerIndex' = ownerIndex \cup {e}
      /\ next_participant_id' = id + 1
      /\ b = ParticipantBucketId(id) /\ i = OwnerBucketOf[o]
      /\ id < MaxParticipantId
      /\ UNCHANGED channelVars
  BY DEF InitializeParticipant, CanInitializeParticipant, IdsRemain
<1>2. id \in Nat /\ id + 1 \in 0 .. MaxParticipantId
  BY <1>1, DirectoryAssumption DEF DirectoryTypeOK
<1>3. s \in ParticipantSlot /\ e \in OwnerIndexSlot
  BY <1>1, <1>2, AddressTypes, DirectoryAssumption DEF ParticipantSlot, OwnerIndexSlot, Policies
<1>4. DirectoryTypeOK'
  BY <1>1, <1>2, <1>3 DEF DirectoryTypeOK, channelVars
<1>5. \A u \in participantSlots : u.participant_id < id /\ u.participant_id \in Nat
  BY DEF OwnerIndexAgrees, SlotsAreNumbered, DirectoryTypeOK, ParticipantSlot
<1>6. SlotsAreNumbered'
  BY <1>1, <1>2, <1>5 DEF OwnerIndexAgrees, SlotsAreNumbered
<1>7. \A f \in ownerIndex : f.participant_id # id
  BY <1>2, <1>5 DEF OwnerIndexAgrees, IndexLeadsToSlots
<1>8. \A f \in ownerIndex : f.owner # o
  BY DEF InitializeParticipant, CanInitializeParticipant, CanInsertOwner, IndexBucketOf,
         OwnerIndexAgrees, IndexIsOneToOne
<1>9. IndexIsOneToOne'
  BY <1>1, <1>7, <1>8 DEF OwnerIndexAgrees, IndexIsOneToOne
<1>10. IndexLeadsToSlots'
  <2>1. s \in participantSlots' /\ s.owner = e.owner /\ s.participant_id = e.participant_id
    BY <1>1
  <2>. HIDE DEF s, e
  <2>2. e \in ownerIndex'
    BY <1>1
  <2>. QED BY <1>1, <2>1, <2>2 DEF OwnerIndexAgrees, IndexLeadsToSlots
<1>11. ChannelsAreAddressed'
  <2>1. \A c \in channelSlots : c.higher < id + 1
    BY <1>2 DEF PairsNeverCollide, DirectoryTypeOK, ChannelSlot
  <2>. QED BY <1>1, <2>1 DEF ChannelsAreAddressed, PairsNeverCollide, channelVars
<1>. QED BY <1>4, <1>6, <1>9, <1>10, <1>11 DEF OwnerIndexAgrees

\* update_inbound_channel_policy replaces a slot by one of the same owner and id.
LEMMA UpdateInboundChannelPolicyKeeps ==
  ASSUME DirectoryInvariant,
         NEW o \in Owners, NEW new \in Policies, UpdateInboundChannelPolicy(o, new)
  PROVE  DirectoryTypeOK' /\ OwnerIndexAgrees' /\ ChannelsAreAddressed'
<1>. USE DEF DirectoryInvariant
<1>1. PICK s \in participantSlots :
        /\ participantSlots' = (participantSlots \ {s}) \cup {[s EXCEPT !.policy = new]}
        /\ UNCHANGED <<next_participant_id, ownerIndex, channelVars>>
  BY DEF UpdateInboundChannelPolicy, SlotsOf, AtAddressOf
<1>. DEFINE u == [s EXCEPT !.policy = new]
<1>2. s \in ParticipantSlot
  BY DEF DirectoryTypeOK
<1>3. /\ u \in ParticipantSlot
      /\ u.bucket = s.bucket /\ u.index = s.index
      /\ u.owner = s.owner /\ u.participant_id = s.participant_id
  BY <1>2, Zenon DEF ParticipantSlot
<1>4. participantSlots' = (participantSlots \ {s}) \cup {u}
  BY <1>1
<1>. HIDE DEF u
<1>5. DirectoryTypeOK'
  BY <1>1, <1>3, <1>4 DEF DirectoryTypeOK, channelVars
<1>6. SlotsAreNumbered'
  BY <1>1, <1>2, <1>3, <1>4 DEF OwnerIndexAgrees, SlotsAreNumbered
<1>7. IndexIsOneToOne'
  BY <1>1 DEF OwnerIndexAgrees, IndexIsOneToOne
<1>8. IndexLeadsToSlots'
  BY <1>1, <1>2, <1>3, <1>4 DEF OwnerIndexAgrees, IndexLeadsToSlots
<1>9. ChannelsAreAddressed'
  BY <1>1 DEF ChannelsAreAddressed, PairsNeverCollide, channelVars
<1>. QED BY <1>5, <1>6, <1>7, <1>8, <1>9 DEF OwnerIndexAgrees

\* create_channel takes the slot of a pair of registered participants.
LEMMA CreateChannelKeeps ==
  ASSUME DirectoryInvariant,
         NEW o \in Owners, NEW payee \in Nat, NEW t \in TokenIds, NEW b,
         NEW signs \in BOOLEAN, CreateChannel(o, payee, t, b, signs)
  PROVE  DirectoryTypeOK' /\ OwnerIndexAgrees' /\ ChannelsAreAddressed'
<1>. USE DEF DirectoryInvariant
<1>1. PICK payer \in IdsOf(o) :
        /\ SlotsOf(payer) # {} /\ SlotsOf(payee) # {}
        /\ payer # payee
        /\ OpenLane(t, payer, payee, b)
        /\ UNCHANGED participantVars
  BY DEF CreateChannel
<1>2. \A id : SlotsOf(id) # {} => id \in Nat /\ id < next_participant_id
  BY DEF SlotsOf, AtAddressOf, OwnerIndexAgrees, SlotsAreNumbered, DirectoryTypeOK, ParticipantSlot
<1>. DEFINE l == Lower(payer, payee)
            h == Higher(payer, payee)
            own == [token |-> t, bucket |-> b, index |-> ChannelSlotIndex(l, h),
                    lower |-> l, higher |-> h]
            opened == [token |-> t, bucket |-> b, index |-> ChannelSlotIndex(l, h),
                       selector |-> Selector(payer, payee)]
<1>3. l \in Nat /\ h \in Nat /\ l < h /\ h < next_participant_id
  BY <1>1, <1>2 DEF Lower, Higher
<1>4. /\ b = ChannelBucketId(l, h)
      /\ channelSlots' = channelSlots \cup {own}
      /\ openLanes' = openLanes \cup {opened}
  BY <1>1 DEF OpenLane
<1>5. Selector(payer, payee) \in Selectors
  BY DEF Selector, Selectors
<1>. HIDE DEF l, h
<1>6. own \in ChannelSlot /\ opened \in LaneAddress
  BY <1>3, <1>4, <1>5, AddressTypes DEF ChannelSlot, LaneAddress
<1>7. DirectoryTypeOK'
  BY <1>1, <1>4, <1>6 DEF DirectoryTypeOK, participantVars
<1>8. OwnerIndexAgrees'
  BY <1>1 DEF OwnerIndexAgrees, SlotsAreNumbered, IndexIsOneToOne, IndexLeadsToSlots, participantVars
<1>9. ChannelsAreAddressed'
  <2>1. /\ own.lower = l /\ own.higher = h
        /\ own.bucket = ChannelBucketId(l, h) /\ own.index = ChannelSlotIndex(l, h)
        /\ own.token = opened.token /\ own.bucket = opened.bucket /\ own.index = opened.index
    BY <1>4
  <2>2. next_participant_id' = next_participant_id
    BY <1>1 DEF participantVars
  <2>. HIDE DEF own, opened
  <2>. QED BY <1>3, <1>4, <2>1, <2>2 DEF ChannelsAreAddressed, PairsNeverCollide
<1>. QED BY <1>7, <1>8, <1>9

\* Registration and channel creation keep owners, ids, slots and pairs apart, in
\* every order and for every number of participants.
THEOREM DirectoryIsConsistent == DirectorySpec => []DirectoryInvariant
<1>1. DirectoryInit => DirectoryInvariant
  BY DirectoryAssumption
  DEF DirectoryInit, DirectoryInvariant, DirectoryTypeOK, OwnerIndexAgrees, SlotsAreNumbered,
      IndexIsOneToOne, IndexLeadsToSlots, PairsNeverCollide
<1>2. DirectoryInvariant /\ [DirectoryNext]_directoryVars => DirectoryInvariant'
  <2>. SUFFICES ASSUME DirectoryInvariant, [DirectoryNext]_directoryVars
                PROVE  DirectoryTypeOK' /\ OwnerIndexAgrees' /\ ChannelsAreAddressed'
    BY AddressedSlotsDoNotCollide, PTL DEF DirectoryInvariant
  <2>1. ASSUME NEW o \in Owners, NEW b \in Ids, NEW i \in {OwnerBucketOf[x] : x \in Owners},
               InitializeParticipant(o, b, i)
        PROVE  DirectoryTypeOK' /\ OwnerIndexAgrees' /\ ChannelsAreAddressed'
    BY <2>1, InitializeParticipantKeeps
  <2>2. ASSUME NEW o \in Owners, NEW new \in Policies, UpdateInboundChannelPolicy(o, new)
        PROVE  DirectoryTypeOK' /\ OwnerIndexAgrees' /\ ChannelsAreAddressed'
    BY <2>2, UpdateInboundChannelPolicyKeeps
  <2>3. ASSUME NEW o \in Owners, NEW p \in Ids, NEW t \in TokenIds, NEW b \in ChannelBuckets,
               NEW signs \in BOOLEAN, CreateChannel(o, p, t, b, signs)
        PROVE  DirectoryTypeOK' /\ OwnerIndexAgrees' /\ ChannelsAreAddressed'
    <3>1. p \in Nat
      BY DEF Ids, DirectoryInvariant, DirectoryTypeOK
    <3>. QED BY <2>3, <3>1, CreateChannelKeeps
  <2>4. CASE UNCHANGED directoryVars
    BY <2>4 DEF DirectoryInvariant, DirectoryTypeOK, OwnerIndexAgrees, SlotsAreNumbered,
                IndexIsOneToOne, IndexLeadsToSlots, PairsNeverCollide, ChannelsAreAddressed,
                directoryVars, participantVars, channelVars
  <2>. QED BY <2>1, <2>2, <2>3, <2>4 DEF DirectoryNext
<1>. QED BY <1>1, <1>2, PTL DEF DirectorySpec

\* An owner's id, its slot and its index entry agree (initialize_participant).
THEOREM OwnerIndexSafety == DirectorySpec => []OwnerIndexAgrees
BY DirectoryIsConsistent, PTL DEF DirectoryInvariant

\* No two pairs share a channel slot (create_channel).
THEOREM PairSafety == DirectorySpec => []PairsNeverCollide
BY DirectoryIsConsistent, PTL DEF DirectoryInvariant

\* The accounts keep their shape and ids stay within u32.
THEOREM DirectoryTypes == DirectorySpec => []DirectoryTypeOK
BY DirectoryIsConsistent, PTL DEF DirectoryInvariant

\* Only a full index bucket and the end of the ids keep a new owner out: the
\* slot of the next id is free because every occupied slot is at the address of
\* a smaller id.
THEOREM RegistrationStaysOpen == DirectorySpec => []RegistrationIsOpen
<1>1. ASSUME DirectoryInvariant PROVE AtAddressOf(next_participant_id) = {}
  <2>. SUFFICES ASSUME NEW s \in participantSlots,
                       s.bucket = ParticipantBucketId(next_participant_id),
                       s.index = ParticipantSlotIndex(next_participant_id)
                PROVE  FALSE
    BY DEF AtAddressOf
  <2>1. /\ s.participant_id \in Nat /\ next_participant_id \in Nat
        /\ s.participant_id < next_participant_id
        /\ s.bucket = ParticipantBucketId(s.participant_id)
        /\ s.index = ParticipantSlotIndex(s.participant_id)
    BY <1>1
    DEF DirectoryInvariant, DirectoryTypeOK, ParticipantSlot, OwnerIndexAgrees, SlotsAreNumbered
  <2>2. s.participant_id = next_participant_id
    BY <2>1, ParticipantsHaveTheirOwnSlots
  <2>. QED BY <2>1, <2>2
<1>2. DirectoryInvariant => RegistrationIsOpen
  <2>. SUFFICES ASSUME DirectoryInvariant, NEW o \in Owners,
                       \A e \in ownerIndex : e.owner # o,
                       Cardinality(IndexBucketOf(o)) < OwnerIndexSlots,
                       ~ (next_participant_id >= MaxParticipantId)
                PROVE  CanInitializeParticipant(o, ParticipantBucketId(next_participant_id),
                                                OwnerBucketOf[o])
    BY DEF RegistrationIsOpen
  <2>1. CanInsertOwner(o)
    BY DEF CanInsertOwner, IndexBucketOf
  <2>2. IdsRemain
    BY DirectoryAssumption DEF IdsRemain, DirectoryInvariant, DirectoryTypeOK
  <2>. QED BY <1>1, <2>1, <2>2 DEF CanInitializeParticipant
<1>. QED BY <1>2, DirectoryIsConsistent, PTL
=============================================================================
