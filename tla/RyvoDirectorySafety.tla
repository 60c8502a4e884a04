------------------------ MODULE RyvoDirectorySafety ------------------------
(***************************************************************************)
(* What registration and channel allocation promise: owners, ids and       *)
(* slots agree, no two pairs of participants share a slot, and only a full *)
(* index bucket keeps an owner out.                                        *)
(***************************************************************************)
EXTENDS RyvoDirectory

\* Type correctness of the four kinds of accounts.
DirectoryTypeOK ==
  /\ next_participant_id \in 0 .. MaxParticipantId
  /\ participantSlots \subseteq ParticipantSlot
  /\ ownerIndex \subseteq OwnerIndexSlot
  /\ channelSlots \subseteq ChannelSlot
  /\ openLanes \subseteq LaneAddress

\* Ids below the counter have been given out, each once; an id's slot is at its
\* address.
SlotsAreNumbered ==
  /\ \A s \in participantSlots :
       /\ s.participant_id < next_participant_id
       /\ s.bucket = ParticipantBucketId(s.participant_id)
       /\ s.index = ParticipantSlotIndex(s.participant_id)
  /\ \A s, u \in participantSlots : s.participant_id = u.participant_id => s = u

\* An entry of the index is in its owner's bucket and the only one of its owner
\* and of its id.
IndexIsOneToOne ==
  /\ \A e \in ownerIndex : e.bucket = OwnerBucketOf[e.owner]
  /\ \A e, f \in ownerIndex :
       e.owner = f.owner \/ e.participant_id = f.participant_id => e = f

\* The two accounts that registration writes never disagree: an owner's entry in
\* the index leads to a slot that names this owner, and every slot is led to.
IndexLeadsToSlots ==
  /\ \A e \in ownerIndex :
       \E s \in participantSlots : s.owner = e.owner /\ s.participant_id = e.participant_id
  /\ \A s \in participantSlots :
       \E e \in ownerIndex : e.owner = s.owner /\ e.participant_id = s.participant_id

\* Owners, ids and slots correspond one to one, whatever order owners register
\* in and however their hashes collide: naming a participant by its owner's key
\* is as good as naming its slot.
OwnerIndexAgrees == SlotsAreNumbered /\ IndexIsOneToOne /\ IndexLeadsToSlots

\* A channel slot belongs to the pair whose ordinal leads to it and to no other:
\* no two pairs of participants ever meet in a slot, so that create_channel and
\* the readers of lanes never fail with BucketSlotMismatch for an honest pair, and
\* a lane is as good as its two ends and its token.
PairsNeverCollide ==
  /\ \A c \in channelSlots :
       /\ c.lower < c.higher
       /\ c.higher < next_participant_id
       /\ c.bucket = ChannelBucketId(c.lower, c.higher)
       /\ c.index = ChannelSlotIndex(c.lower, c.higher)
  /\ \A l, h \in 0 .. next_participant_id - 1 : l < h =>
       \A c \in channelSlots :
         /\ c.bucket = ChannelBucketId(l, h)
         /\ c.index = ChannelSlotIndex(l, h)
         => c.lower = l /\ c.higher = h
  /\ \A a \in openLanes :
       \E c \in channelSlots : c.token = a.token /\ c.bucket = a.bucket /\ c.index = a.index

\* An owner without an id can register at once unless its index bucket is full
\* or ids have run out: no earlier registration can have taken its slot.
\* CanInitializeParticipant is the action's guard.
RegistrationIsOpen ==
  \A o \in Owners :
    \/ \E e \in ownerIndex : e.owner = o
    \/ ~ (Cardinality(IndexBucketOf(o)) < OwnerIndexSlots)
    \/ next_participant_id >= MaxParticipantId
    \/ CanInitializeParticipant(o, ParticipantBucketId(next_participant_id), OwnerBucketOf[o])
=============================================================================
