SPECIFICATION MCDirectorySpec
CONSTANTS
  o1 = o1
  o2 = o2
  o3 = o3
  o4 = o4
  o5 = o5
  o6 = o6
  Owners = {o1, o2, o3, o4, o5, o6}
  TokenIds = {1, 2}
  OwnerBucketOf <- MCOwnerBucketOf
  OwnerIndexSlots = 3
  ParticipantSlots = 3
  ChannelSlots = 2
  MaxParticipantId = 4
SYMMETRY MCOwnersAlike
INVARIANTS
  DirectoryTypeOK
  OwnerIndexAgrees
  PairsNeverCollide
  RegistrationIsOpen
