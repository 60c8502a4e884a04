SPECIFICATION SetupSpec
CONSTANTS
  d = d
  n = n
  x = x
  y = y
  s1 = s1
  s2 = s2
  d1 = d1
  a1 = a1
  o1 = o1
  Wallets = {d, n}
  NoWallet = NoWallet
  UpgradeAuthority = d
  Mints = {x, y}
  TokenIds = {1, 2, 3}
  MaxTokens = 3
  Deployer = d
  Nominee = n
  Recipient = d
  Wanted <- MCWanted
  MaxHandovers = 2
  Owners = {s1, s2, d1, a1, o1}
  OwnerBucketOf <- MCOwnerBucketOf
  OwnerIndexSlots = 5
  ParticipantSlots = 2
  ChannelSlots = 2
  MaxParticipantId = 6
  WalletsOf <- MCWalletsOf
  Bystanders = {o1}
  Processes = {bootstrapRun, demoRun}
INVARIANTS
  WhatWasAskedIsThere
  ScriptsActAsTheirOwners
PROPERTIES
  OnlyTheLastNomineeTakesOver
  SetupEnds
CHECK_DEADLOCK FALSE
