SPECIFICATION LanesSpec
CONSTANTS
  a = a
  b = b
  delegate = delegate
  hub = hub
  t = t
  NoKey = NoKey
  MaxU64 = 7
  Participants = {a, b}
  Keys = {a, b, delegate, hub}
  Tokens = {t}
  YieldTokens = {}
  Lanes <- MCLanes
  Commitments <- MCCommitments
  Rounds = {}
  VaultAccount = VaultAccount
  Destinations = {a}
  SignerChoices = {a, delegate, NoKey}
  Amounts = {0, 1, 2}
  MaxRecipients = 0
  MaxTokenBalances = 1
  Supply <- MCSupply
  Decimals <- MCDecimals
  FeeBps = 30
  WithdrawalTimelock = 0
  ChannelTimelock = 2
  MaxTime = 4
INVARIANTS
  NoticeInvariant
  ConservationInvariant
  LockedCollateralIsCollectable
PROPERTIES
  PaymentsAreAuthorised
  SignerChangesOnlyWithNotice
  CoverageDropsOnlyByNoticeOrConsent
  UnlockCompletes
