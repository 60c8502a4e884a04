SPECIFICATION ColosseumSpec
CONSTANTS
  m = m
  a = a
  b = b
  c = c
  t = t
  NoKey = NoKey
  MaxU64 = 40
  Participants = {m, a, b}
  Keys = {m, a, b}
  Tokens = {t}
  YieldTokens = {}
  Lanes <- MCLanes
  Commitments <- MCCommitments
  Rounds = {}
  VaultAccount = VaultAccount
  Destinations = {m, a, b}
  SignerChoices = {}
  Amounts = {1}
  MaxRecipients = 1
  MaxTokenBalances = 1
  Supply <- MCSupply
  Decimals <- MCDecimals
  FeeBps = 30
  WithdrawalTimelock = 1
  ChannelTimelock = 1
  MaxTime = 12
  Merchant = m
  Roster <- MCRoster
  Tok = t
  DepositTarget = 3
  LockTarget = 2
  WalletFunds = 12
  TableAddresses = 3
  TableChunk = 2
  MaxFaults = 2
  ChannelsKnown = TRUE
  Target = 3
  Funds = {5, 8, 9}
  AtStart <- MCAtStart
  Created = {a, b, c}
INVARIANTS
  ManifestIsHonoured
  NobodyIsOvercharged
  DrainLeavesNothing
PROPERTIES
  ScriptsEnd
CHECK_DEADLOCK FALSE
