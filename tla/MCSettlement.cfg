SPECIFICATION SettlementSpec
CONSTANTS
  a = a
  b = b
  c = c
  t = t
  NoKey = NoKey
  MaxU64 = 7
  Participants = {a, b, c}
  Keys = {a, b, c}
  Tokens = {t}
  YieldTokens = {}
  Lanes <- MCLanes
  Commitments <- MCCommitments
  Rounds <- MCRounds
  VaultAccount = VaultAccount
  Destinations = {a}
  SignerChoices = {}
  Amounts = {1}
  MaxRecipients = 2
  MaxTokenBalances = 1
  Supply <- MCSupply
  Decimals <- MCDecimals
  FeeBps = 30
  WithdrawalTimelock = 0
  ChannelTimelock = 1
  MaxTime = 1
INVARIANTS
  TypeOK
  EveryPaymentCountsOnce
PROPERTIES
  SharedFundsDrainLast
  PaymentsAreAuthorised
