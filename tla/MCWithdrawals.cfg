SPECIFICATION WithdrawalsSpec
CONSTANTS
  a = a
  b = b
  t = t
  u = u
  NoKey = NoKey
  MaxU64 = 7
  Participants = {a, b}
  Keys = {a, b}
  Tokens = {t, u}
  YieldTokens = {}
  Lanes <- MCLanes
  Commitments <- MCCommitments
  Rounds = {}
  VaultAccount = VaultAccount
  Destinations = {a, VaultAccount}
  SignerChoices = {}
  Amounts = {1, 2}
  MaxRecipients = 1
  MaxTokenBalances = 1
  Supply <- MCSupply
  Decimals <- MCDecimals
  FeeBps = 30
  WithdrawalTimelock = 1
  ChannelTimelock = 3
  MaxTime = 3
INVARIANTS
  VaultBacksLiabilities
PROPERTIES
  PendingWithdrawalIsPinned
  WithdrawalCompletes
