SPECIFICATION RatesSpec
CONSTANTS
  a = a
  usdc = usdc
  ryusdc = ryusdc
  NoKey = NoKey
  MaxU64 = 63
  MaxApyBps = 1
  InterestDenominator = 1
  DefaultShareBps = 5000
  MaxShareBps = 5000
  Plain = usdc
  Wrapper = ryusdc
  YieldShareBps = 0
  Apys = {0, 1}
  Buffer = 1
  Participants = {a}
  Keys = {a}
  Tokens = {usdc, ryusdc}
  YieldTokens = {ryusdc}
  Lanes = {}
  Commitments = {}
  Rounds = {}
  VaultAccount = VaultAccount
  Destinations = {a}
  SignerChoices = {a}
  Amounts = {1, 3}
  MaxRecipients = 0
  MaxTokenBalances = 2
  Supply <- MCSupply
  Decimals <- MCDecimals
  FeeBps = 30
  WithdrawalTimelock = 1
  ChannelTimelock = 1
  MaxTime = 3
INVARIANT ShareVaultCoversOwing
