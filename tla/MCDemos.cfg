SPECIFICATION DemosSpec
CONSTANTS
  w1 = w1
  w2 = w2
  w3 = w3
  w4 = w4
  usdc = usdc
  ryusdc = ryusdc
  NoKey = NoKey
  MaxU64 = 511
  MaxApyBps = 2
  InterestDenominator = 32
  DefaultShareBps = 5000
  MaxShareBps = 5000
  Plain = usdc
  Wrapper = ryusdc
  YieldShareBps = 0
  Apys = {1, 2}
  Buffer = 0
  Participants = {w1, w2, w3, w4}
  Keys = {w1, w2, w3, w4}
  Tokens = {usdc, ryusdc}
  YieldTokens = {ryusdc}
  Lanes <- MCLanes
  Commitments = {}
  Rounds = {}
  VaultAccount = VaultAccount
  Destinations = {w1, w2, w3, w4}
  SignerChoices = {}
  Amounts = {1}
  MaxRecipients = 1
  MaxTokenBalances = 2
  Supply <- MCSupply
  Decimals <- MCDecimals
  FeeBps = 30
  WithdrawalTimelock = 0
  ChannelTimelock = 1
  MaxTime = 4
  Tok = usdc
  Wallets <- MCWallets
  Deposits <- MCDeposits
  TokensPerWallet = 2
  DeployerFunds = 20
  Single <- MCSingle
  Buyers <- MCBuyers
  PerBundle = 1
  Route <- MCRoute
  Due <- MCDue
  MaxRuns = 6
  MaxFaults = 2
INVARIANTS
  PaidOnce
  ReportsAreTrue
  RedemptionsAreCovered
PROPERTIES
  DemosEnd
CHECK_DEADLOCK FALSE
