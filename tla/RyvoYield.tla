----------------------------- MODULE RyvoYield -----------------------------
(***************************************************************************)
(* The yield-bearing wrapper of a plain token (instructions/               *)
(* yield_bearing.rs), composed with the settlement core and the lending    *)
(* reserve of the mock-yield program.  Wrapper shares are entries of       *)
(* participants like any token's, so lanes lock and settle them; the       *)
(* instructions here mint and cash them, and every one of them accrues     *)
(* first and requires solvency last.  A call into mock-yield is part of    *)
(* the action that makes it; mock-yield's own instructions, submitted by   *)
(* its authority and by other depositors, are actions too.                 *)
(***************************************************************************)
EXTENDS RyvoCore, YieldStrategy

CONSTANTS
  Plain,          \* registered plain token of the underlying mint
  Wrapper,        \* registered yield-bearing token over it
  YieldShareBps,  \* protocol_yield_share_bps given at registration
  Apys,           \* rates the reserve's authority may set
  Buffer          \* tokens put into the reserve's vault when it is set up

ASSUME YieldAssumption ==
  /\ Plain \in Tokens \ YieldTokens
  /\ YieldTokens = {Wrapper}
  /\ Wrapper \in Tokens
  /\ Decimals[Wrapper] = Decimals[Plain]
  /\ YieldShareBps \in 0 .. MaxShareBps
  /\ Apys \subseteq 0 .. MaxApyBps
  /\ Buffer \in 0 .. Supply[Plain]

VARIABLES
  strategy,   \* the YieldStrategy account
  shareVault, \* cUSDC in the strategy's share vault
  reserve     \* the mock-yield reserve

yieldVars == <<strategy, shareVault, reserve>>
allVars == <<vars, yieldVars>>

-----------------------------------------------------------------------------
\* register_yield_bearing_token over a reserve that is set up and still empty.
YieldInit ==
  /\ Init
  /\ strategy = InitialStrategy(YieldShareBps)
  /\ shareVault = 0
  /\ \E apy \in Apys : reserve = InitialReserve(apy, now, Buffer)

\* The reserve and the strategy as they are once accrue_strategy has run.
FreshReserve == Accrued(reserve, now)
FreshStrategy == AccruedStrategy(strategy, FreshReserve, shareVault)
CanRefresh ==
  CanAccrue(reserve, now) /\ CanAccrueStrategy(strategy, FreshReserve, shareVault)

\* Tokens of the underlying mint that are in neither vault exist to be moved.
WithinSupply == vault'[Plain] + reserve'.liquidity <= Supply[Plain]

\* require_solvent at the end of a handler, against the tracked value.
EndsSolvent == RequireSolvent(strategy', strategy'.last_settled_underlying)

AccrueYield ==
  /\ CanRefresh
  /\ reserve' = FreshReserve
  /\ strategy' = FreshStrategy
  /\ EndsSolvent
  /\ UNCHANGED <<vars, shareVault>>

-----------------------------------------------------------------------------
(***************************************************************************)
(* Into the wrapper: from a wallet, or from the owner's plain entry.       *)
(***************************************************************************)
\* deposit_reserve_liquidity pays shares into the share vault, and p's entry
\* is credited with wrapper shares at the current index.
Mint(p, amount) ==
  /\ CanRefresh
  /\ CanDepositLiquidity(FreshReserve, amount)
  /\ CanMintShares(FreshStrategy, amount)
  /\ CanCredit(p, Wrapper, UsdcToShares(FreshStrategy, amount))
  /\ reserve' = LiquidityDeposited(FreshReserve, amount)
  /\ shareVault' = shareVault + SharesFor(FreshReserve, amount)
  /\ strategy' = SharesMinted(FreshStrategy, amount)
  /\ EndsSolvent

DepositYieldBearing(p, amount) ==
  LET shares == UsdcToShares(FreshStrategy, amount)
      own == <<p, Wrapper>>
  IN  /\ amount > 0
      /\ Mint(p, amount)
      /\ slot' = [slot EXCEPT ![own] = Credit(@, shares)]
      /\ funded' = [funded EXCEPT ![own] = @ + shares]
      /\ UNCHANGED <<now, vault, laneVars, memberVars, signed>>
      /\ WithinSupply

OptInYield(p, amount) ==
  LET shares == UsdcToShares(FreshStrategy, amount)
      own == <<p, Wrapper>>
      plain == <<p, Plain>>
  IN  /\ amount > 0
      /\ CanDebitAvailable(slot[plain], amount)
      /\ vault[Plain] >= amount
      /\ Mint(p, amount)
      /\ slot' = [slot EXCEPT ![own] = Credit(@, shares), ![plain] = DebitAvailable(@, amount)]
      /\ vault' = [vault EXCEPT ![Plain] = @ - amount]
      /\ funded' = [funded EXCEPT ![own] = @ + shares, ![plain] = @ - amount]
      /\ UNCHANGED <<now, laneVars, memberVars, signed>>

-----------------------------------------------------------------------------
(***************************************************************************)
(* Out of the wrapper: to the owner's plain entry at once, or to a token   *)
(* account after the withdrawal timelock.                                  *)
(***************************************************************************)
\* The plain entry is credited with what the redemption pays.
OptOutYield(p, shares) ==
  LET owed == SharesToUsdc(FreshStrategy, shares)
      cusdc == UsdcToCusdc(owed, FreshReserve)
      received == CusdcToUsdc(cusdc, FreshReserve)
      own == <<p, Wrapper>>
      plain == <<p, Plain>>
  IN  /\ shares > 0
      /\ CanRefresh
      /\ CanDebitAvailable(slot[own], shares)
      /\ CanSharesToUsdc(FreshStrategy, shares)
      /\ owed > 0
      /\ CanUsdcToCusdc(owed, FreshReserve)
      /\ cusdc > 0
      /\ received > 0
      /\ cusdc <= shareVault
      /\ CanRedeem(FreshReserve, cusdc)
      /\ shares <= strategy.total_user_shares
      /\ CanCredit(p, Plain, received)
      /\ reserve' = Redeemed(FreshReserve, cusdc)
      /\ shareVault' = shareVault - cusdc
      /\ strategy' = SharesBurned(FreshStrategy, shares, received)
      /\ EndsSolvent
      /\ slot' = [slot EXCEPT ![own] = DebitAvailable(@, shares), ![plain] = Credit(@, received)]
      /\ vault' = [vault EXCEPT ![Plain] = @ + UnderlyingFor(FreshReserve, cusdc)]
      /\ funded' = [funded EXCEPT ![own] = @ - shares, ![plain] = @ + received]
      /\ UNCHANGED <<now, laneVars, memberVars, signed>>

RequestWithdrawalYieldBearing(p, shares, destination) ==
  LET own == <<p, Wrapper>>
  IN  /\ shares > 0
      /\ WithinHorizon(WithdrawalTimelock)
      /\ CanInitiateWithdrawal(slot[own], shares)
      /\ slot' = [slot EXCEPT ![own] = InitiateWithdrawal(@, shares, destination,
                                                        now + WithdrawalTimelock)]
      /\ UNCHANGED <<now, vault, funded, laneVars, memberVars, signed, yieldVars>>

\* A withdrawal that settlements drained to nothing is only cleared; solvency
\* is then required of the share vault's value.
ClearDrainedWithdrawal(p) ==
  LET own == <<p, Wrapper>>
  IN  /\ slot[own].withdrawing_balance = 0
      /\ reserve' = FreshReserve
      /\ strategy' = FreshStrategy
      /\ RequireSolvent(strategy', CusdcToUsdc(shareVault, FreshReserve))
      /\ slot' = [slot EXCEPT ![own] = ClearWithdrawal(@)]
      /\ UNCHANGED <<now, vault, funded, shareVault, laneVars, memberVars, signed>>

\* Net amount and fee are redeemed one after the other; a part worth less
\* than one cUSDC is not paid.
RedeemPart(r, cusdc) == IF cusdc > 0 THEN Redeemed(r, cusdc) ELSE r
CanRedeemPart(r, cusdc) == cusdc > 0 => CanRedeem(r, cusdc)

CashWithdrawal(p) ==
  LET own == <<p, Wrapper>>
      shares == slot[own].withdrawing_balance
      gross == SharesToUsdc(FreshStrategy, shares)
      fee == WithdrawalFee(Wrapper, gross)
      cusdcNet == UsdcToCusdc(gross - fee, FreshReserve)
      cusdcFee == UsdcToCusdc(fee, FreshReserve)
      netPaid == RedeemPart(FreshReserve, cusdcNet)
      paid == FreshReserve.liquidity - netPaid.liquidity
  IN  /\ shares > 0
      /\ CanSharesToUsdc(FreshStrategy, shares)
      /\ ScaledMinFee(Wrapper) \in 0 .. MaxU64
      /\ CanUsdcToCusdc(gross - fee, FreshReserve)
      /\ CanUsdcToCusdc(fee, FreshReserve)
      /\ cusdcNet + cusdcFee <= shareVault
      /\ CanRedeemPart(FreshReserve, cusdcNet)
      /\ CanRedeemPart(netPaid, cusdcFee)
      /\ shares <= strategy.total_user_shares
      /\ reserve' = RedeemPart(netPaid, cusdcFee)
      /\ shareVault' = shareVault - cusdcNet - cusdcFee
      /\ strategy' = SharesBurned(FreshStrategy, shares, gross)
      /\ EndsSolvent
      /\ slot' = [slot EXCEPT ![own] = ClearWithdrawal(@)]
      /\ vault' = IF slot[own].withdrawal_destination = VaultAccount
                  THEN [vault EXCEPT ![Plain] = @ + paid]
                  ELSE vault
      /\ funded' = [funded EXCEPT ![own] = @ - shares]
      /\ UNCHANGED <<now, laneVars, memberVars, signed>>

ExecuteWithdrawalYieldBearing(p) ==
  /\ CanRefresh
  /\ slot[<<p, Wrapper>>].initialized
  /\ HasWithdrawal(slot[<<p, Wrapper>>])
  /\ now >= slot[<<p, Wrapper>>].withdrawal_unlock_at
  /\ ClearDrainedWithdrawal(p) \/ CashWithdrawal(p)

\* The claim shrinks by what was asked for, also where rounding pays less.
ClaimProtocolYieldFee(amount) ==
  LET cusdc == UsdcToCusdc(amount, FreshReserve)
  IN  /\ amount > 0
      /\ CanRefresh
      /\ amount <= FreshStrategy.protocol_owed_underlying
      /\ CanUsdcToCusdc(amount, FreshReserve)
      /\ cusdc <= shareVault
      /\ CanRedeem(FreshReserve, cusdc)
      /\ reserve' = Redeemed(FreshReserve, cusdc)
      /\ shareVault' = shareVault - cusdc
      /\ strategy' = [SharesBurned(FreshStrategy, 0, amount)
                        EXCEPT !.protocol_owed_underlying = @ - amount]
      /\ EndsSolvent
      /\ UNCHANGED vars

-----------------------------------------------------------------------------
(***************************************************************************)
(* mock-yield's own instructions: anyone may accrue, deposit, or redeem    *)
(* shares that are not in the strategy's vault; the authority sets a rate. *)
(***************************************************************************)
AccrueReserve ==
  /\ CanAccrue(reserve, now)
  /\ reserve' = FreshReserve
  /\ UNCHANGED <<vars, strategy, shareVault>>

UpdateApyBps(apy) ==
  /\ CanUpdateApy(reserve, apy, now)
  /\ reserve' = UpdatedApy(reserve, apy, now)
  /\ UNCHANGED <<vars, strategy, shareVault>>

DepositReserveLiquidity(amount) ==
  /\ CanAccrue(reserve, now)
  /\ CanDepositLiquidity(FreshReserve, amount)
  /\ reserve' = LiquidityDeposited(FreshReserve, amount)
  /\ UNCHANGED <<vars, strategy, shareVault>>
  /\ WithinSupply

RedeemReserveCollateral(shares) ==
  /\ CanAccrue(reserve, now)
  /\ shares <= reserve.share_supply - shareVault
  /\ CanRedeem(FreshReserve, shares)
  /\ reserve' = Redeemed(FreshReserve, shares)
  /\ UNCHANGED <<vars, strategy, shareVault>>

\* The settlement core's instructions; no token is paid in that is in a vault.
CoreNext == Next /\ UNCHANGED yieldVars /\ WithinSupply

WrapperNext ==
  \/ AccrueYield
  \/ \E p \in Participants, n \in Amounts : DepositYieldBearing(p, n)
  \/ \E p \in Participants, n \in Amounts : OptInYield(p, n)
  \/ \E p \in Participants, n \in Amounts : OptOutYield(p, n)
  \/ \E p \in Participants, n \in Amounts, d \in Destinations :
       RequestWithdrawalYieldBearing(p, n, d)
  \/ \E p \in Participants : ExecuteWithdrawalYieldBearing(p)
  \/ \E n \in Amounts : ClaimProtocolYieldFee(n)

ReserveNext ==
  \/ AccrueReserve
  \/ \E apy \in Apys : UpdateApyBps(apy)
  \/ \E n \in Amounts : DepositReserveLiquidity(n)
  \/ \E n \in Amounts : RedeemReserveCollateral(n)

YieldNext == CoreNext \/ WrapperNext \/ ReserveNext

YieldSpec == YieldInit /\ [][YieldNext]_allVars
=============================================================================
