---------------------------- MODULE MockReserve ----------------------------
(***************************************************************************)
(* The lending reserve of the mock-yield program: a Reserve account, the   *)
(* supply of its share mint (cUSDC) and its liquidity vault.  Depositors   *)
(* buy shares at the current rate total_underlying / share_supply, holders *)
(* redeem them; every rounding is down.  Can... is the condition under     *)
(* which a handler returns Ok.                                             *)
(***************************************************************************)
EXTENDS BucketSlots

CONSTANTS
  MaxApyBps,         \* MAX_APY_BPS
  InterestDenominator \* BPS_DENOM * SECONDS_PER_YEAR

ASSUME InterestAssumption ==
  MaxApyBps \in Nat /\ InterestDenominator \in Nat \ {0}

ReserveState ==
  [ apy_bps          : 0 .. MaxApyBps,
    last_accrual_ts  : Nat,
    total_underlying : Nat,
    share_supply     : Nat,   \* supply of share_mint
    liquidity        : Nat ]  \* token balance of liquidity_vault

\* initialize_reserve, with the buffer that operators put into the vault by a
\* plain transfer so that simulated interest can be paid.
InitialReserve(apyBps, ts, buffer) ==
  [ apy_bps |-> apyBps, last_accrual_ts |-> ts,
    total_underlying |-> 0, share_supply |-> 0, liquidity |-> buffer ]

(***************************************************************************)
(* accrue_inner: linear interest at the current rate, rounded down.  It is *)
(* booked in total_underlying only; no token moves.                        *)
(***************************************************************************)
Interest(r, ts) ==
  (r.total_underlying * r.apy_bps * (ts - r.last_accrual_ts)) \div InterestDenominator

CanAccrue(r, ts) ==
  ts > r.last_accrual_ts => Fits(r.total_underlying + Interest(r, ts))

Accrued(r, ts) ==
  IF ts <= r.last_accrual_ts
  THEN r
  ELSE [r EXCEPT !.total_underlying = @ + Interest(r, ts), !.last_accrual_ts = ts]

(***************************************************************************)
(* update_apy_bps accrues at the old rate before it takes the new one.     *)
(***************************************************************************)
CanUpdateApy(r, newApyBps, ts) == newApyBps <= MaxApyBps /\ CanAccrue(r, ts)

UpdatedApyMutant(r, newApyBps, ts) == [r EXCEPT !.apy_bps = newApyBps]
UpdatedApy(r, newApyBps, ts) == [Accrued(r, ts) EXCEPT !.apy_bps = newApyBps]

(***************************************************************************)
(* deposit_reserve_liquidity and redeem_reserve_collateral of a reserve    *)
(* that has accrued; the caller's tokens and shares are the caller's to    *)
(* check.                                                                  *)
(***************************************************************************)
SharesForMutant(r, amount) ==
  IF r.share_supply = 0 \/ r.total_underlying = 0
  THEN amount
  ELSE (amount * r.share_supply + r.total_underlying - 1) \div r.total_underlying
SharesFor(r, amount) ==
  IF r.share_supply = 0 \/ r.total_underlying = 0
  THEN amount
  ELSE (amount * r.share_supply) \div r.total_underlying

CanDepositLiquidity(r, amount) ==
  /\ amount > 0
  /\ SharesFor(r, amount) > 0
  /\ Fits(SharesFor(r, amount))
  /\ Fits(r.total_underlying + amount)
  /\ Fits(r.share_supply + SharesFor(r, amount))

LiquidityDeposited(r, amount) ==
  [r EXCEPT !.total_underlying = @ + amount,
            !.share_supply = @ + SharesFor(r, amount),
            !.liquidity = @ + amount]

UnderlyingFor(r, shares) == (shares * r.total_underlying) \div r.share_supply

CanRedeem(r, shares) ==
  /\ shares > 0
  /\ r.share_supply > 0
  /\ shares <= r.share_supply
  /\ Fits(UnderlyingFor(r, shares))
  /\ UnderlyingFor(r, shares) <= r.total_underlying
  /\ UnderlyingFor(r, shares) <= r.liquidity

Redeemed(r, shares) ==
  [r EXCEPT !.total_underlying = @ - UnderlyingFor(r, shares),
            !.share_supply = @ - shares,
            !.liquidity = @ - UnderlyingFor(r, shares)]
=============================================================================
