--------------------------- MODULE YieldStrategy ---------------------------
(***************************************************************************)
(* The YieldStrategy account of a wrapper token (state/yield_strategy.rs)  *)
(* and the conversions of instructions/yield_bearing.rs.  Users hold       *)
(* shares worth user_index each, in fixed point; the protocol holds a      *)
(* claim in underlying tokens; both are backed by the reserve shares       *)
(* (cUSDC) in the strategy's share vault.                                  *)
(***************************************************************************)
EXTENDS MockReserve

CONSTANTS DefaultShareBps, MaxShareBps \* DEFAULT_ and MAX_PROTOCOL_YIELD_SHARE_BPS

ASSUME ShareBpsAssumption ==
  DefaultShareBps \in 0 .. MaxShareBps /\ MaxShareBps \in 0 .. 10000

\* Q64_ONE: the index has as many fractional bits as the integers have bits.
IndexOne == MaxU64 + 1

\* A u128 multiplication does not overflow.
FitsWide(n) == n < IndexOne * IndexOne

StrategyState ==
  [ protocol_yield_share_bps : 0 .. MaxShareBps,
    user_index               : Nat,
    last_settled_underlying  : Nat,
    total_user_shares        : Nat,
    protocol_owed_underlying : Nat ]

\* register_yield_bearing_token; a share of 0 stands for the default.
InitialStrategy(shareBps) ==
  [ protocol_yield_share_bps |-> IF shareBps = 0 THEN DefaultShareBps ELSE shareBps,
    user_index               |-> IndexOne,
    last_settled_underlying  |-> 0,
    total_user_shares        |-> 0,
    protocol_owed_underlying |-> 0 ]

\* user_underlying_owed, usdc_to_shares and shares_to_usdc all round down.
UserOwed(s) == (s.total_user_shares * s.user_index) \div IndexOne
UsdcToShares(s, usdc) == (usdc * IndexOne) \div s.user_index
SharesToUsdc(s, shares) == (shares * s.user_index) \div IndexOne

CanSharesToUsdc(s, shares) ==
  FitsWide(shares * s.user_index) /\ Fits(SharesToUsdc(s, shares))

(***************************************************************************)
(* require_solvent.                                                        *)
(***************************************************************************)
Owing(s) == UserOwed(s) + s.protocol_owed_underlying

RequireSolvent(s, underlying) ==
  /\ CanSharesToUsdc(s, s.total_user_shares)
  /\ Fits(Owing(s))
  /\ underlying >= Owing(s)

(***************************************************************************)
(* apply_yield_delta: the protocol takes its share of new value, users the *)
(* rest through the index; with no shares out, all goes to the protocol.   *)
(***************************************************************************)
ProtocolCut(s, delta) == (delta * s.protocol_yield_share_bps) \div 10000

IndexDelta(s, delta) ==
  ((delta - ProtocolCut(s, delta)) * IndexOne) \div s.total_user_shares

CanApplyYieldDelta(s, delta) ==
  IF s.total_user_shares = 0
  THEN Fits(s.protocol_owed_underlying + delta)
  ELSE /\ Fits(s.protocol_owed_underlying + ProtocolCut(s, delta))
       /\ FitsWide(s.user_index + IndexDelta(s, delta))

ApplyYieldDelta(s, delta) ==
  IF s.total_user_shares = 0
  THEN [s EXCEPT !.protocol_owed_underlying = @ + delta]
  ELSE [s EXCEPT !.user_index = @ + IndexDelta(s, delta),
                 !.protocol_owed_underlying = @ + ProtocolCut(s, delta)]

(***************************************************************************)
(* cusdc_to_usdc and usdc_to_cusdc_round_down at the rate of reserve r.    *)
(***************************************************************************)
CusdcToUsdcMutant(cusdc, r) ==
  IF r.share_supply = 0 \/ cusdc = 0
  THEN 0
  ELSE (cusdc * r.total_underlying + r.share_supply - 1) \div r.share_supply
CusdcToUsdc(cusdc, r) ==
  IF r.share_supply = 0 \/ cusdc = 0
  THEN 0
  ELSE (cusdc * r.total_underlying) \div r.share_supply

UsdcToCusdcMutant(usdc, r) ==
  IF usdc = 0
  THEN 0
  ELSE (usdc * r.share_supply + r.total_underlying - 1) \div r.total_underlying
UsdcToCusdc(usdc, r) ==
  IF usdc = 0 THEN 0 ELSE (usdc * r.share_supply) \div r.total_underlying

CanUsdcToCusdc(usdc, r) ==
  usdc > 0 => r.total_underlying > 0 /\ Fits(UsdcToCusdc(usdc, r))

(***************************************************************************)
(* accrue_strategy, given the accrued reserve: value above what was last   *)
(* settled is new yield.  A loss only lowers last_settled_underlying.      *)
(***************************************************************************)
NewYield(s, r, shareVault) ==
  LET current == CusdcToUsdc(shareVault, r)
  IN  IF current > s.last_settled_underlying
      THEN current - s.last_settled_underlying
      ELSE 0

CanAccrueStrategy(s, r, shareVault) ==
  /\ Fits(CusdcToUsdc(shareVault, r))
  /\ NewYield(s, r, shareVault) > 0 => CanApplyYieldDelta(s, NewYield(s, r, shareVault))

AccruedStrategyMutant(s, r, shareVault) ==
  LET current == CusdcToUsdc(shareVault, r)
  IN  [ApplyYieldDelta(s, current - s.last_settled_underlying)
         EXCEPT !.last_settled_underlying = current]
AccruedStrategy(s, r, shareVault) ==
  LET grown == IF NewYield(s, r, shareVault) > 0
               THEN ApplyYieldDelta(s, NewYield(s, r, shareVault))
               ELSE s
  IN  [grown EXCEPT !.last_settled_underlying = CusdcToUsdc(shareVault, r)]

\* What a deposit mints and a cashing burns in the strategy's books.
CanMintShares(s, amount) ==
  /\ UsdcToShares(s, amount) > 0
  /\ Fits(UsdcToShares(s, amount))
  /\ Fits(s.total_user_shares + UsdcToShares(s, amount))
  /\ Fits(s.last_settled_underlying + amount)

SharesMinted(s, amount) ==
  [s EXCEPT !.total_user_shares = @ + UsdcToShares(s, amount),
            !.last_settled_underlying = @ + amount]

SharesBurnedMutant(s, shares, underlying) ==
  [s EXCEPT !.last_settled_underlying = Greater(@ - underlying, 0)]
SharesBurned(s, shares, underlying) ==
  [s EXCEPT !.total_user_shares = @ - shares,
            !.last_settled_underlying = Greater(@ - underlying, 0)]
=============================================================================
