-------------------------- MODULE RyvoYieldSafety --------------------------
(***************************************************************************)
(* What the wrapper promises to its holders and to the protocol, what the  *)
(* rounding of four conversions leaves of it, and what the reserve owes    *)
(* both.                                                                   *)
(***************************************************************************)
EXTENDS RyvoSafety, RyvoYield

\* Type correctness of the composed system: counters and vaults are never
\* negative, and the share vault holds reserve shares that exist.
YieldTypeOK ==
  /\ TypeOK
  /\ strategy \in StrategyState
  /\ strategy.user_index >= IndexOne
  /\ reserve \in ReserveState
  /\ shareVault \in 0 .. reserve.share_supply

-----------------------------------------------------------------------------
(***************************************************************************)
(* Shares.                                                                 *)
(***************************************************************************)
HeldShares == HeldBy(Wrapper)
LockedShares == LockedOn({l \in Lanes : l.token = Wrapper})

\* The strategy's share counter is the sum of what participants hold free or
\* withdrawing and of what their lanes hold locked: lanes, settlements, clearing
\* rounds and withdrawals that were drained meanwhile neither make nor lose a
\* share, so the index is divided among exactly the shares there are.
SharesAreAccounted == strategy.total_user_shares = HeldShares + LockedShares

-----------------------------------------------------------------------------
(***************************************************************************)
(* Value.                                                                  *)
(***************************************************************************)
ShareVaultValue == CusdcToUsdc(shareVault, reserve)

\* The module comment of the strategy: the value of the share vault is always at
\* least what is owed to users and to the protocol.
ShareVaultCoversOwing == ShareVaultValue >= Owing(strategy)

\* The most one reserve share is worth, in whole underlying tokens.
OneReserveShare ==
  (reserve.total_underlying + reserve.share_supply - 1) \div reserve.share_supply

\* Rounding never adds up: whatever users deposited, opted, cashed and claimed,
\* and however other depositors moved the reserve, what is owed exceeds what the
\* share vault is worth by at most one reserve share.
ShortfallIsOneReserveShare ==
  IF reserve.share_supply = 0
  THEN Owing(strategy) = 0
  ELSE Owing(strategy) <= ShareVaultValue + OneReserveShare

\* A reserve share is never worth less than before: no deposit or redemption,
\* by the program or by others, takes value from the shares that remain.
ReserveShareKeepsValue ==
  [][reserve.share_supply > 0 /\ reserve'.share_supply > 0 =>
       reserve'.total_underlying * reserve.share_supply
         >= reserve.total_underlying * reserve'.share_supply]_allVars

\* While the clock stands still the reserve's worth moves only with its shares:
\* accruing again earns nothing, and a new rate earns nothing for the time
\* before it ("the new rate only applies to time after this instruction
\* lands", mock-yield lib.rs lines 93-95).
RatesApplyForward ==
  [][now' = now /\ reserve'.share_supply = reserve.share_supply =>
       FreshReserve'.total_underlying = FreshReserve.total_underlying]_allVars

\* What a wrapper share is worth never falls, and the protocol's claim shrinks
\* only when the fee recipient collects it: neither deposits and withdrawals nor
\* a loss of value in the reserve take from what was attributed before.
AttributedYieldIsKept ==
  [][/\ strategy'.user_index >= strategy.user_index
     /\ strategy'.protocol_owed_underlying < strategy.protocol_owed_underlying =>
          \E n \in Amounts : ClaimProtocolYieldFee(n)]_allVars
=============================================================================
