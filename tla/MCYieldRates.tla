--------------------------- MODULE MCYieldRates ---------------------------
(***************************************************************************)
(* One holder of wrapper shares, the fee recipient and another depositor   *)
(* of the reserve, over several periods of interest at rates that change:  *)
(* every combination of roundings between them.                            *)
(***************************************************************************)
EXTENDS RyvoYieldSafety

CONSTANTS a, usdc, ryusdc

MCSupply == [x \in {usdc, ryusdc} |-> IF x = usdc THEN 6 ELSE 0]
MCDecimals == [x \in {usdc, ryusdc} |-> 0]

\* Withdrawals of the plain token are left to the runs on the core.
PlainStays == ~HasWithdrawal(slot'[<<a, usdc>>])

RatesSpec ==
  YieldInit /\ [][YieldNext /\ PlainStays /\ UNCHANGED memberVars]_allVars
=============================================================================
