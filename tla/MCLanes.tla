------------------------------ MODULE MCLanes ------------------------------
(***************************************************************************)
(* One lane from a to b: collateral moves in and out of it and its key     *)
(* changes between a's own and a delegate's, while commitments of both     *)
(* keys are signed, settled by the payee or by the settler that they name, *)
(* and replayed, and time passes.                                          *)
(***************************************************************************)
EXTENDS RyvoSafety

CONSTANTS a, b, delegate, hub, t

LaneAB == [payer |-> a, payee |-> b, token |-> t]

MCLanes == {LaneAB}
MCCommitments ==
  {[lane |-> LaneAB, amount |-> 1, signer |-> a, settler |-> NoKey],
   [lane |-> LaneAB, amount |-> 2, signer |-> a, settler |-> hub],
   [lane |-> LaneAB, amount |-> 2, signer |-> delegate, settler |-> NoKey]}
MCSupply == [u \in {t} |-> 3]
MCDecimals == [u \in {t} |-> 0]

\* Nobody registers a BLS key here, b changes its policy until the lane is open
\* and neither pays in nor withdraws: these play a part only with a second lane,
\* or in the runs on settlement and withdrawals.
LanesNext ==
  /\ Next
  /\ UNCHANGED <<bls, funded[<<b, t>>]>> /\ slot'[<<b, t>>].withdrawing_balance = 0
  /\ policy' # policy => ~lane[LaneAB].initialized /\ policy'[a] = policy[a]

LanesSpec == Init /\ [][LanesNext]_vars /\ UnlockFairness
=============================================================================
