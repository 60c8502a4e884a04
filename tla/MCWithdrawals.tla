--------------------------- MODULE MCWithdrawals ---------------------------
(***************************************************************************)
(* Withdrawals of two participants in two tokens, with token tables that   *)
(* hold one entry, while a's commitments to b drain what a is withdrawing. *)
(***************************************************************************)
EXTENDS RyvoSafety

CONSTANTS a, b, t, u

LaneAB == [payer |-> a, payee |-> b, token |-> t]

MCLanes == {LaneAB}
MCCommitments == [lane : MCLanes, amount : {1, 2}, signer : {a}, settler : {NoKey}]

\* Few of t's units make up the smallest fee; every withdrawal of t is
\* smaller than it.  The fee on u is its smallest unit.
MCSupply == [x \in {t, u} |-> IF x = t THEN 3 ELSE 1]
MCDecimals == [x \in {t, u} |-> IF x = t THEN 2 ELSE 0]

\* The lane exists from the start and holds no collateral: payments come out
\* of a's shared balance, withdrawing or not.
WithdrawalsInit ==
  /\ now = 1
  /\ slot = [x \in Accounts |-> EmptyEntry]
  /\ lane = [l \in Lanes |-> InitializeLane(l.payer)]
  /\ vault = [x \in Tokens |-> 0]
  /\ policy = [p \in Participants |-> "ConsentRequired"]
  /\ bls = {}
  /\ signed = {}
  /\ funded = [x \in Accounts |-> 0]
  /\ asked = [l \in Lanes |-> NoAsk]
  /\ rotation = [l \in Lanes |-> NoRotation]

WithdrawalsSpec ==
  /\ WithdrawalsInit
  /\ [][Next /\ UNCHANGED <<memberVars, asked, rotation>>]_vars
  /\ WithdrawalFairness
=============================================================================
