--------------------------- MODULE MCYieldLanes ---------------------------
(***************************************************************************)
(* Wrapper shares in a lane: a mints shares, locks and pays them to b, and *)
(* both cash what they have while the reserve earns interest and another   *)
(* depositor moves it.                                                     *)
(***************************************************************************)
EXTENDS RyvoYieldSafety

CONSTANTS a, b, usdc, ryusdc

LaneAB == [payer |-> a, payee |-> b, token |-> ryusdc]

MCLanes == {LaneAB}
MCCommitments == [lane : MCLanes, amount : {1}, signer : {a}, settler : {NoKey}]
MCSupply == [x \in {usdc, ryusdc} |-> IF x = usdc THEN 5 ELSE 0]
MCDecimals == [x \in {usdc, ryusdc} |-> 0]

\* The lane is open and its payment signed; nothing is deposited yet.
LanesInit ==
  /\ now = 1
  /\ slot = [x \in Accounts |-> EmptyEntry]
  /\ lane = [l \in Lanes |-> InitializeLane(l.payer)]
  /\ vault = [x \in Tokens |-> 0]
  /\ policy = [p \in Participants |-> "ConsentRequired"]
  /\ bls = {}
  /\ signed = MCCommitments
  /\ funded = [x \in Accounts |-> 0]
  /\ asked = [l \in Lanes |-> NoAsk]
  /\ rotation = [l \in Lanes |-> NoRotation]
  /\ strategy = InitialStrategy(YieldShareBps)
  /\ shareVault = 0
  /\ \E apy \in Apys : reserve = InitialReserve(apy, now, Buffer)

\* What the runs on the core cover is left out here: unlocks, and withdrawals
\* of the plain token.  b pays nothing in: its shares come from the lane, its
\* plain tokens from shares.
PlainStays == \A p \in Participants : ~HasWithdrawal(slot'[<<p, usdc>>])
PayeeOnlyReceives ==
  /\ funded'[<<b, ryusdc>>] <= funded[<<b, ryusdc>>]
  /\ funded'[<<b, usdc>>] > funded[<<b, usdc>>] =>
       funded'[<<b, ryusdc>>] < funded[<<b, ryusdc>>]

LanesNext ==
  YieldNext /\ PlainStays /\ PayeeOnlyReceives /\ UNCHANGED <<memberVars, asked, rotation>>

LanesSpec == LanesInit /\ [][LanesNext]_allVars
=============================================================================
