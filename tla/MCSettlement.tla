---------------------------- MODULE MCSettlement ----------------------------
(***************************************************************************)
(* Three participants whose lanes form a cycle, plus a second lane into b: *)
(* single commitments, bundles for b and clearing rounds compete for the   *)
(* same lanes and balances in every order.                                 *)
(***************************************************************************)
EXTENDS RyvoSafety

CONSTANTS a, b, c, t

Open(p, q) == [payer |-> p, payee |-> q, token |-> t]
AB == Open(a, b)
BC == Open(b, c)
CA == Open(c, a)
CB == Open(c, b)

MCLanes == {AB, BC, CA, CB}

\* a pays b through c as settler; c's two commitments to b supersede each other.
MCCommitments ==
  {[lane |-> AB, amount |-> 1, signer |-> a, settler |-> c],
   [lane |-> CB, amount |-> 1, signer |-> c, settler |-> NoKey],
   [lane |-> CB, amount |-> 2, signer |-> c, settler |-> NoKey]}

\* A cycle that nets to nothing, and a round in which b receives twice.
Cycle == [token |-> t, targets |-> [l \in {AB, BC, CA} |-> 2]]
Fan == [token |-> t, targets |-> [l \in {AB, CB} |-> IF l = AB THEN 2 ELSE 1]]
MCRounds == {Cycle, Fan}

MCSupply == [u \in {t} |-> 3]
MCDecimals == [u \in {t} |-> 0]

\* Lanes exist and every message is signed but a's part of the rounds; a and c
\* have registered BLS keys, b has not.  What is left is the order in which
\* money moves, a and b join the rounds and messages are submitted.
SettlementInit ==
  /\ now = 1
  /\ slot = [x \in Accounts |-> EmptyEntry]
  /\ lane = [l \in Lanes |-> InitializeLane(l.payer)]
  /\ vault = [u \in Tokens |-> 0]
  /\ policy = [p \in Participants |-> "ConsentRequired"]
  /\ bls = {a, c}
  /\ signed = MCCommitments \cup [round : MCRounds, by : {b, c}]
  /\ funded = [x \in Accounts |-> 0]
  /\ asked = [l \in Lanes |-> NoAsk]
  /\ rotation = [l \in Lanes |-> NoRotation]

SettlementSpec == SettlementInit /\ [][Next /\ UNCHANGED policy]_vars
=============================================================================
