---------------------------- MODULE MCColosseum ----------------------------
(***************************************************************************)
(* The three scripts that move money for the Colosseum demonstration: one  *)
(* funds the wallets of a merchant and two or three agents, one sets up    *)
(* the agents' lanes, and one drains them.  The operator runs one at a     *)
(* time, so each has its own initial state: the initial state chooses a    *)
(* script, and the variables of the other two rest.                        *)
(***************************************************************************)
EXTENDS ChannelsSetup, TLC

CONSTANTS
  m, a, b, c, t,
  ChannelsKnown,                  \* of DrainScript
  Target, Funds, AtStart, Created \* of FundWallets

VARIABLES
  script,                                   \* the one that is run
  ata, deployer, done, crossed,             \* of DrainScript
  fundPc, at, budget, funder, balance, accounts, brought \* of FundWallets

Draining == INSTANCE DrainScript WITH MaxFaults <- 2
Funding == INSTANCE FundWallets WITH
  Roster <- <<m, a, b, c>>, pc <- fundPc, MaxFaults <- 3

ASSUME DrainScriptAssumption == Draining!DrainAssumption
ASSUME FundWalletsAssumption == Funding!FundAssumption
\* The lanes are those the scripts open: from each agent to the merchant.
ASSUME ColosseumLanes == Lanes = {LaneTo(p) : p \in Range(Roster)}

MCRoster == <<a, b>>
MCLanes == {LaneTo(p) : p \in {a, b}}
MCSupply == [x \in {t} |-> 40]
MCDecimals == [x \in {t} |-> 0]

\* Setup finds a's first two commitments and b's; drain finds one that takes a's
\* collateral and what a is withdrawing.
Pays(p, n) == [lane |-> LaneTo(p), amount |-> n, signer |-> p, settler |-> NoKey]
CashedDuringSetup == {Pays(a, 1), Pays(a, 2), Pays(b, 1)}
CashedDuringDrain == {Pays(a, 3)}
MCCommitments == CashedDuringSetup \cup CashedDuringDrain

\* Wallets to fund: without a token account, with too little, with enough, and
\* with an empty account.
MCAtStart == (m :> 0) @@ (a :> 1) @@ (b :> 5) @@ (c :> 0)

-----------------------------------------------------------------------------
CoreInit ==
  /\ now = 1
  /\ policy = [p \in Participants |-> "ConsentRequired"]
  /\ bls = {}
  /\ asked = [l \in Lanes |-> NoAsk]
  /\ rotation = [l \in Lanes |-> NoRotation]

\* Before the setup the program is empty but for messages that are signed.
NothingYet ==
  /\ slot = [x \in Accounts |-> EmptyEntry]
  /\ lane = [l \in Lanes |-> UninitializedLane]
  /\ vault = [x \in Tokens |-> 0]
  /\ signed = CashedDuringSetup
  /\ funded = [x \in Accounts |-> 0]

\* Before the drain a holds 1 in a withdrawal to its own account and b holds 2;
\* both have locked 2.
Holds(n) == [EmptyEntry EXCEPT !.initialized = TRUE, !.available_balance = n]
InUse ==
  /\ slot = [x \in Accounts |->
               CASE x[1] = a -> InitiateWithdrawal(Holds(1), 1, a, 1 + WithdrawalTimelock)
                 [] x[1] = b -> Holds(2)
                 [] OTHER    -> EmptyEntry]
  /\ lane = [l \in Lanes |-> [InitializeLane(l.payer) EXCEPT !.locked_balance = 2]]
  /\ vault = [x \in Tokens |-> 7]
  /\ signed = CashedDuringDrain
  /\ funded = [x \in Accounts |-> CASE x[1] = a -> 3 [] x[1] = b -> 4 [] OTHER -> 0]

ColosseumInit ==
  /\ script \in {"fund", "setup", "drain"}
  /\ CoreInit
  /\ IF script = "drain" THEN InUse ELSE NothingYet
  /\ ata = [w \in Range(Wallets) |-> IF w = a THEN 1 ELSE Draining!Closed]
  /\ SetupInit /\ Draining!DrainInit /\ Funding!FundInit
  /\ script # "fund" => funder = CHOOSE n \in Funds : TRUE

setupOnly == <<seen, wallet, table, manifest>>
drainOnly == <<ata, deployer, done, crossed>>
fundOnly == <<fundPc, at, budget, funder, balance, accounts, brought>>
allVars == <<script, setupVars, drainOnly, fundOnly>>

Running(name, others) == script = name /\ UNCHANGED <<script, others>>

ColosseumNext ==
  \/ Running("fund", <<vars, pc, slack, setupOnly, drainOnly>>) /\ Funding!FundNext
  \/ Running("setup", <<drainOnly, fundOnly>>) /\ SetupNext
  \/ Running("drain", <<slack, setupOnly, fundOnly>>) /\ Draining!DrainNext

\* Each script's own fairness, while it runs.
ColosseumSpec ==
  /\ ColosseumInit /\ [][ColosseumNext]_allVars
  /\ WF_allVars(Running("fund", <<vars, pc, slack, setupOnly, drainOnly>>) /\ Funding!FundStep)
  /\ WF_allVars(/\ Running("setup", <<drainOnly, fundOnly>>)
                /\ Step \/ Land \/ Refused)
  /\ WF_allVars(/\ Running("drain", <<slack, setupOnly, fundOnly>>)
                /\ Draining!Step \/ Draining!Land \/ Draining!Refused)
  /\ WF_allVars(Running("drain", <<slack, setupOnly, fundOnly>>) /\ Draining!PassTime)

-----------------------------------------------------------------------------
\* Kills, losses and further runs never pay a wallet beyond its target, and
\* never deposit more of an agent's tokens than the target and what the agent
\* has paid out (colosseum-fund-wallets.ts, colosseum-channels-setup.ts).
NobodyIsOvercharged ==
  /\ Funding!NobodyIsPaidTwice
  /\ script = "setup" => DepositsStayWithinTarget

\* Once the drain reports, nothing is left behind for the agents and no token
\* account is open (colosseum-drain-current.ts).
DrainLeavesNothing == Draining!DrainLeavesNothing

\* With an operator who restarts a stopped script, a chain that lands or expires
\* what it is sent and finitely many faults, every script ends: the funding
\* unless the deployer is too poor before the first transfer, the setup always,
\* and the drain unless it passes over a withdrawal that settlements drained to
\* nothing.  No earlier run leaves a state in which a later one cannot end.
ScriptsEnd ==
  <>(\/ script = "setup" /\ manifest.written
     \/ script = "drain" /\ (done \/ \E w \in Range(Wallets) : Draining!PassedOver(w))
     \/ script = "fund" /\ (Funding!Funded \/ Funding!TooPoor))
=============================================================================
