------------------------------ MODULE MCDemos ------------------------------
(***************************************************************************)
(* Three demonstrations with the same four wallets: the first scenarios of *)
(* ryvo-protocol-demo.ts (DemoRun), its live clearing rounds (LiveRounds)  *)
(* and a run of yield-bearing-demo.ts (YieldDemo).  The initial state      *)
(* chooses one; the variables of the other two rest.                       *)
(*                                                                         *)
(* demo: the second wallet pays the first alone, two pay the first in two  *)
(* bundles, and the second pays the fourth through the third; two faults.  *)
(*                                                                         *)
(* rounds: a scenario of rings of four and of three, then one of five      *)
(* channels and of three, over lanes that the scenarios share.  Three      *)
(* faults break off more than one run, and rounds of a run land in a later *)
(* one.                                                                    *)
(*                                                                         *)
(* yield: two runs with two users each; the first may be broken off.       *)
(***************************************************************************)
EXTENDS DemoRun, RyvoYield

CONSTANTS
  w1, w2, w3, w4, usdc, ryusdc

VARIABLES
  demo,                                                    \* the one that runs
  pc, scenario, candidate, cached, prepared, flying,
  landed, start, strayed, reported,                        \* of LiveRounds
  place, run, waiting, paid                                \* of YieldDemo

Pay(p, q) == [payer |-> p, payee |-> q, token |-> usdc]
MCWallets == <<w1, w2, w3, w4>>
MCSingle == Pay(w1, w2)
MCBuyers == <<Pay(w2, w1), Pay(w3, w1)>>
MCRoute == <<Pay(w2, w3), Pay(w3, w4)>>
MCLanes == {MCSingle} \cup Range(MCBuyers) \cup Range(MCRoute)
MCDue == [l \in MCLanes |-> 1]
MCDeposits == [w \in Range(MCWallets) |-> IF w = w4 THEN 0 ELSE 1]

Ring3 == {Pay(w1, w2), Pay(w2, w3), Pay(w3, w1)}
Ring4 == {Pay(w1, w2), Pay(w2, w3), Pay(w3, w4), Pay(w4, w1)}
RoundLanes == Ring3 \cup Ring4
RingsFirst == [candidates |-> <<Ring4, Ring3>>,
               owes |-> [l \in RoundLanes |-> IF l.payer = w1 THEN 1 ELSE 2]]
ThenChannels == [candidates |-> <<RoundLanes, Ring3>>, owes |-> [l \in RoundLanes |-> 3]]
TwoScenarios == <<RingsFirst, ThenChannels>>

TwoRuns == << <<w1, w2>>, <<w3, w4>> >>
MCSupply == [x \in {usdc, ryusdc} |-> IF x = usdc THEN 511 ELSE 0]
MCDecimals == [x \in {usdc, ryusdc} |-> 0]

Rounding == INSTANCE LiveRounds WITH
  Lanes <- RoundLanes, RoundToken <- usdc, Scenarios <- TwoScenarios, MaxFaults <- 3
Yielding == INSTANCE YieldDemo WITH
  at <- place, sent <- waiting, Users <- TwoRuns, PerUser <- 32, YieldBuffer <- 16,
  ApyInitial <- 1, ApyBumped <- 2

ASSUME LiveRoundsAssumption == Rounding!ScenariosAssumption
ASSUME YieldDemoAssumption == Yielding!DemoAssumption

-----------------------------------------------------------------------------
\* Registered participants with BLS keys; the demos start without money and
\* lanes, the rounds with balances and lanes that are open and not yet used.
WalletsReady ==
  LET Start(x) == IF demo = "rounds" /\ x[2] = Plain THEN 10 ELSE 0
  IN  /\ now = 1
      /\ slot = [x \in Accounts |->
                   IF Start(x) > 0 THEN Credit(EmptyEntry, Start(x)) ELSE EmptyEntry]
      /\ funded = [x \in Accounts |-> Start(x)]
      /\ vault = [x \in Tokens |-> MapThenSumSet(LAMBDA p : Start(<<p, x>>), Participants)]
      /\ lane = IF demo = "rounds" THEN [l \in RoundLanes |-> InitializeLane(l.payer)]
                ELSE [l \in Lanes |-> UninitializedLane]
      /\ policy = [p \in Participants |->
                     IF demo = "rounds" THEN "Permissionless" ELSE "ConsentRequired"]
      /\ bls = Participants
      /\ signed = {}
      /\ asked = [l \in DOMAIN lane |-> NoAsk]
      /\ rotation = [l \in DOMAIN lane |-> NoRotation]

RoundsRest ==
  /\ pc = "start" /\ scenario = 1 /\ candidate = 1
  /\ cached = <<>> /\ prepared = <<>> /\ start = <<>> /\ strayed = <<>>
  /\ flying = {} /\ reported = {} /\ landed = "no"

DemosInit ==
  /\ demo \in {"demo", "rounds", "yield"}
  /\ WalletsReady
  /\ DemoInit
  /\ IF demo = "rounds" THEN Rounding!LiveInit ELSE RoundsRest
  /\ Yielding!RunInit

demoOnly == <<at, todo, seen, before, sent, late, held, funds, runs>>
roundsOnly ==
  <<pc, scenario, candidate, cached, prepared, flying, landed, start, strayed, reported>>
yieldOnly == <<strategy, shareVault, reserve, place, run, waiting, paid>>
demosVars == <<demo, vars, demoOnly, faults, roundsOnly, yieldOnly>>

Running(name, others) == demo = name /\ UNCHANGED <<demo, others>>
DemoRuns == Running("demo", <<roundsOnly, yieldOnly>>)
RoundsRun == Running("rounds", <<demoOnly, yieldOnly>>)
YieldRuns == Running("yield", <<demoOnly, roundsOnly, faults>>)

DemosNext ==
  \/ DemoRuns /\ DemoNext
  \/ RoundsRun /\ Rounding!LiveNext
  \/ YieldRuns /\ Yielding!DemoNext

\* An operator who starts a stopped run again while it may be, and a chain that
\* lands or refuses what it is sent.
DemosSpec ==
  /\ DemosInit /\ [][DemosNext]_demosVars
  /\ WF_demosVars(DemoRuns /\ (Process \/ Land \/ Refused))
  /\ WF_demosVars(RoundsRun /\ Rounding!Process)
  /\ WF_demosVars(RoundsRun /\ Rounding!Land)
  /\ WF_demosVars(YieldRuns /\ (Yielding!Look \/ Yielding!Land \/ Yielding!Refused))

-----------------------------------------------------------------------------
\* However runs are broken off and whatever of them still lands, no lane pays
\* more often than runs were started, and none pays an obligation of a scenario
\* of rounds twice (EachRunPaysOnce, EachObligationPaidOnce).
PaidOnce ==
  /\ demo = "demo" => EachRunPaysOnce
  /\ demo = "rounds" => Rounding!EachObligationPaidOnce

\* What a run reports at its end is what its lanes have paid
\* (ReportedPaymentsAreExact, RunsPayWhatTheyReport), and the yield demo leaves
\* its users nothing behind in the program (RunLeavesNothing).
ReportsAreTrue ==
  /\ demo = "demo" => ReportedPaymentsAreExact
  /\ demo = "rounds" => Rounding!RunsPayWhatTheyReport
  /\ demo = "yield" => Yielding!RunLeavesNothing

\* The buffer of yield-bearing-demo.ts is enough for every redemption of its
\* runs, also after runs that left their users behind.
RedemptionsAreCovered == demo = "yield" => Yielding!RedemptionsAreCovered

\* The demo gets to its end or the deployer can no longer fund it; after the last
\* fault a run of rounds ends well; the yield demo gets to its end though an
\* earlier run left its users behind, and only a cut too small to be claimed
\* stops it (main of the two scripts).  What broken-off runs leave behind
\* (lanes, collateral, balances) stops later ones only while it still lands.
DemosEnd ==
  <>(CASE demo = "demo"   -> Finished \/ DeployerShort
       [] demo = "rounds" -> pc = "done"
       [] demo = "yield"  -> Yielding!Finished \/ Yielding!ClaimIsDust)
=============================================================================
