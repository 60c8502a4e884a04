------------------------------ MODULE DemoRun ------------------------------
(***************************************************************************)
(* A run of the demo (ryvo-protocol-demo.ts) over the program, from the    *)
(* funding of its wallets to its third scenario: a latest commitment, a    *)
(* bundle of commitments of several payers, and a payment that a clearing  *)
(* round routes through a middleman.  (The later scenarios: LiveRounds.)   *)
(*                                                                         *)
(* The process follows Plan, a list of steps that each read the chain and  *)
(* send transactions.  The lanes of one "open" step are opened             *)
(* concurrently (Promise.all).  Any error ends the run; what was sent may  *)
(* still land, even while the operator's next run, which starts again from *)
(* the beginning, is at work.                                              *)
(***************************************************************************)
EXTENDS RyvoCore, Sequences, SequencesExt

CONSTANTS
  Tok,            \* options.tokenId
  Wallets,        \* the active wallets, in order
  Deposits,       \* options.depositPlan
  TokensPerWallet,
  DeployerFunds,  \* tokens of the deployer at the start
  Single,         \* lane of the first scenario
  Buyers,         \* lanes of the second, in the order of the wallets
  PerBundle,      \* MAX_BUNDLE_CHANNELS_PER_TX
  Route,          \* the two lanes of the third
  Due,            \* what each lane pays in a run
  MaxRuns,        \* bound on the operator's patience
  MaxFaults       \* bound on errors and kills

ASSUME DemoAssumption ==
  /\ Deposits \in [Range(Wallets) -> Nat]
  /\ Wallets \in Seq(Range(Wallets)) /\ Buyers \in Seq(Lanes) /\ Route \in Seq(Lanes)
  /\ Len(Route) = 2 /\ Route[1].payee = Route[2].payer
  /\ Due[Route[1]] = Due[Route[2]]
  /\ IsInjective(<<Single>> \o Buyers \o Route)
  /\ Lanes = Range(<<Single>> \o Buyers \o Route)
  /\ Due \in [Lanes -> Nat \ {0}]
  /\ PerBundle \in Nat \ {0} /\ MaxFaults \in Nat

VARIABLES
  at,      \* position in Plan; 0 when no run is active
  todo,    \* lanes of an open step that are not ready yet
  seen,    \* settled amounts as the run read them
  before,  \* available balances when the round was prepared
  sent,    \* transactions the process waits for
  late,    \* transactions of earlier runs that may still land
  held,    \* tokens in the wallets' own accounts
  funds,   \* tokens of the deployer
  runs,    \* runs started
  faults

processVars == <<at, todo, seen, before>>
demoVars == <<vars, processVars, sent, late, held, funds, runs, faults>>

Do(op, subject) == [op |-> op, subject |-> subject]
Each(op, list) == [i \in DOMAIN list |-> Do(op, <<list[i]>>)]
BundlesMutant ==
  [i \in 1 .. Len(Buyers) \div (PerBundle + 1) |->
     Do("bundle", SubSeq(Buyers, (i - 1) * PerBundle + 1, i * PerBundle))]
Bundles ==
  [i \in 1 .. (Len(Buyers) + PerBundle - 1) \div PerBundle |->
     Do("bundle", SubSeq(Buyers, (i - 1) * PerBundle + 1,
                         IF i * PerBundle < Len(Buyers) THEN i * PerBundle ELSE Len(Buyers)))]

\* main: each step with the wallets or lanes that it is about.
Plan ==
  <<Do("precheck", <<>>)>> \o Each("fund", Wallets) \o Each("deposit", Wallets) \o
  <<Do("open", <<Single>>), Do("single", <<Single>>), Do("open", Buyers)>> \o
  Bundles \o
  <<Do("minimum", <<Route[1].payer>>),
    Do("open", <<Route[1]>>), Do("lock", <<Route[1]>>), Do("open", <<Route[2]>>),
    Do("read", Route), Do("round", Route), Do("check", Route)>>

Finished == at = Len(Plan) + 1
Doing(op) == at \in DOMAIN Plan /\ Plan[at].op = op
Subject == Plan[at].subject
DemoInit ==
  /\ at = 0 /\ todo = {}
  /\ seen = [l \in Lanes |-> 0]
  /\ before = [w \in Range(Wallets) |-> 0]
  /\ sent = {} /\ late = {}
  /\ held = [w \in Range(Wallets) |-> 0]
  /\ funds = DeployerFunds
  /\ runs = 0 /\ faults = 0

-----------------------------------------------------------------------------
(***************************************************************************)
(* The process.                                                            *)
(***************************************************************************)
NoTargets == [l \in {} |-> 0]
Tx(kind, wallet, amount, targets) ==
  [kind |-> kind, wallet |-> wallet, amount |-> amount, targets |-> targets,
   run |-> runs]
Available(w) == slot[<<w, Tok>>].available_balance
Read(l) == lane[l].settled_cumulative
Target(l) == seen[l] + Due[l]
Targets(list) == [l \in Range(list) |-> Target(l)]

\* Entering a step: the lanes that an open step has to see to.
Enter(i) ==
  /\ at' = i
  /\ todo' = IF i \in DOMAIN Plan /\ Plan[i].op = "open" THEN Range(Plan[i].subject) ELSE {}

Idle == UNCHANGED <<held, funds, runs, faults, late>>
Advance == Enter(at + 1) /\ Idle /\ UNCHANGED <<vars, sent, seen, before>>
Send(tx) == sent' = sent \cup {tx} /\ Idle /\ UNCHANGED processVars
Quietly(tx) == Send(tx) /\ UNCHANGED vars

\* The keys of the wallets are at hand: what is sent is signed first.
Signing(tx, signatures) ==
  /\ Send(tx)
  /\ signed' = signed \cup signatures
  /\ UNCHANGED <<now, balanceVars, laneVars, memberVars>>

StartRun ==
  /\ at = 0 /\ runs < MaxRuns
  /\ Enter(1)
  /\ runs' = runs + 1
  /\ UNCHANGED <<vars, seen, before, sent, late, held, funds, faults>>

\* The deployer must hold the whole of every wallet's tokens, whatever they hold.
Precheck ==
  /\ Doing("precheck") /\ funds >= TokensPerWallet * Len(Wallets)
  /\ Advance

\* Steps that bring an amount up to a target; the difference is as read.
TopUp(op, kind, wallet, current, target, targets) ==
  /\ Doing(op) /\ sent = {}
  /\ IF current >= target
     THEN Advance
     ELSE Quietly(Tx(kind, wallet, target - current, targets))

TopUps ==
  LET w == Subject[1]
      l == Subject[1]
  IN  \/ TopUp("fund", "fund", w, held[w], TokensPerWallet, NoTargets)
      \/ TopUp("deposit", "deposit", w, Available(w), Deposits[w], NoTargets)
      \/ TopUp("minimum", "deposit", w, Available(w), Due[Route[1]], NoTargets)
      \/ TopUp("lock", "lock", l.payer, lane[l].locked_balance, Due[l], [k \in {l} |-> 0])

\* ensureChannel and the read that follows it, for each lane on its own.
OpenLanes ==
  /\ Doing("open")
  /\ \E l \in todo :
       /\ ~\E tx \in sent : l \in DOMAIN tx.targets
       /\ IF lane[l].initialized
          THEN /\ seen' = [seen EXCEPT ![l] = Read(l)]
               /\ IF todo = {l} THEN Enter(at + 1) ELSE todo' = todo \ {l} /\ UNCHANGED at
               /\ Idle /\ UNCHANGED <<vars, before, sent>>
          ELSE Quietly(Tx("open", l.payer, 0, [k \in {l} |-> 0]))

\* Both lanes of the route and the balances, before the round is signed.
ReadRoute ==
  /\ Doing("read")
  /\ seen' = [l \in Lanes |-> IF l \in Range(Route) THEN Read(l) ELSE seen[l]]
  /\ before' = [w \in DOMAIN before |-> Available(w)]
  /\ Enter(at + 1)
  /\ Idle /\ UNCHANGED <<vars, sent>>

Commitment(l) == [lane |-> l, amount |-> Target(l), signer |-> l.payer, settler |-> NoKey]

SettleCommitments ==
  /\ Doing("single") \/ Doing("bundle")
  /\ sent = {}
  /\ Signing(Tx(Plan[at].op, Subject[1].payee, 0, Targets(Subject)),
             {Commitment(l) : l \in Range(Subject)})

RouteRound == [token |-> Tok, targets |-> Targets(Route)]

SettleRound ==
  /\ Doing("round") /\ sent = {}
  /\ Signing(Tx("round", Route[2].payer, 0, Targets(Route)),
             {[round |-> RouteRound, by |-> p] : p \in RoundPayers(RouteRound)})

Stop == at' = 0 /\ todo' = {} /\ sent' = {}

\* The script's own check of the round.
CheckRound ==
  /\ Doing("check")
  /\ IF /\ Available(Route[2].payer) = before[Route[2].payer]
        /\ Available(Route[2].payee) - before[Route[2].payee] = Due[Route[2]]
     THEN Advance
     ELSE Stop /\ Idle /\ UNCHANGED <<vars, seen, before>>

-----------------------------------------------------------------------------
(***************************************************************************)
(* The chain and the faults.                                               *)
(***************************************************************************)
Only(targets) == CHOOSE l \in DOMAIN targets : TRUE
Signed(targets) ==
  {[lane |-> l, amount |-> targets[l], signer |-> l.payer, settler |-> NoKey] :
     l \in DOMAIN targets}

\* What a transaction does to the accounts when it lands.
Execute(tx) ==
  \/ /\ tx.kind = "fund" /\ funds >= tx.amount
     /\ funds' = funds - tx.amount
     /\ held' = [held EXCEPT ![tx.wallet] = @ + tx.amount]
     /\ UNCHANGED vars
  \/ /\ tx.kind = "deposit" /\ held[tx.wallet] >= tx.amount
     /\ Deposit(tx.wallet, Tok, tx.amount)
     /\ held' = [held EXCEPT ![tx.wallet] = @ - tx.amount]
     /\ UNCHANGED funds
  \/ /\ \/ tx.kind = "open" /\ CreateChannel(Only(tx.targets), TRUE, tx.wallet)
        \/ tx.kind = "lock" /\ LockChannelFunds(Only(tx.targets), tx.amount)
        \/ /\ tx.kind = "single"
           /\ \E c \in Signed(tx.targets) : SettleIndividual(c, tx.wallet)
        \/ /\ tx.kind = "bundle"
           /\ SettleCommitmentBundle(tx.wallet, Tok, Signed(tx.targets), tx.wallet)
        \/ /\ tx.kind = "round"
           /\ SettleClearingRound([token |-> Tok, targets |-> tx.targets])
     /\ UNCHANGED <<held, funds>>

\* A channel that was opened is read next (OpenLanes); other steps are over.
Land ==
  \E tx \in sent :
    /\ Execute(tx)
    /\ sent' = sent \ {tx}
    /\ IF tx.kind = "open" THEN UNCHANGED <<at, todo>> ELSE Enter(at + 1)
    /\ UNCHANGED <<seen, before, runs, faults, late>>

\* One error ends the run, also while other channels are being opened.
Refused ==
  \E tx \in sent :
    /\ ~ENABLED Execute(tx)
    /\ Stop
    /\ late' = late \cup (sent \ {tx})
    /\ UNCHANGED <<vars, seen, before, held, funds, runs, faults>>

\* The process is killed or loses an answer.
BreakOff == at' = 0 /\ todo' = {}

Kill ==
  /\ at # 0 /\ ~Finished /\ faults < MaxFaults
  /\ BreakOff
  /\ sent' = {}
  /\ late' = late \cup sent
  /\ faults' = faults + 1
  /\ UNCHANGED <<vars, seen, before, held, funds, runs>>

LandLate ==
  \E tx \in late :
    /\ Execute(tx)
    /\ late' = late \ {tx}
    /\ UNCHANGED <<processVars, sent, runs, faults>>

DropLate ==
  \E tx \in late :
    /\ late' = late \ {tx}
    /\ UNCHANGED <<vars, processVars, sent, held, funds, runs, faults>>

Process ==
  \/ StartRun \/ Precheck \/ TopUps \/ OpenLanes \/ ReadRoute
  \/ SettleCommitments \/ SettleRound \/ CheckRound

DemoNext == Process \/ Land \/ Refused \/ Kill \/ LandLate \/ DropLate

-----------------------------------------------------------------------------
(***************************************************************************)
(* Properties.                                                             *)
(***************************************************************************)
\* A run that gets to its end has paid on every lane exactly what it was to pay
\* on top of what it had read, though transactions of earlier runs landed in
\* between: they carry older, smaller targets (lines 4253-4310, 4421-4490,
\* 4690-4770).
ReportedPaymentsAreExact ==
  Finished => \A l \in Lanes : Read(l) = Target(l)

\* However runs are broken off and whatever of them still lands, no lane pays
\* more often than runs were started.
EachRunPaysOnce == \A l \in Lanes : Read(l) <= runs * Due[l]

\* The deployer was short for the funding check, which asks for the whole sum.
DeployerShort == Doing("precheck") /\ funds < TokensPerWallet * Len(Wallets)
=============================================================================
