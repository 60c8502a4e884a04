---------------------------- MODULE FundWallets ----------------------------
(***************************************************************************)
(* scripts/colosseum-fund-wallets.ts: the deployer brings the wallets of   *)
(* the basic manifest up to a number of tokens each.  It first adds up     *)
(* what is missing and stops if it does not have that much; then it reads  *)
(* each wallet again and sends what that one lacks, together with the      *)
(* instruction that creates the token account where there is none.         *)
(*                                                                         *)
(* Faults are as in ChannelsSetup: a transaction may expire, and a process *)
(* that is killed leaves behind a transaction that may still land, also    *)
(* after a newer run has overtaken it.                                     *)
(* Lamports, which are topped up in the same transaction, are left out.    *)
(***************************************************************************)
EXTENDS Integers, Sequences, Functions, FiniteSetsExt

CONSTANTS
  Roster,         \* merchant and participants, in the order of the manifest
  Target,         \* --token-amount
  Funds,          \* how many tokens the deployer may have at the start
  AtStart,        \* tokens of each wallet at the start
  Created,        \* wallets that have a token account at the start
  MaxFaults       \* bound on kills and lost transactions

FundAssumption ==
  /\ Roster \in Seq(Range(Roster)) /\ Created \subseteq Range(Roster)
  /\ Target \in Nat /\ Funds \subseteq Nat /\ AtStart \in [Range(Roster) -> Nat]
  /\ MaxFaults \in Nat

VARIABLES
  pc,       \* stopped, check, fund, done
  at,       \* position in the roster
  budget,   \* what the deployer had, less requiredTokenTopup so far
  funder,   \* tokens of the deployer
  balance,  \* tokens of each wallet
  accounts, \* wallets with a token account
  sent,     \* the transaction that the process waits for, if any
  late,     \* transactions of ended runs that may still land
  brought,  \* history, not in the code: what overtaken transfers brought
  faults

lateVars == <<late, brought>>
fundVars == <<pc, at, budget, funder, balance, accounts, sent, lateVars, faults>>
chain == <<funder, balance, accounts>>

FundInit ==
  /\ pc = "stopped" /\ at = 1 /\ budget = 0
  /\ funder \in Funds /\ balance = AtStart /\ accounts = Created
  /\ sent = {} /\ late = {} /\ brought = [w \in Range(Roster) |-> 0]
  /\ faults = 0

-----------------------------------------------------------------------------
Lacks(w) == IF balance[w] < Target THEN Target - balance[w] ELSE 0
Wallet == Roster[at]

\* The next wallet, or the phase that follows for the first.
Next(name, following) ==
  IF at < Len(Roster)
  THEN at' = at + 1 /\ pc' = name
  ELSE at' = 1 /\ pc' = following

Stop == pc' = "stopped" /\ at' = 1 /\ budget' = 0

Start ==
  /\ pc = "stopped"
  /\ pc' = "check"
  /\ budget' = funder
  /\ late' = {[old EXCEPT !.overtaken = TRUE] : old \in late}
  /\ UNCHANGED <<at, chain, sent, brought, faults>>

\* The deployer's account was read first, then the wallets one by one.
Affords == Lacks(Wallet) <= budget
Precheck ==
  /\ pc = "check"
  /\ IF Affords
     THEN budget' = budget - Lacks(Wallet) /\ Next("check", "fund")
     ELSE Stop
  /\ UNCHANGED <<chain, sent, lateVars, faults>>

TopUp(w) == Lacks(w)

Skips(w) == w \in accounts /\ Lacks(w) = 0
FundWallet ==
  /\ pc = "fund" /\ sent = {}
  /\ IF Skips(Wallet)
     THEN Next("fund", "done") /\ UNCHANGED sent
     ELSE /\ sent' = {[to |-> Wallet, creates |-> Wallet \notin accounts,
                       amount |-> TopUp(Wallet)]}
          /\ UNCHANGED <<pc, at>>
  /\ UNCHANGED <<budget, chain, lateVars, faults>>

-----------------------------------------------------------------------------
\* The instructions of a transaction take effect together or not at all; the
\* one that creates an account fails where there is one already.
Executes(tx) ==
  /\ tx.creates => tx.to \notin accounts
  /\ tx.amount <= funder

Effect(tx) ==
  /\ accounts' = accounts \cup {tx.to}
  /\ funder' = funder - tx.amount
  /\ balance' = [balance EXCEPT ![tx.to] = @ + tx.amount]

Land ==
  \E tx \in sent :
    /\ Executes(tx) /\ Effect(tx)
    /\ sent' = {}
    /\ Next("fund", "done")
    /\ UNCHANGED <<budget, lateVars, faults>>

Refused ==
  /\ \E tx \in sent : ~Executes(tx)
  /\ sent' = {} /\ Stop
  /\ UNCHANGED <<chain, lateVars, faults>>

Expire ==
  /\ sent # {} /\ faults < MaxFaults
  /\ sent' = {} /\ Stop
  /\ faults' = faults + 1
  /\ UNCHANGED <<chain, lateVars>>

Kill ==
  /\ pc \notin {"stopped", "done"} /\ faults < MaxFaults
  /\ late' = late \cup {[tx |-> tx, run |-> faults, overtaken |-> FALSE] : tx \in sent}
  /\ sent' = {} /\ Stop
  /\ faults' = faults + 1
  /\ UNCHANGED <<chain, brought>>

LandLate ==
  \E old \in late :
    /\ Executes(old.tx) /\ Effect(old.tx)
    /\ late' = late \ {old}
    /\ brought' = IF old.overtaken THEN [brought EXCEPT ![old.tx.to] = @ + old.tx.amount]
                                 ELSE brought
    /\ UNCHANGED <<pc, at, budget, sent, faults>>

DropLate ==
  \E old \in late :
    /\ late' = late \ {old}
    /\ UNCHANGED <<pc, at, budget, chain, sent, brought, faults>>

FundStep == Start \/ Precheck \/ FundWallet \/ Land \/ Refused
FundNext == FundStep \/ LandLate \/ DropLate \/ Expire \/ Kill

-----------------------------------------------------------------------------
(***************************************************************************)
(* Properties.                                                             *)
(***************************************************************************)
Missing == MapThenSumSet(Lacks, Range(Roster))

\* Kills, losses and further runs pay a wallet no more than up to the target,
\* but for what transfers of ended runs brought after a newer one had started.
NobodyIsPaidTwice ==
  \A w \in Range(Roster) : balance[w] > AtStart[w] => balance[w] <= Target + brought[w]

\* The script is to end with every wallet at its target.  Only before the first
\* transfer can it find that the deployer has not enough: funding is not left
\* halfway for want of tokens (the check of requiredTokenTopup), unless they went
\* into transfers that a newer run overtook.
Funded == pc = "done" /\ Range(Roster) \subseteq accounts /\ Missing = 0
Overtaken == MapThenSumSet(LAMBDA w : brought[w], Range(Roster))
TooPoor == funder < Missing /\ (balance = AtStart \/ Missing <= funder + Overtaken)
=============================================================================
