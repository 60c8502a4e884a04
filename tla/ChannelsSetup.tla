--------------------------- MODULE ChannelsSetup ---------------------------
(***************************************************************************)
(* scripts/colosseum-channels-setup.ts over the program: for every wallet  *)
(* of the roster it registers a BLS key, and for every agent it deposits,  *)
(* opens the lane to the merchant and locks collateral, each step decided  *)
(* by a read of the chain; at last it fills an address lookup table and    *)
(* writes its manifest.                                                    *)
(*                                                                         *)
(* The script is one process.  A transaction that it sends lands later, or *)
(* fails, or never lands; an error ends the run, and the operator starts   *)
(* another one from the beginning.  The process may also be killed, or     *)
(* give up, while a transaction is on its way; nothing keeps the next run  *)
(* from overtaking it.  Lamports for fees are left out.                    *)
(***************************************************************************)
EXTENDS RyvoCore, Sequences

CONSTANTS
  Merchant,        \* participant with --merchant-participant-id
  Roster,          \* the agents, in the order of the basic manifest
  Tok,             \* --token-id
  DepositTarget,   \* --deposit
  LockTarget,      \* --lock
  WalletFunds,     \* tokens in each agent's wallet at the start
  TableAddresses,  \* accounts that the lookup table lists
  TableChunk,      \* CHUNK, addresses per extension
  MaxFaults        \* bound on kills and lost transactions, not in the code

ASSUME SetupAssumption ==
  /\ Merchant \in Participants /\ Tok \in Tokens
  /\ Roster \in Seq(Participants \ {Merchant}) /\ Roster # <<>>
  /\ DepositTarget \in Nat /\ LockTarget \in Nat /\ WalletFunds \in Nat
  /\ TableAddresses \in Nat /\ TableChunk \in Nat \ {0}
  /\ MaxFaults \in Nat

VARIABLES
  pc,       \* where the running process is: a phase and a position in it
  seen,     \* existingLane, read before the deposit and used after it
  sent,     \* transactions the process is waiting for: none or one
  late,     \* transactions of ended runs that may still land
  slack,    \* history, not in the code: what overtaken transactions moved
  wallet,   \* tokens in the agents' own token accounts
  table,    \* addresses in the lookup table of this run, if it was created
  manifest, \* whether a manifest was written, and the size of its table
  faults

lateVars == <<late, slack>>
scriptVars == <<pc, seen, sent, lateVars, table, manifest, faults>>
setupVars == <<vars, scriptVars, wallet>>

Phases == {"stopped", "bls", "lane", "deposit", "channel", "lock", "table", "manifest"}
Wallets == <<Merchant>> \o Roster
LaneTo(agent) == [payer |-> agent, payee |-> Merchant, token |-> Tok]
NoTable == [created |-> FALSE, size |-> 0]

SetupInit ==
  /\ pc = [phase |-> "stopped", at |-> 1]
  /\ seen = [initialized |-> FALSE, locked |-> 0]
  /\ sent = {}
  /\ late = {}
  /\ slack = [a \in Range(Roster) |-> 0]
  /\ wallet = [a \in Range(Roster) |-> WalletFunds]
  /\ table = NoTable
  /\ manifest = [written |-> FALSE, size |-> 0]
  /\ faults = 0

-----------------------------------------------------------------------------
(***************************************************************************)
(* The process.                                                            *)
(***************************************************************************)
At(phase) == pc.phase = phase /\ sent = {}
Agent == Roster[pc.at]

\* The next phase of the same agent, or the first one of the next agent.
After(phase, at) ==
  CASE phase = "bls" /\ at < Len(Wallets)  -> [phase |-> "bls", at |-> at + 1]
    [] phase = "bls" /\ at = Len(Wallets)  -> [phase |-> "lane", at |-> 1]
    [] phase = "lane"                      -> [phase |-> "deposit", at |-> at]
    [] phase = "deposit"                   -> [phase |-> "channel", at |-> at]
    [] phase = "channel"                   -> [phase |-> "lock", at |-> at]
    [] phase = "lock" /\ at < Len(Roster)  -> [phase |-> "lane", at |-> at + 1]
    [] phase = "lock" /\ at = Len(Roster)  -> [phase |-> "table", at |-> 1]
    [] phase = "table"                     -> [phase |-> "manifest", at |-> 1]

Advance ==
  /\ pc' = After(pc.phase, pc.at)
  /\ UNCHANGED <<vars, wallet, seen, sent, lateVars, table, manifest, faults>>

Send(kind, owner, amount) ==
  /\ sent' = {[kind |-> kind, owner |-> owner, amount |-> amount]}
  /\ UNCHANGED <<vars, wallet, pc, seen, lateVars, table, manifest, faults>>

Start ==
  /\ At("stopped") /\ ~manifest.written
  /\ pc' = [phase |-> "bls", at |-> 1]
  /\ table' = NoTable
  /\ late' = {[old EXCEPT !.overtaken = TRUE] : old \in late}
  /\ UNCHANGED <<vars, wallet, seen, sent, slack, manifest, faults>>

\* A key that is registered is the local one: both derive from the wallet.
RegisterKey ==
  LET owner == Wallets[pc.at]
  IN  At("bls") /\ IF owner \in bls THEN Advance ELSE Send("bls", owner, 0)

ReadLane ==
  /\ At("lane")
  /\ seen' = [initialized |-> lane[LaneTo(Agent)].initialized,
              locked |-> lane[LaneTo(Agent)].locked_balance]
  /\ pc' = After(pc.phase, pc.at)
  /\ UNCHANGED <<vars, wallet, sent, lateVars, table, manifest, faults>>

\* Collateral counts as deposited, as it was when the lane was read.
TopUpDepositMutant ==
  LET total == slot[<<Agent, Tok>>].available_balance
  IN  At("deposit") /\ IF total >= DepositTarget
                       THEN Advance
                       ELSE Send("deposit", Agent, DepositTarget - total)
TopUpDeposit ==
  LET total == slot[<<Agent, Tok>>].available_balance + seen.locked
  IN  At("deposit") /\ IF total >= DepositTarget
                       THEN Advance
                       ELSE Send("deposit", Agent, DepositTarget - total)

OpenLaneMutant == At("channel") /\ Send("channel", Agent, 0)
OpenLane ==
  At("channel") /\ IF seen.initialized THEN Advance ELSE Send("channel", Agent, 0)

LockCollateralMutant ==
  LET locked == lane[LaneTo(Agent)].locked_balance
  IN  At("lock") /\ IF seen.initialized \/ locked >= LockTarget
                    THEN Advance
                    ELSE Send("lock", Agent, LockTarget - locked)
LockCollateral ==
  LET locked == lane[LaneTo(Agent)].locked_balance
  IN  At("lock") /\ IF locked >= LockTarget
                    THEN Advance
                    ELSE Send("lock", Agent, LockTarget - locked)

\* A new table in every run, extended chunk by chunk.
FillTable ==
  /\ At("table")
  /\ IF table.created /\ table.size = TableAddresses
     THEN Advance
     ELSE Send("table", Merchant, IF table.created
                                  THEN Lesser(TableChunk, TableAddresses - table.size)
                                  ELSE 0)

WriteManifest ==
  /\ At("manifest")
  /\ manifest' = [written |-> TRUE, size |-> table.size]
  /\ pc' = [pc EXCEPT !.phase = "stopped"]
  /\ UNCHANGED <<vars, wallet, seen, sent, lateVars, table, faults>>

-----------------------------------------------------------------------------
(***************************************************************************)
(* The chain and the faults.                                               *)
(***************************************************************************)
\* What a transaction does to the accounts when it lands.
Execute(tx) ==
  \/ /\ tx.kind = "bls"
     /\ RegisterBlsKey(tx.owner)
     /\ UNCHANGED wallet
  \/ /\ tx.kind = "deposit"
     /\ tx.amount <= wallet[tx.owner]
     /\ Deposit(tx.owner, Tok, tx.amount)
     /\ wallet' = [wallet EXCEPT ![tx.owner] = @ - tx.amount]
  \/ /\ tx.kind = "channel"
     /\ CreateChannel(LaneTo(tx.owner), TRUE, tx.owner)
     /\ UNCHANGED wallet
  \/ /\ tx.kind = "lock"
     /\ LockChannelFunds(LaneTo(tx.owner), tx.amount)
     /\ UNCHANGED wallet
  \/ /\ tx.kind = "table"
     /\ UNCHANGED <<vars, wallet>>

\* Landing is confirmed to the process, which goes on.
Land ==
  \E tx \in sent :
    /\ Execute(tx)
    /\ sent' = {}
    /\ IF tx.kind = "table"
       THEN /\ table' = [created |-> TRUE, size |-> table.size + tx.amount]
            /\ UNCHANGED pc
       ELSE /\ pc' = After(pc.phase, pc.at)
            /\ UNCHANGED table
    /\ UNCHANGED <<seen, lateVars, manifest, faults>>

Stop == pc' = [phase |-> "stopped", at |-> 1]

\* The program refuses the transaction: the script throws.
Refused ==
  /\ \E tx \in sent : ~ENABLED Execute(tx)
  /\ Stop
  /\ sent' = {}
  /\ UNCHANGED <<vars, wallet, seen, lateVars, table, manifest, faults>>

\* The transaction expires before it lands: the script throws as well.
Expire ==
  /\ sent # {} /\ faults < MaxFaults
  /\ Stop
  /\ sent' = {}
  /\ faults' = faults + 1
  /\ UNCHANGED <<vars, wallet, seen, lateVars, table, manifest>>

\* A table belongs to its run, so what a killed run sent to one is left out.
Kill ==
  /\ pc.phase # "stopped" /\ faults < MaxFaults
  /\ Stop
  /\ sent' = {}
  /\ late' = late \cup {[tx |-> tx, run |-> faults, overtaken |-> FALSE] :
                          tx \in {x \in sent : x.kind # "table"}}
  /\ faults' = faults + 1
  /\ UNCHANGED <<vars, wallet, seen, slack, table, manifest>>

\* What a newer run cannot have seen when it decided: tokens that arrive, or
\* leave the balance for the lane, behind its back.
Counted(old) ==
  slack' = IF old.overtaken /\ old.tx.kind \in {"deposit", "lock"}
           THEN [slack EXCEPT ![old.tx.owner] = @ + old.tx.amount]
           ELSE slack

LandLate ==
  \E old \in late :
    /\ Execute(old.tx) /\ Counted(old)
    /\ late' = late \ {old}
    /\ UNCHANGED <<pc, seen, sent, table, manifest, faults>>

DropLate ==
  \E old \in late :
    /\ late' = late \ {old}
    /\ UNCHANGED <<vars, wallet, pc, seen, sent, slack, table, manifest, faults>>

\* The merchant cashes commitments while the script runs.
Cash ==
  /\ \E c \in Commitments : SettleIndividual(c, Merchant)
  /\ UNCHANGED <<scriptVars, wallet>>

Step ==
  \/ Start \/ RegisterKey \/ ReadLane \/ TopUpDeposit \/ OpenLane
  \/ LockCollateral \/ FillTable \/ WriteManifest

SetupNext ==
  \/ Step \/ Land \/ Refused \/ Expire \/ Kill \/ LandLate \/ DropLate \/ Cash

-----------------------------------------------------------------------------
(***************************************************************************)
(* Properties.                                                             *)
(***************************************************************************)
\* When the manifest is there, whatever runs were killed or failed before it,
\* every wallet has a BLS key, every agent's lane was given its collateral (the
\* merchant may have cashed some of it), and the table lists every account
\* (the manifest is written last, lines 1131-1170).
ManifestIsHonoured ==
  manifest.written =>
    /\ Range(Wallets) \subseteq bls
    /\ \A a \in Range(Roster) :
         /\ lane[LaneTo(a)].initialized
         /\ lane[LaneTo(a)].locked_balance + lane[LaneTo(a)].settled_cumulative
              >= LockTarget
    /\ manifest.size = TableAddresses

\* Runs that were killed, failed or repeated pay no more into the program than
\* the target, what the agent has paid out, and what deposits and locks of ended
\* runs moved after a newer one had started (lines 1002-1033).
DepositsStayWithinTarget ==
  \A a \in Range(Roster) :
    funded[<<a, Tok>>] <= DepositTarget + lane[LaneTo(a)].settled_cumulative + slack[a]
=============================================================================
