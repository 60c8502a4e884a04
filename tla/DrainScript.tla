---------------------------- MODULE DrainScript ----------------------------
(***************************************************************************)
(* scripts/colosseum-drain-current.ts over the program: it unlocks the     *)
(* collateral of every agent in the channels manifest with the merchant's  *)
(* signature, withdraws every wallet's balance into its own token account, *)
(* sweeps those accounts to the deployer and closes them.                  *)
(*                                                                         *)
(* Every step reads the chain and sends one transaction, which lands later *)
(* or not at all; meanwhile the merchant cashes commitments and anyone     *)
(* executes due withdrawals.  A refused transaction ends the run, and so   *)
(* does one whose answer the process does not get; the operator starts it  *)
(* again from the beginning, and what was sent may still land then.        *)
(***************************************************************************)
EXTENDS RyvoCore, Sequences

CONSTANTS
  Merchant,      \* wallets.merchant
  Roster,        \* wallets.participants
  Tok,           \* the one token of the basic manifest, a plain one
  ChannelsKnown, \* the channels manifest exists
  MaxFaults      \* bound on kills, lost answers and top-ups, not in the code

Wallets == <<Merchant>> \o Roster
Closed == -1     \* a token account that does not exist

DrainAssumption ==
  /\ Merchant \in Participants /\ Tok \in Tokens
  /\ Roster \in Seq(Participants \ {Merchant}) /\ Roster # <<>>
  /\ Range(Wallets) \subseteq Destinations
  /\ ChannelsKnown \in BOOLEAN /\ MaxFaults \in Nat

VARIABLES
  pc,       \* phase of the running process and its position in a list
  sent,     \* transactions the process is waiting for: none or one
  late,     \* transactions of ended runs that may still land
  crossed,  \* history, not in the code: what landed late since the last start
  ata,      \* tokens in each wallet's associated token account, or Closed
  deployer, \* tokens swept so far
  done,     \* the drain manifest was written
  faults

drainVars == <<vars, pc, sent, late, crossed, ata, deployer, done, faults>>
lateVars == <<late, crossed>>

LaneTo(w) == [payer |-> w, payee |-> Merchant, token |-> Tok]
Entry(w) == slot[<<w, Tok>>]

DrainInit ==
  /\ pc = [phase |-> "stopped", at |-> 1]
  /\ sent = {} /\ late = {} /\ crossed = {}
  /\ deployer = 0
  /\ done = FALSE
  /\ faults = 0

-----------------------------------------------------------------------------
At(phase) == pc.phase = phase /\ sent = {}
Wallet == Wallets[pc.at]

After(phase, at) ==
  CASE phase = "unlock" /\ at < Len(Roster)    -> [phase |-> "unlock", at |-> at + 1]
    [] phase = "unlock" /\ at = Len(Roster)    -> [phase |-> "account", at |-> 1]
    [] phase = "account"                       -> [phase |-> "existing", at |-> at]
    [] phase = "existing"                      -> [phase |-> "request", at |-> at]
    [] phase = "request"                       -> [phase |-> "execute", at |-> at]
    [] phase = "execute" /\ at < Len(Wallets)  -> [phase |-> "account", at |-> at + 1]
    [] phase = "execute" /\ at = Len(Wallets)  -> [phase |-> "sweep", at |-> 1]
    [] phase = "sweep" /\ at < Len(Wallets)    -> [phase |-> "sweep", at |-> at + 1]
    [] phase = "sweep" /\ at = Len(Wallets)    -> [phase |-> "report", at |-> 1]

GoTo(next) ==
  pc' = next /\ UNCHANGED <<vars, sent, lateVars, ata, deployer, done, faults>>
Advance == GoTo(After(pc.phase, pc.at))

Send(kind, owner, amount) ==
  /\ sent' = {[kind |-> kind, owner |-> owner, amount |-> amount]}
  /\ UNCHANGED <<vars, pc, lateVars, ata, deployer, done, faults>>

Start ==
  /\ At("stopped") /\ ~done
  /\ pc' = [phase |-> IF ChannelsKnown THEN "unlock" ELSE "account", at |-> 1]
  /\ crossed' = {}
  /\ UNCHANGED <<vars, sent, late, ata, deployer, done, faults>>

\* All of the collateral that the lane holds now goes back to the agent.
Unlock ==
  LET locked == lane[LaneTo(Roster[pc.at])].locked_balance
  IN  At("unlock") /\ IF locked = 0 THEN Advance ELSE Send("unlock", Roster[pc.at], locked)

EnsureAccount ==
  At("account") /\ IF ata[Wallet] # Closed THEN Advance ELSE Send("account", Wallet, 0)

\* A withdrawal that an earlier run, or the owner, left pending.
ExecuteExisting ==
  At("existing") /\ IF Entry(Wallet).withdrawing_balance = 0
                    THEN Advance
                    ELSE Send("execute", Wallet, 0)

\* The balance is read again; with nothing to withdraw the wallet is done.
RequestAllMutant ==
  At("request") /\ IF Entry(Wallet).available_balance = 0 \/ HasWithdrawal(Entry(Wallet))
                   THEN GoTo(After("execute", pc.at))
                   ELSE Send("request", Wallet, Entry(Wallet).available_balance)
RequestAll ==
  At("request") /\ IF Entry(Wallet).available_balance = 0
                   THEN GoTo(After("execute", pc.at))
                   ELSE Send("request", Wallet, Entry(Wallet).available_balance)

ExecuteRequested == At("execute") /\ Send("execute", Wallet, 0)

\* The whole balance, as it is read now, and then the account is closed.
Sweep ==
  At("sweep") /\ IF ata[Wallet] = Closed THEN Advance ELSE Send("sweep", Wallet, ata[Wallet])

Report ==
  /\ At("report")
  /\ done' = TRUE
  /\ pc' = [phase |-> "stopped", at |-> 1]
  /\ UNCHANGED <<vars, sent, lateVars, ata, deployer, faults>>

-----------------------------------------------------------------------------
(***************************************************************************)
(* The chain, other parties and faults.                                    *)
(***************************************************************************)
\* Anyone executes w's withdrawal: the destination gets what the fee leaves.
PayOut(w) ==
  LET amount == Entry(w).withdrawing_balance
      to == Entry(w).withdrawal_destination
  IN  /\ ExecuteWithdrawal(<<w, Tok>>)
      /\ ata[to] # Closed
      /\ ata' = [ata EXCEPT ![to] = @ + amount - WithdrawalFee(Tok, amount)]

\* What a transaction does to the accounts when it lands.
Execute(tx) ==
  \/ /\ tx.kind = "unlock"
     /\ CooperativeUnlock(LaneTo(tx.owner), tx.amount)
     /\ UNCHANGED <<ata, deployer>>
  \/ /\ tx.kind = "account"
     /\ ata[tx.owner] = Closed
     /\ ata' = [ata EXCEPT ![tx.owner] = 0]
     /\ UNCHANGED <<vars, deployer>>
  \/ /\ tx.kind = "request"
     /\ RequestWithdrawal(<<tx.owner, Tok>>, tx.amount, tx.owner)
     /\ UNCHANGED <<ata, deployer>>
  \/ /\ tx.kind = "execute"
     /\ PayOut(tx.owner)
     /\ UNCHANGED deployer
  \/ /\ tx.kind = "sweep"
     /\ ata[tx.owner] = tx.amount
     /\ ata' = [ata EXCEPT ![tx.owner] = Closed]
     /\ deployer' = deployer + tx.amount
     /\ UNCHANGED vars

Land ==
  \E tx \in sent :
    /\ Execute(tx)
    /\ sent' = {}
    /\ pc' = After(pc.phase, pc.at)
    /\ UNCHANGED <<lateVars, done, faults>>

Stop == pc' = [phase |-> "stopped", at |-> 1] /\ sent' = {}

Refused ==
  /\ \E tx \in sent : ~ENABLED Execute(tx)
  /\ Stop
  /\ UNCHANGED <<vars, lateVars, ata, deployer, done, faults>>

\* The process is killed or gives up waiting (.rpc() and its confirmation time
\* out); what it sent may land later, until it expires.
Lost ==
  /\ pc.phase # "stopped" /\ faults < MaxFaults
  /\ Stop
  /\ late' = late \cup {[tx |-> tx, run |-> faults] : tx \in sent}
  /\ faults' = faults + 1
  /\ UNCHANGED <<vars, crossed, ata, deployer, done>>

LandLate ==
  \E old \in late :
    /\ Execute(old.tx)
    /\ late' = late \ {old}
    /\ crossed' = crossed \cup {<<old.tx.kind, old.tx.owner>>}
    /\ UNCHANGED <<pc, sent, done, faults>>

\* It expires, or the program refuses it.
DropLate ==
  \E old \in late :
    /\ late' = late \ {old}
    /\ UNCHANGED <<vars, pc, sent, crossed, ata, deployer, done, faults>>

\* The merchant cashes a commitment, a third party executes a withdrawal.
Cash ==
  /\ \E c \in Commitments : SettleIndividual(c, Merchant)
  /\ UNCHANGED <<pc, sent, lateVars, ata, deployer, done, faults>>

Crank ==
  /\ \E w \in Range(Wallets) : PayOut(w)
  /\ UNCHANGED <<pc, sent, lateVars, deployer, done, faults>>

\* Between runs the operator pays into an agent's balance again.
TopUp ==
  /\ pc.phase = "stopped" /\ ~done /\ faults < MaxFaults
  /\ faults' = faults + 1
  /\ \E w \in Range(Roster), n \in Amounts :
       /\ ata[w] >= n
       /\ Deposit(w, Tok, n)
       /\ ata' = [ata EXCEPT ![w] = @ - n]
  /\ UNCHANGED <<pc, sent, lateVars, deployer, done>>

\* Time matters only while a withdrawal is not due.
PassTime ==
  /\ \E w \in Range(Wallets) : HasWithdrawal(Entry(w)) /\ now < Entry(w).withdrawal_unlock_at
  /\ Tick
  /\ UNCHANGED <<pc, sent, lateVars, ata, deployer, done, faults>>

Step ==
  \/ Start \/ Unlock \/ EnsureAccount \/ ExecuteExisting \/ RequestAll
  \/ ExecuteRequested \/ Sweep \/ Report

DrainNext ==
  \/ Step \/ Land \/ Refused \/ Lost \/ LandLate \/ DropLate
  \/ Cash \/ Crank \/ TopUp \/ PassTime

-----------------------------------------------------------------------------
(***************************************************************************)
(* Properties.                                                             *)
(***************************************************************************)
\* Once the report is written no agent has a free balance or (if the channels
\* manifest was there) collateral, whatever was settled, executed by others or
\* interrupted meanwhile.  A withdrawal is pending, or a token account open, only
\* if that is what a request, or a creation, sent by an earlier run did to it
\* since the reporting one began (main, lines 634-827).
DrainLeavesNothing ==
  done =>
    /\ \A w \in Range(Roster) :
         /\ Entry(w).available_balance = 0
         /\ ChannelsKnown => lane[LaneTo(w)].locked_balance = 0
         /\ Entry(w).withdrawing_balance = 0 \/ <<"request", w>> \in crossed
    /\ \A w \in Range(Wallets) : ata[w] = Closed \/ <<"account", w>> \in crossed

\* A withdrawal that settlements drained to nothing is still pending: the
\* script passes over it (withdrawing is 0) but cannot make a new request.
PassedOver(w) ==
  /\ HasWithdrawal(Entry(w))
  /\ Entry(w).withdrawing_balance = 0
  /\ Entry(w).available_balance > 0
=============================================================================
