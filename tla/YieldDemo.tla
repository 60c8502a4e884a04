----------------------------- MODULE YieldDemo -----------------------------
(***************************************************************************)
(* A run of yield-bearing-demo.ts over the wrapper and the mock-yield      *)
(* reserve, once both are registered (YieldBootstrap): the buffer for      *)
(* simulated interest, two new users who deposit, interest at two rates, a *)
(* round trip through the plain token, the protocol's claim, and both      *)
(* users' withdrawals.                                                     *)
(*                                                                         *)
(* Every step reads the chain, sends at most one transaction and waits for *)
(* it; a refused one ends the run.  The users' keys live in the process    *)
(* only: a run that ends early leaves its users behind, and the next run,  *)
(* started once the last transaction has landed or expired, has users of   *)
(* its own.  The clock moves between any two steps.                        *)
(***************************************************************************)
EXTENDS RyvoYield, Sequences

CONSTANTS
  Users,       \* of each run: <<Alice, Bob>>
  PerUser,     \* --per-user-usdc
  YieldBuffer, \* --yield-buffer-usdc
  ApyInitial,  \* --apy-initial-bps
  ApyBumped    \* --apy-bumped-bps

DemoAssumption ==
  /\ Users \in Seq(Participants \X Participants)
  /\ \A r, s \in DOMAIN Users : \A i, j \in 1 .. 2 :       \* Keypair.generate()
       Users[r][i] = Users[s][j] => r = s /\ i = j
  /\ PerUser \in Nat \ {0} /\ YieldBuffer \in Nat
  /\ {ApyInitial, ApyBumped} \subseteq Apys
  /\ WithdrawalTimelock = 0

VARIABLES
  at,   \* position in Plan
  run,  \* number of the run
  sent, \* the transaction the process waits for
  paid  \* what withdrawals have paid to each user

demoVars == <<allVars, at, run, sent, paid>>

Do(op, user) == [op |-> op, user |-> user]

Plan ==
  <<Do("buffer", 1), Do("depositYield", 1), Do("deposit", 2), Do("optIn", 2),
    Do("accrue", 1), Do("apy", 1), Do("accrue", 1), Do("optOut", 2), Do("backIn", 2),
    Do("claim", 1), Do("request", 1), Do("execute", 1), Do("request", 2), Do("execute", 2)>>

Finished == at = Len(Plan) + 1

\* Both tokens are registered over a reserve that is still empty.
RunInit ==
  /\ strategy = InitialStrategy(YieldShareBps)
  /\ shareVault = 0
  /\ reserve = InitialReserve(ApyInitial, now, Buffer)
  /\ at = 1 /\ run = 1 /\ sent = {}
  /\ paid = [u \in Participants |-> 0]

-----------------------------------------------------------------------------
Available(u, t) == slot[<<u, t>>].available_balance

\* The buffer is complete when the vault holds that much, of whosever money.
BufferMissingMutant == 0
BufferMissing == IF reserve.liquidity >= YieldBuffer THEN 0 ELSE YieldBuffer - reserve.liquidity

\* What a step sends, as read; with nothing to send it is skipped.
Amount(op, u) ==
  CASE op = "buffer" -> BufferMissing
    [] op \in {"depositYield", "deposit", "optIn"} -> PerUser
    [] op = "optOut" -> Available(u, Wrapper) \div 4
    [] op = "backIn" -> Available(u, Plain)
    [] op = "claim" -> strategy.protocol_owed_underlying
    [] op = "request" -> Available(u, Wrapper)
    [] op = "execute" -> slot[<<u, Wrapper>>].withdrawing_balance
    [] OTHER -> 1

Skips(op, amount) == amount = 0

Look ==
  /\ ~Finished /\ sent = {}
  /\ LET u == Users[run][Plan[at].user]
         amount == Amount(Plan[at].op, u)
     IN  IF Skips(Plan[at].op, amount)
         THEN at' = at + 1 /\ UNCHANGED sent
         ELSE /\ sent' = {[op |-> Plan[at].op, user |-> u, amount |-> amount]}
              /\ UNCHANGED at
  /\ UNCHANGED <<allVars, run, paid>>

\* ensureLiquidityVaultYieldBuffer mints to the vault or transfers.
FillBuffer(amount) ==
  /\ reserve' = [reserve EXCEPT !.liquidity = @ + amount]
  /\ UNCHANGED <<vars, strategy, shareVault>>
  /\ WithinSupply

\* What executing u's withdrawal pays to u, net of the withdrawal fee.
NetPayout(u) ==
  LET gross == SharesToUsdc(FreshStrategy, slot[<<u, Wrapper>>].withdrawing_balance)
  IN  CusdcToUsdc(UsdcToCusdc(gross - WithdrawalFee(Wrapper, gross), FreshReserve), FreshReserve)

Execute(tx) ==
  \/ /\ \/ tx.op = "buffer" /\ FillBuffer(tx.amount)
        \/ tx.op = "depositYield" /\ DepositYieldBearing(tx.user, tx.amount)
        \/ tx.op = "deposit" /\ Deposit(tx.user, Plain, tx.amount) /\ UNCHANGED yieldVars
        \/ tx.op \in {"optIn", "backIn"} /\ OptInYield(tx.user, tx.amount)
        \/ tx.op = "accrue" /\ AccrueYield
        \/ tx.op = "apy" /\ UpdateApyBps(ApyBumped)
        \/ tx.op = "optOut" /\ OptOutYield(tx.user, tx.amount)
        \/ tx.op = "claim" /\ ClaimProtocolYieldFee(tx.amount)
        \/ tx.op = "request" /\ RequestWithdrawalYieldBearing(tx.user, tx.amount, tx.user)
     /\ UNCHANGED paid
  \/ /\ tx.op = "execute"
     /\ ExecuteWithdrawalYieldBearing(tx.user)
     /\ paid' = [paid EXCEPT ![tx.user] = @ + NetPayout(tx.user)]

Land ==
  \E tx \in sent :
    /\ Execute(tx)
    /\ sent' = {} /\ at' = at + 1
    /\ UNCHANGED <<run>>

\* The next run, with users of its own.
NextRun == at' = 1 /\ run' = run + 1 /\ sent' = {}

Refused ==
  /\ run < Len(Users)
  /\ \E tx \in sent : ~ENABLED Execute(tx)
  /\ NextRun
  /\ UNCHANGED <<allVars, paid>>

\* The process is killed; what it waits for has landed or never will.
Kill ==
  /\ ~Finished /\ run < Len(Users)
  /\ NextRun
  /\ \/ UNCHANGED <<allVars, paid>>
     \/ \E tx \in sent : Execute(tx)

Wait == Tick /\ UNCHANGED <<yieldVars, at, run, sent, paid>>

DemoNext == Look \/ Land \/ Refused \/ Kill \/ Wait

-----------------------------------------------------------------------------
(***************************************************************************)
(* Properties.                                                             *)
(***************************************************************************)
\* The underlying tokens that a transaction takes out of the reserve.
Payout(tx) ==
  CASE tx.op = "claim" -> tx.amount
    [] tx.op = "optOut" -> SharesToUsdc(FreshStrategy, tx.amount)
    [] tx.op = "execute" ->
         SharesToUsdc(FreshStrategy, slot[<<tx.user, Wrapper>>].withdrawing_balance)
    [] OTHER -> 0

\* Interest is booked without tokens; the buffer that the script fills, which
\* counts depositors' money as buffer, is enough for every redemption of every
\* run, also after runs that left their users behind (lines 582-660).
RedemptionsAreCovered == \A tx \in sent : Payout(tx) <= FreshReserve.liquidity

\* A run that ends leaves its users without shares and without plain tokens:
\* the round trip brings back whatever came out of the wrapper (lines 1270-1310).
RunLeavesNothing ==
  Finished =>
    \A i \in 1 .. 2 : \A t \in {Plain, Wrapper} : Total(slot[<<Users[run][i], t>>]) = 0

\* The protocol's cut is worth less than one reserve share: claiming it redeems
\* nothing and mock-yield refuses that.
ClaimIsDust ==
  /\ ~Finished /\ Plan[at].op = "claim" /\ strategy.protocol_owed_underlying > 0
  /\ UsdcToCusdc(strategy.protocol_owed_underlying, FreshReserve) = 0
=============================================================================
