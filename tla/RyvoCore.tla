------------------------------ MODULE RyvoCore ------------------------------
(***************************************************************************)
(* The settlement core of the Ryvo program: participant balances, the      *)
(* token vaults, delayed withdrawals, payment lanes with locked            *)
(* collateral, and the three ways of settling signed off-chain payments    *)
(* (one commitment, a bundle of commitments, a clearing round).            *)
(*                                                                         *)
(* A Solana transaction is atomic and transactions are serialised, so one  *)
(* action is one instruction handler: its guard is the conjunction of the  *)
(* handler's checks, and a transaction that fails any of them changes      *)
(* nothing.  Concurrency is in the order in which owners, payees, settlers *)
(* and the clock act, and in the signed messages: once signed a message    *)
(* may be submitted at any later time, in any order and repeatedly, or     *)
(* never.                                                                  *)
(*                                                                         *)
(* Definitions named ...Mutant are plausible mistakes in the definition    *)
(* that follows; no other definition uses them (README, "Mutants").        *)
(*                                                                         *)
(* A participant is named by its owner's key; registration, token and fee  *)
(* administration are constants of this module.  Shares of a yield-bearing *)
(* wrapper are locked, paid and settled like any token; how they come into *)
(* being and are cashed is in RyvoYield.                                   *)
(***************************************************************************)
EXTENDS ChannelLanes, FiniteSets, FiniteSetsExt

CONSTANTS
  Participants,       \* registered participants
  Keys,               \* signing keys; owners' keys are among them
  Tokens,             \* registered tokens
  YieldTokens,        \* those of them that are yield-bearing wrappers
  Lanes,              \* [payer, payee, token] that owners may open
  Commitments,        \* commitment messages a key holder may sign
  Rounds,             \* clearing-round messages participants may sign
  Destinations,       \* withdrawal token accounts
  SignerChoices,      \* signers that owners name for their lanes
  Amounts,            \* amounts in owners' instructions
  MaxRecipients,      \* MAX_DEPOSIT_FOR_RECIPIENTS
  MaxTokenBalances,   \* MAX_BUCKET_TOKEN_BALANCES
  Supply,             \* supply of each token's mint
  Decimals,           \* decimals of each token's mint
  FeeBps,             \* GlobalConfig.fee_bps
  WithdrawalTimelock, \* GlobalConfig.withdrawal_timelock_seconds
  ChannelTimelock,    \* effective_channel_unlock_timelock_seconds
  VaultAccount,       \* the vaults' own token accounts, a possible destination
  MaxTime             \* bound on the clock, no counterpart in the code

Accounts == Participants \X Tokens

ASSUME KeysAssumption ==
  /\ Participants \subseteq Keys
  /\ NoKey \notin Keys \cup Destinations
  /\ SignerChoices \subseteq Keys \cup {NoKey}

ASSUME LanesAssumption ==
  /\ Lanes \subseteq [payer : Participants, payee : Participants, token : Tokens]
  /\ \A l \in Lanes : l.payer # l.payee

ASSUME FinitenessAssumption ==
  IsFiniteSet(Participants) /\ IsFiniteSet(Lanes)

ASSUME CommitmentsAssumption ==
  Commitments \subseteq [lane : Lanes, amount : Nat, signer : Keys,
                         settler : Keys \cup {NoKey}]

ASSUME RoundsAssumption ==
  \A r \in Rounds :
    /\ r.token \in Tokens
    /\ DOMAIN r.targets \subseteq {l \in Lanes : l.token = r.token}
    /\ \A l \in DOMAIN r.targets : r.targets[l] \in Nat

ASSUME AmountsAssumption == Amounts \subseteq Nat

ASSUME SupplyAssumption ==
  /\ Supply \in [Tokens -> Nat]
  /\ Decimals \in [Tokens -> Nat]
  /\ YieldTokens \subseteq Tokens
  /\ \A t \in Tokens : Supply[t] <= MaxU64

ASSUME ConfigAssumption ==
  /\ FeeBps \in 0 .. 10000
  /\ WithdrawalTimelock \in Nat
  /\ ChannelTimelock \in Nat \ {0}
  /\ MaxTime \in Nat
  /\ MaxRecipients \in Nat
  /\ MaxTokenBalances \in Nat

VARIABLES
  now,      \* Clock::unix_timestamp
  slot,     \* token entries of the participants
  lane,     \* payment lanes
  vault,    \* token balance of each vault
  policy,   \* inbound channel policy of each participant
  bls,      \* participants with a registered BLS key
  signed,   \* off-chain messages signed so far
  \* History variables: what was paid in and out, and what owners asked for.
  funded,   \* what each account paid in, less what it was paid out
  asked,    \* the unlock request a lane's pending unlock comes from
  rotation  \* the signer request a lane's pending signer comes from

balanceVars == <<slot, vault, funded>>
laneVars == <<lane, asked, rotation>>
memberVars == <<policy, bls>>
vars == <<now, balanceVars, laneVars, memberVars, signed>>

Policies == {"Permissionless", "ConsentRequired", "Disabled"}

RoundSignature == [round : Rounds, by : Participants]

NoAsk == [amount |-> 0, at |-> 0, low |-> 0]
NoRotation == [key |-> NoKey, at |-> 0]

-----------------------------------------------------------------------------
(***************************************************************************)
(* initialize_slot_in_data gives a participant its default policy, no BLS  *)
(* key and an empty token table.                                           *)
(***************************************************************************)
Init ==
  /\ now = 1
  /\ slot = [a \in Accounts |-> EmptyEntry]
  /\ lane = [l \in Lanes |-> UninitializedLane]
  /\ vault = [t \in Tokens |-> 0]
  /\ policy = [p \in Participants |-> "ConsentRequired"]
  /\ bls = {}
  /\ signed = {}
  /\ funded = [a \in Accounts |-> 0]
  /\ asked = [l \in Lanes |-> NoAsk]
  /\ rotation = [l \in Lanes |-> NoRotation]

Payer(l) == <<l.payer, l.token>>
Payee(l) == <<l.payee, l.token>>

\* The token table of a participant has an entry, or room for one.
HasRoom(p, t) ==
  \/ slot[<<p, t>>].initialized
  \/ Cardinality({u \in Tokens : slot[<<p, u>>].initialized}) < MaxTokenBalances

CanCredit(p, t, amount) ==
  HasRoom(p, t) /\ CanApplyDelta(slot[<<p, t>>], amount)

\* The clock leaves room for a timelock that starts now (bound MaxTime).
WithinHorizon(timelock) == now + timelock <= MaxTime

(***************************************************************************)
(* History of unlock requests after a step that leaves the lanes as next:  *)
(* low is the least collateral the lane held since the request.            *)
(***************************************************************************)
AskedAfter(next) ==
  [l \in Lanes |->
     IF next[l].pending_unlock_amount = 0
     THEN NoAsk
     ELSE [asked[l] EXCEPT !.low = Lesser(@, next[l].locked_balance)]]

-----------------------------------------------------------------------------
(***************************************************************************)
(* Deposits.  The SPL transfer into the vault needs tokens that are not in *)
(* it yet; every recipient's entry must exist or fit in its table.         *)
(***************************************************************************)
Deposit(p, t, amount) ==
  /\ t \notin YieldTokens
  /\ amount > 0
  /\ vault[t] + amount <= Supply[t]
  /\ CanCredit(p, t, amount)
  /\ slot' = [slot EXCEPT ![<<p, t>>] = Credit(@, amount)]
  /\ vault' = [vault EXCEPT ![t] = @ + amount]
  /\ funded' = [funded EXCEPT ![<<p, t>>] = @ + amount]
  /\ UNCHANGED <<now, laneVars, memberVars, signed>>

\* What the sequence of credits pays to p; recipients may repeat.
CreditTo(credits, p) ==
  SumFunctionOnSet([i \in DOMAIN credits |-> credits[i][2]],
                   {i \in DOMAIN credits : credits[i][1] = p})

DepositFor(t, credits) ==
  LET total == SumFunction([i \in DOMAIN credits |-> credits[i][2]])
      recipients == {credits[i][1] : i \in DOMAIN credits}
      credited(a) == a[2] = t /\ a[1] \in recipients
  IN  /\ t \notin YieldTokens
      /\ \A i \in DOMAIN credits : credits[i][2] > 0
      /\ total \in 1 .. MaxU64
      /\ vault[t] + total <= Supply[t]
      /\ \A p \in recipients :
           /\ CreditTo(credits, p) \in 1 .. MaxU64
           /\ CanCredit(p, t, CreditTo(credits, p))
      /\ slot' = [a \in Accounts |->
                    IF credited(a)
                    THEN Credit(slot[a], CreditTo(credits, a[1]))
                    ELSE slot[a]]
      /\ vault' = [vault EXCEPT ![t] = @ + total]
      /\ funded' = [a \in Accounts |->
                      IF credited(a)
                      THEN funded[a] + CreditTo(credits, a[1])
                      ELSE funded[a]]
      /\ UNCHANGED <<now, laneVars, memberVars, signed>>

-----------------------------------------------------------------------------
(***************************************************************************)
(* Withdrawals: request, cancel, and an execution that anyone may submit.  *)
(***************************************************************************)
RequestWithdrawal(a, amount, destination) ==
  /\ a[2] \notin YieldTokens
  /\ amount > 0
  /\ WithinHorizon(WithdrawalTimelock)
  /\ CanInitiateWithdrawal(slot[a], amount)
  /\ slot' = [slot EXCEPT ![a] = InitiateWithdrawal(@, amount, destination,
                                                    now + WithdrawalTimelock)]
  /\ UNCHANGED <<now, vault, funded, laneVars, memberVars, signed>>

CancelWithdrawal(a) ==
  /\ CanCancelWithdrawal(slot[a])
  /\ slot' = [slot EXCEPT ![a] = CancelWithdrawalEntry(@)]
  /\ UNCHANGED <<now, vault, funded, laneVars, memberVars, signed>>

\* MIN_WITHDRAWAL_FEE_6DP in the token's own units, at least one unit.
ScaledMinFee(t) ==
  IF Decimals[t] >= 6
  THEN 50000 * 10 ^ (Decimals[t] - 6)
  ELSE Greater(50000 \div 10 ^ (6 - Decimals[t]), 1)

\* The larger of the floor and the percentage, but never more than is paid out.
WithdrawalFeeMutant(t, amount) ==
  Greater((amount * FeeBps) \div 10000, ScaledMinFee(t))
WithdrawalFee(t, amount) ==
  Lesser(Greater((amount * FeeBps) \div 10000, ScaledMinFee(t)), amount)

\* A destination that is the vault itself gets its part back.
ExecuteWithdrawal(a) ==
  LET amount == slot[a].withdrawing_balance
      fee == WithdrawalFee(a[2], amount)
      paidOut == IF slot[a].withdrawal_destination = VaultAccount THEN fee ELSE amount
  IN  /\ a[2] \notin YieldTokens
      /\ slot[a].initialized
      /\ HasWithdrawal(slot[a])
      /\ now >= slot[a].withdrawal_unlock_at
      /\ \/ amount = 0 /\ UNCHANGED <<vault, funded>>
         \/ /\ amount > 0
            /\ ScaledMinFee(a[2]) \in 0 .. MaxU64
            /\ fee <= amount
            /\ vault[a[2]] >= amount
            /\ vault' = [vault EXCEPT ![a[2]] = @ - paidOut]
            /\ funded' = [funded EXCEPT ![a] = @ - amount]
      /\ slot' = [slot EXCEPT ![a] = ClearWithdrawal(@)]
      /\ UNCHANGED <<now, laneVars, memberVars, signed>>

-----------------------------------------------------------------------------
(***************************************************************************)
(* Opening a lane and moving collateral into and out of it.                *)
(***************************************************************************)
UpdateInboundPolicy(p, newPolicy) ==
  /\ policy' = [policy EXCEPT ![p] = newPolicy]
  /\ UNCHANGED <<now, balanceVars, laneVars, bls, signed>>

RegisterBlsKey(p) ==
  /\ p \notin bls
  /\ bls' = bls \cup {p}
  /\ UNCHANGED <<now, balanceVars, laneVars, policy, signed>>

CreateChannel(l, payeeSigns, signer) ==
  /\ \/ policy[l.payee] = "Permissionless"
     \/ policy[l.payee] = "ConsentRequired" /\ payeeSigns
  /\ ~lane[l].initialized
  /\ lane' = [lane EXCEPT ![l] = InitializeLane(signer)]
  /\ UNCHANGED <<now, balanceVars, asked, rotation, memberVars, signed>>

LockChannelFunds(l, amount) ==
  /\ amount > 0
  /\ lane[l].initialized
  /\ CanDebitAvailable(slot[Payer(l)], amount)
  /\ Fits(lane[l].locked_balance + amount)
  /\ slot' = [slot EXCEPT ![Payer(l)] = DebitAvailable(@, amount)]
  /\ lane' = [lane EXCEPT ![l] = AddLocked(@, amount)]
  /\ asked' = AskedAfter(lane')
  /\ UNCHANGED <<now, vault, funded, rotation, memberVars, signed>>

RequestUnlock(l, amount) ==
  /\ amount > 0
  /\ WithinHorizon(ChannelTimelock)
  /\ lane[l].initialized
  /\ amount <= lane[l].locked_balance
  /\ lane' = [lane EXCEPT ![l] = RequestLaneUnlock(@, amount, now)]
  /\ asked' = [asked EXCEPT ![l] = [amount |-> amount, at |-> now,
                                    low |-> lane[l].locked_balance]]
  /\ UNCHANGED <<now, balanceVars, rotation, memberVars, signed>>

ExecuteUnlock(l) ==
  LET released == ReleasedAmount(lane[l])
  IN  /\ lane[l].initialized
      /\ HasPendingUnlock(lane[l])
      /\ now >= lane[l].unlock_requested_at + ChannelTimelock
      /\ released > 0 => CanCredit(l.payer, l.token, released)
      /\ slot' = [slot EXCEPT ![Payer(l)] = ApplyDelta(@, released)]
      /\ lane' = [lane EXCEPT ![l] = ExecuteLaneUnlock(@)]
      /\ asked' = AskedAfter(lane')
      /\ UNCHANGED <<now, vault, funded, rotation, memberVars, signed>>

CooperativeUnlock(l, amount) ==
  /\ amount > 0
  /\ lane[l].initialized
  /\ amount <= lane[l].locked_balance
  /\ CanCredit(l.payer, l.token, amount)
  /\ lane' = [lane EXCEPT ![l] = CooperativeUnlockLane(@, amount)]
  /\ slot' = [slot EXCEPT ![Payer(l)] = Credit(@, amount)]
  /\ asked' = AskedAfter(lane')
  /\ UNCHANGED <<now, vault, funded, rotation, memberVars, signed>>

-----------------------------------------------------------------------------
(***************************************************************************)
(* Rotation of the key whose commitments a lane honours.                   *)
(***************************************************************************)
RequestSignerUpdate(l, newSigner) ==
  /\ WithinHorizon(ChannelTimelock)
  /\ lane[l].initialized
  /\ CanRequestSigner(lane[l], newSigner)
  /\ lane' = [lane EXCEPT ![l] = RequestSigner(@, newSigner, now)]
  /\ rotation' = [rotation EXCEPT ![l] = [key |-> newSigner, at |-> now]]
  /\ UNCHANGED <<now, balanceVars, asked, memberVars, signed>>

ExecuteSignerUpdate(l) ==
  /\ lane[l].initialized
  /\ HasPendingSigner(lane[l])
  /\ now >= lane[l].authorized_signer_update_requested_at + ChannelTimelock
  /\ lane' = [lane EXCEPT ![l] = ExecuteSigner(@)]
  /\ rotation' = [rotation EXCEPT ![l] = NoRotation]
  /\ UNCHANGED <<now, balanceVars, asked, memberVars, signed>>

-----------------------------------------------------------------------------
(***************************************************************************)
(* Settlement.  A target is the cumulative amount a signed message pays on *)
(* a lane; what it adds to the settled amount is taken from the lane's     *)
(* collateral first and from the payer's shared balance for the rest.      *)
(***************************************************************************)
Owed(l, target) == target - lane[l].settled_cumulative
LockedConsumedMutant(l, target) == 0
LockedConsumed(l, target) == Lesser(lane[l].locked_balance, Owed(l, target))
SharedDebit(l, target) == Owed(l, target) - LockedConsumed(l, target)

IncreasesMutant(l, target) == lane[l].initialized
\* The lane can take the target: it exists and its settled amount increases.
Increases(l, target) ==
  lane[l].initialized /\ target > lane[l].settled_cumulative

\* Every participant's entry can take its net of token t.
CanApplySettlement(t, net) ==
  \A p \in Participants :
    /\ CanApplyDelta(slot[<<p, t>>], net[p])
    /\ net[p] > 0 => HasRoom(p, t)

\* Pay the targets: lanes take them, and participants their net of token t.
ApplySettlement(t, targets, net) ==
  /\ CanApplySettlement(t, net)
  /\ slot' = [a \in Accounts |->
                IF a[2] = t THEN ApplyDelta(slot[a], net[a[1]]) ELSE slot[a]]
  /\ lane' = [l \in Lanes |->
                IF l \in DOMAIN targets
                THEN ApplyLaneSettlement(lane[l], targets[l],
                                         LockedConsumed(l, targets[l]))
                ELSE lane[l]]
  /\ asked' = AskedAfter(lane')
  /\ UNCHANGED <<now, vault, funded, rotation, memberVars, signed>>

\* The key that signed is the one the lane honours now.
SignedByLaneKeyMutant(c) ==
  c.signer \in {lane[c.lane].authorized_signer, lane[c.lane].pending_authorized_signer}
SignedByLaneKey(c) == c.signer = lane[c.lane].authorized_signer

\* Collateral and shared balance together cover what the lane owes.
AffordableMutant(l, target) == Total(slot[Payer(l)]) >= Owed(l, target)
Affordable(l, target) ==
  LET available == lane[l].locked_balance + Total(slot[Payer(l)])
  IN  slot[Payer(l)].initialized /\ Fits(available) /\ available >= Owed(l, target)

\* The checks settle_individual and settle_commitment_bundle share.
CommitmentAccepted(c, submitter) ==
  /\ c \in signed
  /\ SignedByLaneKey(c)
  /\ submitter \in {c.lane.payee, c.settler}
  /\ Increases(c.lane, c.amount)
  /\ Affordable(c.lane, c.amount)

\* What settling one commitment changes: the payer pays the shared part.
IndividualNet(c) ==
  [p \in Participants |->
     CASE p = c.lane.payer -> -SharedDebit(c.lane, c.amount)
       [] p = c.lane.payee -> Owed(c.lane, c.amount)
       [] OTHER -> 0]

\* The guard of SettleIndividual: all that submitter's transaction must pass.
CanSettleIndividual(c, submitter) ==
  CommitmentAccepted(c, submitter) /\ CanApplySettlement(c.lane.token, IndividualNet(c))

SettleIndividual(c, submitter) ==
  /\ CommitmentAccepted(c, submitter)
  /\ ApplySettlement(c.lane.token, [l \in {c.lane} |-> c.amount], IndividualNet(c))

\* One payee and token, one commitment per lane: each payer occurs once.
SettleCommitmentBundle(payee, token, bundle, submitter) ==
  LET total == SumFunction([c \in bundle |-> Owed(c.lane, c.amount)])
      of(p) == CHOOSE c \in bundle : c.lane.payer = p
      net == [p \in Participants |->
                CASE p = payee -> total
                  [] p # payee /\ (\E c \in bundle : c.lane.payer = p) ->
                       -SharedDebit(of(p).lane, of(p).amount)
                  [] OTHER -> 0]
      lanes == {c.lane : c \in bundle}
  IN  /\ bundle # {}
      /\ \A c \in bundle : c.lane.payee = payee /\ c.lane.token = token
      /\ \A c, d \in bundle : c.lane = d.lane => c = d
      /\ \A c \in bundle : CommitmentAccepted(c, submitter)
      /\ total \in 0 .. MaxU64
      /\ ApplySettlement(token,
                         [l \in lanes |-> (CHOOSE c \in bundle : c.lane = l).amount],
                         net)

\* The participants whose blocks carry entries, and so must have signed.
RoundPayers(r) == {l.payer : l \in DOMAIN r.targets}

\* What the targets owe on each lane, and the part that is shared funds.
OwedBy(targets) == [l \in DOMAIN targets |-> Owed(l, targets[l])]
SharedBy(targets) == [l \in DOMAIN targets |-> SharedDebit(l, targets[l])]

\* What p gains from the targets, less what they take from its shared balance.
Net(owed, shared, p) ==
    SumFunctionOnSet(owed, {l \in DOMAIN owed : l.payee = p})
  - SumFunctionOnSet(shared, {l \in DOMAIN shared : l.payer = p})

RoundNetMutant(r, p) == Net(SharedBy(r.targets), SharedBy(r.targets), p)
RoundNet(r, p) == Net(OwedBy(r.targets), SharedBy(r.targets), p)

RoundGross(r) == SumFunction(OwedBy(r.targets))

SettleClearingRound(r) ==
  LET net == [p \in Participants |-> RoundNet(r, p)]
  IN  /\ RoundPayers(r) # {}
      /\ \A p \in RoundPayers(r) : p \in bls /\ [round |-> r, by |-> p] \in signed
      /\ \A l \in DOMAIN r.targets : Increases(l, r.targets[l])
      /\ RoundGross(r) \in 0 .. MaxU64
      /\ \A p \in Participants : net[p] \in -MaxU64 .. MaxU64
      /\ ApplySettlement(r.token, r.targets, net)

-----------------------------------------------------------------------------
(***************************************************************************)
(* The environment: key holders sign messages off chain, and time passes.  *)
(***************************************************************************)
SignCommitment(c) ==
  /\ c \notin signed
  /\ signed' = signed \cup {c}
  /\ UNCHANGED <<now, balanceVars, laneVars, memberVars>>

SignRound(r, p) ==
  /\ p \in RoundPayers(r)
  /\ [round |-> r, by |-> p] \notin signed
  /\ signed' = signed \cup {[round |-> r, by |-> p]}
  /\ UNCHANGED <<now, balanceVars, laneVars, memberVars>>

Tick ==
  /\ now < MaxTime
  /\ now' = now + 1
  /\ UNCHANGED <<balanceVars, laneVars, memberVars, signed>>

OwnerNext ==
  \/ \E p \in Participants, t \in Tokens, n \in Amounts : Deposit(p, t, n)
  \/ \E t \in Tokens, k \in 1 .. MaxRecipients :
       \E credits \in [1 .. k -> Participants \X Amounts] : DepositFor(t, credits)
  \/ \E a \in Accounts, n \in Amounts, d \in Destinations : RequestWithdrawal(a, n, d)
  \/ \E a \in Accounts : CancelWithdrawal(a)
  \/ \E p \in Participants, new \in Policies : UpdateInboundPolicy(p, new)
  \/ \E p \in Participants : RegisterBlsKey(p)

LaneNext ==
  \/ \E l \in Lanes, consent \in BOOLEAN, k \in SignerChoices : CreateChannel(l, consent, k)
  \/ \E l \in Lanes, n \in Amounts : LockChannelFunds(l, n)
  \/ \E l \in Lanes, n \in Amounts : RequestUnlock(l, n)
  \/ \E l \in Lanes : ExecuteUnlock(l)
  \/ \E l \in Lanes, n \in Amounts : CooperativeUnlock(l, n)
  \/ \E l \in Lanes, k \in SignerChoices : RequestSignerUpdate(l, k)
  \/ \E l \in Lanes : ExecuteSignerUpdate(l)

SettleNext ==
  \/ \E c \in Commitments, s \in Keys : SettleIndividual(c, s)
  \/ \E payee \in Participants, t \in Tokens, bundle \in SUBSET Commitments, s \in Keys :
       SettleCommitmentBundle(payee, t, bundle, s)
  \/ \E r \in Rounds : SettleClearingRound(r)

Next ==
  \/ OwnerNext
  \/ LaneNext
  \/ SettleNext
  \/ \E a \in Accounts : ExecuteWithdrawal(a)
  \/ \E c \in Commitments : SignCommitment(c)
  \/ \E r \in Rounds, p \in Participants : SignRound(r, p)
  \/ Tick

Spec == Init /\ [][Next]_vars
=============================================================================
