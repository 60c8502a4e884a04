# Ryvo: models, checks and proofs of the settlement program and its scripts

Ryvo is an on-chain program (Solana, Anchor, `src/programs/ryvo-protocol`) in
which participants hold token balances, lock collateral in payment lanes, pay
each other with signed off-chain messages, and settle those messages on chain,
one by one, in bundles, or netted in a clearing round. TypeScript programs
(`src/scripts`) deploy it, register wallets, move money in and out, send its
transactions and search for the largest rounds. This directory holds TLA+
modules translated from the program and from those scripts, the TLC
configurations that check them, and proofs checked by TLAPS.

## 1. The system

A Solana transaction is atomic and transactions that touch the same account are
serialised. So there is no concurrency inside a handler. What makes the program
hard is the order in which independent parties act (payer, payee, settler,
anyone who cranks a timelocked instruction, the authority), the clock, and the
signed messages, which live off chain: a message may be submitted late, twice,
after a newer one, by another party, or never.

The scripts are the opposite: each is a sequential process that reads accounts,
decides, and sends transactions that land later, or fail, or never land, while
others act. It can be killed at any point, and the operator starts it again from
the beginning. What makes them hard is everything they read before they act.

### The program

| Component | State it keeps | Operations | Hard part | What makes it correct |
|---|---|---|---|---|
| Global configuration (`state/config.rs`) | authority and nominee, fee, recipient, timelocks, chain | `initialize`, `update_config`, `accept_config_authority` | handover in two steps | only the authority, and later only the nominee last named, changes anything |
| Token registry (`state/token_registry.rs`) | list of token id, mint, decimals, kind | `initialize_token_registry`, `register_token`, `register_yield_bearing_token`, authority handover | uniqueness across ids, mints and kinds | an id keeps its mint, plain mints are distinct |
| Participant registration (`initialize_participant.rs`, `OwnerIndexBucket`) | ids in order, slots in participant buckets, owner index | `initialize_participant` | a full owner-index bucket, two accounts that must agree | one id per owner, one owner per id |
| Participant balances (`ParticipantBucket`) | per token: available, withdrawing, unlock time, destination | `deposit`, `deposit_for` | repeated recipients, table of 16 entries | every token paid in is owed to somebody |
| Delayed withdrawals | the same entry | request, cancel, execute | settlements drain a pending withdrawal; fee larger than the amount; anyone executes | pinned while pending, paid at most once, always completes |
| Lanes (`ChannelBucket`) | per direction: settled amount, collateral, key, pending unlock, pending key | create, lock, request/execute/cooperative unlock | unlock requests race settlements, new locks and each other | the payee never loses collateral without notice or consent |
| Signer rotation | the lane's pending key | request, execute | commitments of the old key are outstanding | the key changes only with notice |
| Unilateral settlement (`settle_individual.rs`, `settle_commitment_bundle.rs`) | none of its own | settle one, settle a bundle | replays, reordering, shared balances of several lanes | each payment counts once and is authorised |
| Clearing rounds (`settle_clearing_round.rs`) | none of its own | settle a netted round | balances are read before lanes are applied; lanes may move between signing and submission | the same, for the net of many lanes |
| Message codecs (`clearing_round_message.rs`, `settle_individual.rs`) | none | read a commitment, read a round (twice) | integers of variable length, lengths inside the message | what was written is read, nothing is truncated |
| BLS keys (`register_participant_bls_key.rs`, `bls.rs`) | one key per slot | register | who must have signed a round | a payer of a round has signed it |
| Inbound policy | one value per participant | update | consent to incoming lanes | a lane opens only as the payee's policy allows |
| Yield strategy (`yield_bearing.rs`, `state/yield_strategy.rs`) | index, shares, protocol claim, last settled value | accrue, deposit, withdraw, claim, opt in, opt out | rounding in four conversions, a reserve of another program | no share is lost or made, attributed yield is kept, claims exceed the share vault by no more than rounding |
| Mock yield reserve (`programs/mock-yield`) | underlying, share supply, rate | accrue, deposit, redeem | interest over time, rounding | a share never loses value to deposits and redemptions |
| Bucket addressing (`bucket_state.rs`) | none | pairing function, bucket and slot numbers | overflow, injectivity | two pairs never share a slot |

Handlers communicate through accounts only: a lane's lock, unlock and
settlement move tokens between the payer's entry and the lane; a settlement
moves from lane and payer's entry to the payee's entry; deposits and withdrawals
move between entries and the token vault. Clearing rounds read the BLS key that
registration wrote; `create_channel` reads the payee's policy.

### The scripts

| Component | State it keeps | Hard part | What makes it correct |
|---|---|---|---|
| Deployment (`initialize-program.ts`, `devnet-admin.cjs ensure-token`, `colosseum-basic-setup.ts --ensure-usdc`) | what it read of configuration and registry; fee accounts and files it writes | authorities are handed over and other scripts register tokens after the read | what it wrote down is on chain; it ends unless blocked for good |
| Wallet registration (`colosseum-basic-setup.ts`, `devnet-admin.cjs ensure-participant`, `ensureParticipants` of the demo) | ids it predicted or looked up, a manifest | the id is predicted from a counter that anyone advances | it acts under the ids of its own wallets |
| Wallet funding (`colosseum-fund-wallets.ts`) | a budget | kills and retries between transfers | a wallet is paid up to its target, once |
| Channel setup (`colosseum-channels-setup.ts`) | what it read of a lane, a lookup table, a manifest | four steps per agent, each gated by an earlier read | nobody is overcharged, the manifest is true |
| Drain (`colosseum-drain-current.ts`) | phase and position | payees settle and others execute withdrawals meanwhile | what it reports as drained is empty |
| RPC sender (`sendVersionedTransaction` and its siblings) | signature, attempt | an answer is lost although the transaction ran | a transaction runs at most once, and an answer means what it says |
| Demo run (`ryvo-protocol-demo.ts`, `main`) | targets it signed | a broken-off run leaves cumulative commitments behind | each run pays once and reports what was paid |
| Round search and live rounds (the same file) | cache of settled amounts, best candidate | halving with carried bounds; candidates share lanes | the largest is found; no obligation is paid twice |
| Yield demo (`yield-bearing-demo.ts`) | position in its plan; keys of its users, in memory | a killed run leaves its users behind | redemptions are covered, users get everything out |
| Capacity searches (`lib/clearing-round-capacity.ts`, `lib/unilateral-settlement-capacity.ts`) | best size so far | a row is broken off at the first miss | no larger round would have fitted |

Scripts and program interact through transactions and account reads only. In
the models of `ChannelsSetup`, `DrainScript`, `DemoRun` and `LiveRounds` the
program is `RyvoCore` itself, in `RegistrationScripts` it is `RyvoDirectory`, in
`YieldDemo` it is `RyvoYield`, and in `Deployment` and `YieldBootstrap` it is
`RyvoAdmin`. So a script's transaction is an action of the program's model, with
its guard, and a transaction that the guard refuses fails the script as on chain.

## 2. Modules

| Module | Content |
|---|---|
| `BucketSlots` | one token entry and the raw-data helpers of `ParticipantBucket`: pure operators, `Can...` for the condition under which a helper returns Ok |
| `ChannelLanes` | one directional lane and the helpers of `ChannelBucket` |
| `RyvoCore` | the state machine: every participant, lane and settlement instruction as one action, signing off chain, the clock |
| `RyvoSafety` | its properties |
| `MockReserve` | the reserve of `mock-yield`: accrual, rates, deposits, redemptions, as pure operators |
| `YieldStrategy` | the strategy account: index, conversions, yield attribution, solvency check; extends `MockReserve` |
| `RyvoYield`, `RyvoYieldSafety` | the wrapper instructions as actions over `RyvoCore`, a strategy, its share vault and the reserve, with the reserve's own instructions submitted by others; its properties |
| `BucketAddressing` | bucket and slot numbers of participants and of pairs, as pure operators |
| `RyvoDirectory`, `RyvoDirectorySafety` | registration, owner index, inbound policy and the slots and lanes that `create_channel` occupies, each with its address; its properties |
| `RyvoAdmin` | configuration and token registry: creation, registration of plain tokens and wrappers, fee recipient, both handovers |
| `MessageReader` | commitments and rounds as bytes: writers of the clients, readers of the program |
| `Deployment` | three deployment scripts over `RyvoAdmin` |
| `RegistrationScripts` | three registering scripts over `RyvoDirectory` |
| `FundWallets`, `ChannelsSetup`, `DrainScript` | the Colosseum scripts that move money; the last two over `RyvoCore` |
| `SendOnce`, `RpcSender` | what a caller may expect of a sender, and the three senders, which implement it |
| `RoundSearch`, `LiveRounds`, `DemoRun` | the demo: searches, live submission, and a whole run; the last two over `RyvoCore` |
| `YieldBootstrap`, `YieldDemo` | the yield demo's bootstrap over `RyvoAdmin`, and its run over `RyvoYield` |
| `RoundCapacity` | sizes of transactions and the capacity searches; extends `BucketAddressing` |
| `MCLanes`, `MCSettlement`, `MCWithdrawals`, `MCYieldLanes`, `MCYieldRates`, `MCDirectory` | instances of the program's modules for TLC, each with a `.cfg` of the same name |
| `MCProgramSetup` | deployment, registration and bootstrap scripts in one instance |
| `MCColosseum` | funding, setup and drain in one instance |
| `MCDemos` | demo run, live rounds and yield demo in one instance |
| `MCWire` | message readers, capacity and round searches in one instance |
| `RyvoCoreProofs` | type correctness with lemmas on every action; the inductive invariant on notice and the safety theorems that follow; laws of sums over finite sets; every payment counts once, vaults back liabilities; collateral is collectable and drained first, withdrawals are pinned |
| `RyvoDirectoryProofs` | the pairing function is injective, and the directory's inductive invariant |
| `RpcSenderProofs` | the senders implement `SendOnce`, step by step |
| `RyvoYieldProofs` | conservation, worth and solvency of the wrapper |
| `SetupProofs` | deployment, registration and bootstrap scripts, and the handover of authorities |
| `DemoProofs` | demo run, live rounds and yield demo: payments happen once, reports are true |
| `ColosseumProofs` | funding, setup and drain: manifests are true, nobody is overcharged |
| `WireProofs` | messages: what is written is read, and read alike twice; the searches for the largest round, and for what fits into a packet |

### State of the program's modules

| TLA+ | Program |
|---|---|
| `now` | `Clock::unix_timestamp`; starts at 1, because 0 means "none" in the stored times |
| `slot[<<p, t>>]` | `BucketTokenBalance` of participant p for token t; `initialized` is "p's table has an entry for t" |
| `lane[l]` | `DirectionalLaneState` for l = [payer, payee, token] |
| `vault[t]` | amount of the vault token account of t |
| `policy`, `bls` | policy and BLS key of a participant's slot |
| `signed` | messages signed off chain so far; an Ed25519 or BLS check of a message succeeds exactly for these |
| `funded`, `asked`, `rotation` | history: what each account paid in less what it took out, the unlock request a pending unlock stems from with the least collateral since, the last signer request |
| `strategy`, `shareVault`, `reserve` | the `YieldStrategy` account of the wrapper, cUSDC in its share vault, and the `Reserve` account with the supply of its share mint and its liquidity vault |
| `participantSlots`, `ownerIndex`, `channelSlots` | initialised slots of all buckets of a kind, as records with bucket number and contents |
| `openLanes` | addresses of the initialised lanes |
| `next_participant_id` | the counter of `GlobalConfig` |
| `config`, `registry` | `GlobalConfig` and `TokenRegistry`, as far as wallets and tokens go |

No action of the program reads a history variable in its guard.

Wrapper shares are entries `slot[<<p, Wrapper>>]` like those of any token, and
lanes in them are lanes like any other: `RyvoYield` takes the core's actions as
they are (`CoreNext`) and adds the instructions that make and burn shares.
`funded` counts shares for the wrapper. The plain instructions refuse yield-bearing
tokens (`YieldTokens`), as the handlers do.

### State of the scripts' modules

Each script has a program counter (`pc`, `phase` or `at`: the step it is at and
the wallet or lane it is working on), the values it has read and will still use
(`seen`, `guess`, `asAuthority`, `known`, `cached`, `before`), the transactions
it waits for (`sent`), transactions of ended processes that may still land
(`late`, and those in `flying` that are marked `stray`), and what it leaves behind
(manifests, tables, reports). A value that the code reads and uses in one step, with
nothing awaited in between that matters, is read in the action itself; the live
rounds read all lanes at the start of a run in one step, the code one after another.
`faults`, `kills` and `handovers` bound the environment and have no counterpart in
the code.

Four histories are not in the code either, and no guard reads them. They say what
transactions of ended runs did after a newer run had started, which that run cannot
have seen: `crossed` (what requests and creations did to a wallet while the drain
runs), `slack` (what overtaken deposits and locks moved in the setup), `brought` (what
overtaken transfers brought a wallet in the funding), and `strayed` (what rounds of
earlier runs paid on a lane). A flight or a late transaction becomes a stray, or is
`overtaken`, when the next run starts.

### Actions

Each action of `RyvoCore` has the name of its instruction in camel case
(`execute_unlock_channel_funds` is `ExecuteUnlock`, and so on) and models the
whole handler: the guard is the conjunction of its `require!`s and of the
errors of the helpers it calls, for a transaction that fails any of them changes
nothing. `SignCommitment`, `SignRound` and `Tick` are the environment.
Parameters that a submitter chooses are quantified over constant sets.

The actions of `RyvoYield` contain the calls into `mock-yield`: each refreshes
reserve and strategy first (`FreshReserve`, `FreshStrategy`), computes with the
refreshed rate, and requires solvency last (`EndsSolvent`), as the handlers do.
`ExecuteWithdrawalYieldBearing` has the handler's two paths,
`ClearDrainedWithdrawal` and `CashWithdrawal`; the latter redeems net amount
and fee one after the other, the second at the rate that the first leaves.

`RyvoDirectory` models the same `initialize_participant`,
`update_inbound_channel_policy` and `create_channel` from the other side: with ids,
buckets and slot numbers, and without balances, keys and collateral. Submitters
name buckets and may name the wrong ones. `RyvoCore` names a participant by its
owner and a lane by payer, payee and token; `OwnerIndexAgrees` and
`PairsNeverCollide` are why that loses nothing.

A script's action is one read with the decision it leads to, ending in a
transaction sent or in the next step. `Land` executes what was sent, `Refused`
ends the run when the program's guard does not hold, `Expire` loses a transaction,
`Kill` (in the drain `Lost`, in the rounds `GiveUp` and `Abort`) ends the process, or
its waiting, and leaves its transaction in flight. Nothing keeps the next run from
starting at once, and `LandLate` and `DropLate` (`Land` and `Expire` in the rounds)
decide at any later moment what becomes of the transaction: between any two steps of a
newer run, on top of what that sent, or after its report. So it is in the funding, the
setup, the drain, the demo run and the live rounds. The demo run needs no history for
it: it signs cumulative amounts, and the later one swallows the earlier. In the other
scripts a transaction of a killed process has landed when it is killed or never does
(see section 5).

What is abstracted: in `RyvoCore` accounts are found by participant and lane instead of by
address and offset (so the checks that an account is the right one are not in the
guards); a participant is its owner's key; messages are records there, and
bytes in `MessageReader`; events and return values are left out. Arithmetic is on
naturals with the checked operations as guards (`Fits`); `MaxU64` is a
parameter, and the instances use a small width so that the overflow checks are
reached. Lamports are left out throughout.

### Refinement

`RpcSender` implements `SendOnce` (`SendsOnce`): the abstract sender runs the
instructions at most once, answers eventually, and its answers "done" and
"failed" are final truths; "unknown" promises nothing, and the instructions may run
after it. The mapping counts the signatures that the cluster executed and reads
the answer off the step where the sender stopped. A legacy sender that reports
success maps to "unknown", because it does not look at the error that confirms.
The models of the demo build on the abstract sender: an answer of a live
submission is done, failed or unknown, never more (`LiveRounds`).

### Mutants

A definition named `...Mutant` stands before the definition it distorts and is a
plausible mistake in the code it models: an unlock that is not capped, a debit
that ignores the withdrawing part, a retry that signs again instead of sending the
same bytes. Nothing uses them. They document, for each property, a change of the code
that it detects; replacing the original by its mutant makes TLC report the
property named for it in `PROJECT.json`.

## 3. What is checked

An MC module with several scripts (`MCProgramSetup`, `MCColosseum`, `MCDemos`,
`MCWire`) chooses one of them in the initial state (`group`, `script`, `demo`,
`part`); the variables of the others rest. Within `MCProgramSetup`'s groups the
scripts run at the same time, because operators run them so; the money
scripts are run one at a time. A property of such a module is the conjunction of
its parts' properties, which are stated, with their reasons, in the part's module.

| Run | Instance | Shows |
|---|---|---|
| `lanes` (`MCLanes`) | one lane from its creation on, under every policy, supply 3, three cumulative commitments of two keys, one of them for a named settler, timelock 2, clock up to 4 | `NoticeInvariant` (with `PendingUnlockIsNoticed`), `ConservationInvariant` (with `EveryPaymentCountsOnce`), `LockedCollateralIsCollectable`, `PaymentsAreAuthorised`, `SignerChangesOnlyWithNotice`, `CoverageDropsOnlyByNoticeOrConsent`, `UnlockCompletes` |
| `settlement` (`MCSettlement`) | three participants, four lanes with a cycle, three commitments, two clearing rounds, bundles, `deposit_for` with two recipients | `TypeOK`, `EveryPaymentCountsOnce`, `SharedFundsDrainLast`, `PaymentsAreAuthorised` |
| `withdrawals` (`MCWithdrawals`) | two participants, two tokens, tables of one entry, destination may be the vault, fee above the amounts | `VaultBacksLiabilities`, `PendingWithdrawalIsPinned`, `WithdrawalCompletes` |
| `yield_lanes` (`MCYieldLanes`) | two participants, an open lane in wrapper shares with a signed payment, another depositor in the reserve, one period of interest that doubles its value | `YieldTypeOK`, `SharesAreAccounted`, `VaultBacksLiabilities` |
| `yield_rates` (`MCYieldRates`) | one participant, the fee recipient and another depositor, two periods of interest at rates that change | `ShortfallIsOneReserveShare`, `ReserveShareKeepsValue`, `AttributedYieldIsKept`, `RatesApplyForward` |
| `yield_solvency` (`MCYieldRates`) | the same | violates `ShareVaultCoversOwing`, see "Finding" |
| `directory` (`MCDirectory`) | six owners in two index buckets of three slots, four ids, participant buckets of three slots, channel buckets of two, two tokens | `DirectoryTypeOK`, `OwnerIndexAgrees`, `PairsNeverCollide`, `RegistrationIsOpen` |
| `program_setup` (`MCProgramSetup`) | deployment: three scripts that ask for two tokens under three ids, two steps by the authorities or kills, a registry of three entries; registration: four wallets of three scripts and a bystander, buckets of two; bootstrap: two processes, three kills, and an operator who runs `initialize-program.ts` | `WhatWasAskedIsThere`, `ScriptsActAsTheirOwners`, `OnlyTheLastNomineeTakesOver`, `SetupEnds` |
| `colosseum` (`MCColosseum`) | funding: four wallets that have 0, 1, 5 and 0 tokens, a deployer with too little, just enough or more, three faults; setup: two agents, a merchant who cashes, two faults; drain: one wallet in a withdrawal, one with a balance, both with collateral, commitments that drain them, two faults or top-ups | `NobodyIsOvercharged`, `ManifestIsHonoured`, `DrainLeavesNothing`, `ScriptsEnd` |
| `demos` (`MCDemos`) | demo: four wallets, three scenarios over five lanes, two faults, six runs; rounds: two scenarios of two candidates each that share lanes, three faults; yield: two runs of two users, the second beside what the first left | `PaidOnce`, `ReportsAreTrue`, `RedemptionsAreCovered`, `DemosEnd` |
| `rpc_sender` (`RpcSender`) | three senders, four attempts, three polls, a node that loses requests and answers, with and without preflight | `SendsOnce` (refinement of `SendOnce`, with its liveness) |
| `wire` (`MCWire`) | reader: integers of three bytes, what clients write, and every message of up to six stray bytes; capacity: packets of 300, 360, 480 and 1232 bytes, up to 18 participants, commitments of 28, 29 and 103 bytes; search: six wallets, four caps, every capacity of the cluster, one probe that throws | `MessagesAreReadRight`, `SearchesFindTheLargest` |

The properties, in words:

* `EveryPaymentCountsOnce`: what a participant holds free, withdrawing and locked
  is what it paid in, less what it took out, plus what lanes settled to it, less
  what its lanes settled. Stated per participant and token, so that a netting
  mistake cannot hide in a sum. `ConservationInvariant` adds what it rests on:
  missing entries are blank, vaults hold what was paid in and no more than the
  supply, and a payer with collateral has an entry.
* `VaultBacksLiabilities`: the vault covers all balances and collateral. It is an
  inequality because a withdrawal to the vault itself leaves the net amount
  there.
* `NoticeInvariant` and its part `PendingUnlockIsNoticed`,
  `CoverageDropsOnlyByNoticeOrConsent`: the payee's protection. Coverage is the
  settled amount plus collateral, what a payee can count on having; it drops only
  by consent or a full timelock after a request for that much, out of collateral
  that was there all the time.
* `LockedCollateralIsCollectable`: in every state, a commitment that is signed
  by the lane's key and covered can be settled by the payee at once. It is stated
  with `CanSettleIndividual`, the guard of the action, and so is `RegistrationIsOpen`
  with `CanInitializeParticipant`: what follows the guard are assignments.
* `SharedFundsDrainLast`: a settlement takes from the shared balance only when
  the lane's collateral is exhausted.
* `PaymentsAreAuthorised`, `SignerChangesOnlyWithNotice`: no amount moves
  without a signature of the lane's key (or the payer's in a round), and the key
  itself changes only with notice.
* `PendingWithdrawalIsPinned`: settlements may drain a pending withdrawal, after
  the available balance; nothing enlarges, redirects or re-times it.
* `WithdrawalCompletes`, `UnlockCompletes`: progress.
* `SharesAreAccounted`: the share counter that divides the yield is the sum of
  all shares, free, withdrawing and locked in lanes.
* `ShortfallIsOneReserveShare`: of the claims of users and protocol, rounding
  leaves at most the worth of one reserve share uncovered, after any sequence
  of calls.
* `ReserveShareKeepsValue`: no call lowers the worth of the reserve shares that
  remain.
* `AttributedYieldIsKept`: the index never falls, and the protocol's claim falls
  only when it is collected.
* `RatesApplyForward`: a rate change books the interest of the period before it
  at the old rate; the new one earns nothing for the past.
* `OwnerIndexAgrees`: owners, ids, slots and index entries correspond one to one.
* `PairsNeverCollide`: an occupied channel slot belongs to the pair that its
  address stands for.
* `RegistrationIsOpen`: only a full index bucket or the end of the ids keeps a
  new owner out; no slot it needs is ever taken.
* `WhatWasAskedIsThere`: a deployment script that ended has every token it asked
  for, under that id and mint; the fee accounts it wrote down exist; plain tokens
  have distinct mints; a bootstrap that ended finds everything the demo needs,
  whichever process created it.
* `ScriptsActAsTheirOwners`: a script that looks ids up ends with the ids of its
  own wallets, although others took the id it had predicted.
* `OnlyTheLastNomineeTakesOver`: a nominee who was replaced before accepting does
  not take over.
* `NobodyIsOvercharged`: kills, losses and repeated runs never pay a wallet
  beyond its target, nor deposit more of an agent's tokens than the target and
  what the agent has paid out, but for exactly what overtaken transactions moved.
* `ManifestIsHonoured`: once the channels manifest is written, every lane was
  given its collateral and the table lists every account.
* `DrainLeavesNothing`: once the drain reports, nothing of the agents is free or
  locked. A withdrawal is pending, or a token account open, only for a wallet whose
  request or creation by an ended run landed since the reporting run began.
* `PaidOnce`, `ReportsAreTrue`: no obligation is paid twice in a run, and what a run
  reports is what its lanes paid. Rounds of earlier runs may land on top; what a lane
  has paid beyond what is owed, or reported, is at most what they moved. The yield
  demo's users get everything out.
* `RedemptionsAreCovered`: the liquidity buffer that the yield demo fills once is
  enough for every redemption, also beside what abandoned users still own.
* `SendsOnce`: see "Refinement".
* `MessagesAreReadRight`: what a client writes is accepted and read as it was
  meant; the two readings of a round agree; no accepted integer was truncated,
  also in messages that no client would write.
* `SearchesFindTheLargest`: every search ends, with the largest round, cycle or
  bundle among those that fit; halving with carried bounds and breaking off rows
  lose nothing, and a probe that throws costs one number of participants.
* `SetupEnds`, `ScriptsEnd`, `DemosEnd`: scripts that are started again end,
  except where the property says they are stuck for good. These exceptions are
  part of the result; see "Where scripts get stuck".

### Finding

`yield_strategy.rs` states that the share vault is always worth what users and
the protocol are owed, checked after every handler. The check is made against
`last_settled_underlying`, to which a deposit adds the full amount, while the
reserve rounds down the shares it issues. `yield_solvency` shows it: another
depositor holds one reserve share, interest doubles it to two tokens, a
deposit of three tokens then receives one reserve share, worth two and a half,
and three are owed. The next call refreshes `last_settled_underlying`, and
every instruction of the wrapper fails with `SolvencyInvariantBroken` until
interest has made up for the difference. With realistic rates it is a
fraction of a cent and passes quickly unless the rate is zero;
`ShortfallIsOneReserveShare` is the bound that holds.

### Where scripts get stuck, and other divergences

Modelling the scripts met these places where the code does not do all that a
comment or a neighbouring piece of code says. Each is in the model; the
liveness properties name those that keep a script from ending.

* `yield_strategy.rs:64` says that `total_user_shares` is the sum of available
  and withdrawing shares. Shares locked in lanes are counted too
  (`lock_channel_funds.rs:44` leaves the counter alone), and have to be.
* `colosseum-channels-setup.ts:28` says that the script is safe to re-run because
  every step is gated by an on-chain read. The read at line 1007 does not see a
  deposit of a killed run that is still in flight; a run started before it lands or
  expires deposits again, and both land. A lock of a killed run that lands between the
  reads at 994 and 1007 is missed by both: the lane was read without it, the balance
  after it. `slack` bounds the excess in `NobodyIsOvercharged`.
* `colosseum-fund-wallets.ts:218`: likewise a transfer of a killed run that lands after
  the wallet was read again brings it above the target; and since the deployer has then
  paid more than the check of the total foresaw, funding can stop halfway for want of
  tokens (`TooPoor`, with `Overtaken`).
* `colosseum-drain-current.ts:750`: a request of a killed run that lands between the
  reads at 722 and 750 leaves nothing available, so the wallet is skipped at 756, and
  the report is written with its withdrawal pending. A creation of a token account
  (line 715) that lands after the sweep leaves an account open. Both are the exemptions
  of `DrainLeavesNothing`; each is reached in the instance.
* `ryvo-protocol-demo.ts:6174`: a round whose sender gave up may land in a later run.
  Scenarios owe different amounts (lines 1199-1228), so it need not be stale: a round
  of the second scenario can land on top of the first scenario's round of the new run,
  or a larger one between two reported rounds. The lane has then paid more than is owed
  so far, or than is reported, by what the stray round moved (`strayed`).
* `colosseum-basic-setup.ts:421` writes the id that it predicted into the manifest
  and does not read back the one that was given; with a concurrent registration in
  the same bucket these differ. `ScriptsActAsTheirOwners` leaves this script
  out. A run that is stopped after registering and before writing the manifest
  cannot be resumed: `Orphaned`.
* `colosseum-drain-current.ts:728` passes over a withdrawal that settlements
  drained to nothing, and cannot request another: `PassedOver`.
* `devnet-admin.cjs:319` takes the first registry entry with the id or the mint; a
  wrapper over the mint registered earlier hides the token: `Shadowed`.
* `yield-bearing-demo.ts:671` sends `initialize` and `initializeTokenRegistry`
  behind one look at the configuration; a process that ends between the two
  leaves a deployment that no run of the bootstrap (announced as idempotent at
  line 1046) repairs. `initialize-program.ts` does, which is why the instance has it.
* `yield-bearing-demo.ts:1342` sends a claim of a protocol cut that may be worth less
  than one reserve share, and is then refused: `ClaimIsDust`.
* `yield-bearing-demo.ts:14-15` promises the full principal; the withdrawal fee set
  at line 681 takes more than the interest of a short run.
* `ryvo-protocol-demo.ts:2612` does not look at the error of a confirmed
  transaction: a legacy transaction that landed and failed counts as done. Its
  callers look at the accounts again.
* `ryvo-protocol-demo.ts:3591` asks for the full amount for every wallet even
  when most are funded: `DeployerShort`.

### Bounds

`MaxTime` bounds the clock, and requests that start a timelock must fit below it
(`WithinHorizon`). The clock bounds leave room for a request, its replacement a
tick later, and the execution of the second. `Supply` bounds deposits, `Amounts`
the amounts owners name; two units are enough to split an amount between
collateral and shared balance, or between available and withdrawing balance,
and three to let an unlock, a settlement and a new lock overlap. Two cumulative
commitments on a lane are what replay and reordering need. `MaxTokenBalances`
is 1 in `MCWithdrawals` so that tables fill up (16 in the code). `MaxU64` is
7, twice what the supply can reach, so overflow checks never block an honest step; the
proofs hold for any value.

The wrapper's instances use amounts 1 and 3, a supply of 5 or 6, a 6-bit integer
width (so the index has 6 fractional bits instead of 64) and a rate that doubles
the reserve in one unit of time, the protocol's share being one half. So one reserve share
is soon worth several tokens, and every one of the conversions has inputs on
which it loses part of a share: with realistic numbers the same losses are one
unit in the last place. Without interest the rate is one and nothing rounds;
two periods let a shortfall arise and interest repair it.
`MCYieldLanes` has one period and no buffer in the reserve, so redemptions
also fail for want of liquidity. `MaxRecipients` is 0 in both: `deposit_for`
refuses the wrapper.

`MCDirectory` has four owners for the three slots of one index bucket and six for
four ids, so both run out. Buckets are small enough that a second participant
bucket and a third channel bucket begin. A collision involves two lanes, so two
lanes are open at most; the policy of one participant changes. Owners of one
index bucket are interchangeable, which the symmetry set says.

`MCSettlement` starts with lanes open and messages signed, and `MCWithdrawals`
with the lane open: states that the program reaches, from which the
interleavings of interest begin. Run specifications restrict steps that play no
part in their question (each `MC` module says which); every instruction fires in
one of the runs.

The scripts' instances have two of whatever a script loops over, so that a fault
strikes before, between and after, and as many faults as it takes to break off
one run, leave a transaction in flight, and disturb the next. In the drain one of the
two faults may be an operator's top-up between two runs. In the rounds three faults
give up a first submission, end the run with it in flight, and disturb the run that
it lands in. A third script in
deployment and registration is there because the three look things up
differently. Two tokens and three ids let a token's id and its mint be taken
separately. The demo pays one unit per lane and run, so a doubled payment and a
missing one are visible at once; its bundles hold one commitment (six in the
code), so that one run sends two. The yield demo uses 32 tokens per user, a
buffer of 16 and rates of one and two thirty-seconds a tick: enough for each
conversion to lose part of a share.

`MCWire` replaces base 128 and ten bytes by base 4 and three: an integer of
five bits, whose last byte has one usable bit as the last of ten has in 64 bits. The
stray bytes include a continuation, a terminator and a last chunk too
large; six bytes hold a block of two entries, and rounds of two blocks are among
those that clients write. The capacity
searches run at the real packet size with the real bucket sizes (9 participants,
46 pairs). There they find rounds of 14 participants and 180 channels without and of
16 and 224 with a lookup table, and bundles of six commitments of 28 or 29 bytes
and of four of 103; 18 participants are enough for a row beyond the best. The
largest cycle exceeds the bound of 18 there, so a packet of 480 bytes (cycles of up
to 9 participants without a table) and one of 360 (up to 10 with a table) show the
break-off of the cycle search, and one of 300 a search in which nothing fits.

### Fairness

`WithdrawalFairness` asks that time passes and that somebody submits
`execute_withdrawal_timelocked` when it is enabled; the instruction needs no
signature of the owner, so any crank can do it. It further takes that the
destination token account stays open. `UnlockFairness` asks the same of
`execute_unlock_channel_funds`, which the payer signs: the payer is the one who
wants it. A payer that re-requested for ever would postpone its own unlock for
ever; the horizon of the model ends that.

The scripts' fairness is weak fairness of their own steps, of starting again
after a stop, and of a sent transaction landing or being refused: a process
that is not killed goes on, the operator restarts it until it ends, and Solana
drops a transaction whose blockhash is too old. Nothing is asked of what ended runs
have sent, which may land, expire or stay in flight, nor of other actors:
merchants, bystanders, authorities and cranks may or may not act. Kills, losses and
handovers happen finitely often. The drain also needs time to pass. The
registration of a BLS key and the repair of a missing registry are fair by
themselves, because each is one operator's remaining step.

`CHECK_DEADLOCK FALSE` is set where scripts end: program setup, the Colosseum
scripts, the demos, the sender, and the searches.

## 4. What is proved

Theorems are about the specifications with every constant left open under the
assumptions stated in the modules: `Spec` of `RyvoCore` for any keys, lanes,
messages, supply, timelocks and integer width; `YieldSpec` of `RyvoYield` in
addition for any rates, protocol share and buffer; `DirectorySpec` for any owners,
hash, bucket sizes and last id; `SenderSpec` for any number of attempts and polls;
`SetupSpec` for any wallets, lists of tokens, processes, kills and handovers;
`DemosSpec` for any wallets, lanes, amounts and bundle size of the demo run, and for
any participants, clock, fees, integer width, interest and reserve under the two
scenarios of rounds and the two runs of the yield demo that `MCDemos` names;
`ColosseumSpec` for any roster of agents, amounts, targets, signed commitments and
numbers of faults of setup and drain, and for the four wallets to fund that
`MCColosseum` names with any balances and targets; `WireSpec` for any base and length
of integers, any client messages and stray bytes, any number of wallets, any caps,
whatever the cluster executes, any packets, bucket sizes and lengths of commitments.
Assumptions that a reader may want to know: participants and lanes are finitely
many (`FinitenessAssumption`; ids have 32 bits), the supply of a mint fits the
integer width (`SupplyAssumption`; a Solana mint's supply is a `u64`), and the
reserve's buffer is part of the mint's supply (`YieldAssumption`; the operators
transfer it there); `ensure-token` and `--ensure-usdc` ask for one token each
(`DeploymentAssumption`). The demo's lanes are those of its three scenarios, each in
one of them only (`DemoAssumption` of `DemoRun`), and the users of the yield demo's
runs are fresh keys, all distinct (that of `YieldDemo`). `MCDemos` extends
`RyvoYield`, so TLC evaluates the wrapper's assumptions there too. The Colosseum
manifest has at least one agent (the setup script makes 32 participants unless told
otherwise), and the lanes are those that the scripts open, from each agent to the
merchant (`ColosseumLanes` of `MCColosseum`). What clients write is typed as in the
scripts (`ClientAssumption` of `MessageReader`): ids of 32 bits, amounts of 64, and no
more entries and payees than a byte counts. A measured round has up to 256 participants
(`CapacityAssumption` of `RoundCapacity`; the searches stop at 32 and a round of fewer
than three throws).

### The core (`RyvoCoreProofs`)

* `TypeCorrectness`: `Spec => []TypeOK`. The type invariant is inductive: no
  balance, withdrawing amount, collateral or vault becomes negative, which is
  the content of the guards on every debit. `RyvoCoreProofs` has one lemma per
  helper (what it returns on a well-typed entry or lane) and one per action.
* `NoticeInvariance`: `Spec => []NoticeInvariant`. `PendingUnlockIsNoticed` is not
  inductive alone: a settlement caps the pending amount at the collateral left,
  which says something about the request only when the recorded least collateral
  is itself no more than what the lane holds (`UnlockHistoryIsHeld`); key
  rotation needs that a pending key agrees with its request
  (`PendingSignerIsNoticed`); and opening a lane may not bring an old request back
  (`ClosedLanesAreBlank`). Their conjunction is inductive together with `TypeOK`.
  The proof first classifies what a step can do to one lane (`Settles`, `Acts`,
  `Rests`), then treats each case.
* `PendingUnlockSafety`, `CoverageSafety`, `PaymentSafety`, `SignerSafety`: the
  invariant and the action properties of the same names in `RyvoSafety`.

### Conservation (second half of `RyvoCoreProofs`)

This part first proves the laws of the community modules' `SumFunctionOnSet` from its
definition: the sum over a set with one element more, over a disjoint union, of
two functions, of a function changed at one place, along a renaming, by
classes, and that a part is no more than the whole. The induction over
subsets is the library's theorem that proper inclusion is well-founded on finite
sets, applied to the set of counterexamples, which needs no operator parameter.

* `Conservation`: `Spec => []ConservationInvariant`, the inductive invariant, of
  which `EveryPaymentCountsOnce` is the first conjunct. It needs the others: an
  entry that is created on the way (`find_or_create`) must start from nothing
  (`MissingEntriesAreBlank`). The bounds on vaults (`VaultHoldsFunds`) and the
  payers' entries (`CollateralHasAnEntry`) are for the theorems below. Each action is brought to one form, `Flow`: a
  participant's entry changes by what was paid in or out, less the growth of the
  coverage of its outgoing lanes, plus the growth of the settled amounts of its
  incoming ones. The law then follows for single settlements, bundles and
  rounds at once; that a bundle and a round have the form is where the sums over
  payers and payees are exchanged.
* `PaymentConservation` and `VaultSolvency`: `EveryPaymentCountsOnce`, and its sum
  over all participants: what lanes pay and are paid cancels, so the liabilities
  are what was paid in.
* `CollateralIsCollectable`: every check of `settle_individual` passes for a covered
  commitment. The last of them are overflow checks, and it is conservation that
  discharges them: the payee's balance and the collateral are both in the vault,
  and so together within the supply. `CollateralHasAnEntry` gives the payer's entry.
* `CollateralDrainsFirst`, `WithdrawalsArePinned`: the action properties
  `SharedFundsDrainLast` and `PendingWithdrawalIsPinned`; the first uses that a
  negative net of a round needs a lane on which the payer pays more than its
  collateral.

### The directory (`RyvoDirectoryProofs`)

* `PairOrdinalIsInjective`, `PairsHaveTheirOwnSlots`: the pairing function gives
  different pairs different numbers, because the pairs with a higher id `h` take
  exactly `h` numbers before those with the next; so bucket and slot number
  determine the pair, for any number of slots.
* `DirectoryIsConsistent`, and from it `OwnerIndexSafety` and `PairSafety`:
  `DirectoryTypeOK`, `OwnerIndexAgrees` and `PairsNeverCollide` are inductive
  together: `insert_owner` looks at one bucket only, which is enough because all
  entries of an owner are in it; a new id is new because ids of slots are below
  the counter and entries lead to slots.
* `DirectoryTypes` and `RegistrationStaysOpen`: types, and that the slot of the next
  id is free, since a slot's address determines the id and all ids are below
  the counter.

### The sender (`RpcSenderProofs`)

`SendersSendOnce`: `SenderSpec` implements the safety part of `SendOnce`
(`OnceSafe`), by step simulation: every own step of a sender is an answer or a
stutter, every step of the cluster is a run or a stutter. The invariant says that
only the first signature was ever sent (a retry sends the same bytes, a new
blockhash is never taken while the old one may land), so there is one transaction
that can run, and what the sender has seen of it is true. That an answer comes is
liveness and stays with the run `rpc_sender`.

### The wrapper (`RyvoYieldProofs`)

* `WrapperInvariance`: the composed system keeps its books. The instructions of the
  wrapper are not steps of `RyvoCore`: they move plain tokens between an entry,
  the vault and the reserve, and make and burn shares. The proof gives every step
  of `YieldNext` one of three forms. It moves two entries of one participant and the
  strategy's counter by what was paid in or burnt (`Transfers`); it moves the
  reserve only (`Stands`); or it is a step of the core (`CoreSettles`), which makes no
  share. Each keeps `WrapperInvariant`: the core's invariants, the counter as
  what was paid in in shares, vaults of plain tokens that hold what was paid in,
  and no more tokens in the two vaults than the mint issued.
* `WrapperTypeCorrectness`, `SharesAccounted`, `WrapperSolvency`: `YieldTypeOK`,
  `SharesAreAccounted` and `VaultBacksLiabilities` for the composed system.
* `ReserveWorth`: a step accrues and then at most takes one deposit, pays two
  redemptions, or takes a new rate (`EveryReserveStep`, also for the other
  depositors); each keeps or raises underlying per share. Quotients are compared
  by cross multiplication (`Quotient`, `WorthTransitive`), so the result holds
  for every width and every amount, with no error term.
* `RatesForward`, `AttributedYield`: the action properties `RatesApplyForward` and
  `AttributedYieldIsKept`.
* `ShortfallBounded`: `YieldSpec => []ShortfallIsOneReserveShare`. The inductive
  invariant is `WorthInvariant`: a reserve share is worth at least one token
  (`AtPar`), `last_settled_underlying` is covered by the share vault and one share
  more (`Backed`), and what is owed is at most `last_settled_underlying`, which
  `require_solvent` checks. Losses do not add up because each handler first sets
  `last_settled_underlying` to the worth of the vault, which covers it exactly
  (`Covered`), and then loses at most one share. `AtPar` is needed for an
  opt-out: it loses less than one token, which is within one share only if a
  share is worth a token. With the finding above this is the whole answer to what
  the module comment of `yield_strategy.rs` says: not always covered, but never
  short of more than one reserve share.

### The setup scripts (`SetupProofs`)

A script's module says that the program refuses a transaction by `~ENABLED`.
TLAPS does not open ENABLED and need not: the disjunct in which a transaction is
refused leaves every account as it was, whatever disabled it.

The transactions of `RyvoAdmin` are treated first. Each leaves configuration and
registry of their types, appends to the list of tokens at most one whose id, and
if it is plain whose mint, is new (`RegistryGrows`), and passes an authority only
to the wallet that is pending (`AuthoritiesPass`); together this is `AdminStep`,
and the scripts are shown to take no other step.

* `SetupInvariance`: `SetupSpec => []SetupInvariant`. For a deployment script,
  `Through` relates its phase and position to the registry: what it read is still
  registered, the tokens before its position (up to it, while the fee account is
  made) are there as asked, and in its last phases all are, unless deploy
  found another authority and passed over them. Registered tokens stay, so
  this survives what the other scripts and the authorities do. For the bootstrap,
  `BootstrapProgress` relates the phase of every process to the accounts; that a
  token of the right id is the right token needs that bootstraps register
  nothing else. For registration, `HoldsItsOwn`: admin owns the ids up to its position
  in every phase, demo only once it registers keys, since what it recorded may be
  another's; `KeysAreOwned` carries the proof of possession to a later run that
  finds the key there.
* `AskedIsThere`, `OwnIdsAreUsed`, `Handovers`: the properties
  `WhatWasAskedIsThere`, `ScriptsActAsTheirOwners` and
  `OnlyTheLastNomineeTakesOver`.

### The demonstrations (`DemoProofs`)

One demonstration runs while the variables of the others rest, so each has an
invariant of its own; `DemosInvariance` puts the three together.

* Live rounds, `RoundsInvariant`. The safety of the payments rests on candidates of a
  scenario having a lane in common: once one of its rounds has landed, the others ask
  for an amount that is settled already and are refused (`Dead`). So either none of the
  run's rounds of the scenario has landed, or exactly one has and its lanes stand one
  obligation higher (`OneRoundLands`); what the run has in flight is such a round or
  dead (`FlightsAreKnown`); and the cache holds at least what was reported
  (`CacheIsLedger`). Rounds of earlier runs, the strays, land anywhere in between. They
  only lift lanes: a dead round stays dead, and a lane stands above the cache and above
  the report by no more than what strays moved (`Between`, with the cache as floor and
  the report and `strayed` as `Ceiling`). The cache itself may have taken up what a
  stray did, when a round is refreshed, so it is bounded from below only.
* Demo run, `DemoInvariant`. A run signs for what it read plus what is due, so paying
  twice needs a transaction that asks for more than the run's own target. Everything
  in flight, of this run or of earlier ones, asks for no more than the target
  (`AmountsAreBounded`), and before a lane's turn in the plan neither the lane nor
  anything in flight is beyond what earlier runs could pay (`NotPaidYet`). After its
  turn the lane is at its target (`PaidInOrder`), since the process goes on only when
  its transaction has landed (`SentByStep`). The plan is a sequence whose length depends
  on the number of wallets and buyers; that it reads every lane before it pays it,
  and pays it in one place, is proved once (`PlanOrder`).
* Yield demo, `YieldInvariant`. At every step of the plan all balances of the run's two
  users but one or two are zero (`FirstUserAt`, `SecondUserAt`), users of later runs
  have nothing yet (`LaterUsers`), and the transaction that is waited for asks for
  what the chain still holds (`AwaitedIsCurrent`), since only the process and the clock
  act. So a withdrawal asks for all shares, and the way back for all plain tokens
  that came out, whatever the conversions give. That amounts, entries and the reserve
  stay numbers is carried along (`Numbers`, `Entries`) with the lemmas of
  `RyvoYieldProofs`.
* `PaymentsHappenOnce`, `ReportsHold`: the properties `PaidOnce` and `ReportsAreTrue`.

### The Colosseum scripts (`ColosseumProofs`)

A script decides on what it reads, and between the reading and the landing of its
transaction the merchant cashes commitments and anybody executes due withdrawals. The
invariants say what of the reading is still true then. Cashing a commitment, singly or
in a round, is treated once: nothing an agent holds grows by it, and what leaves
collateral, free funds and withdrawals is what was settled (`CashEffect`).
TLC checks `ColosseumInvariant` and `OverchargeInvariant` on the instance of the run
`colosseum` as well.

* Setup, `SetupInvariant`: where the process is (`SetupPosition`), what it waits for
  (`SetupWaits`) and what it has reached for the agents before (`SetupReached`). What it
  has reached is never lost, because every step, also of a run broken off earlier,
  keeps keys and open lanes and never lessens collateral and settled amount together
  (`Kept`). A lock brings the agent to its target when it lands, since the amount was
  missing when it was read and the two together never fall.
* Setup, `DepositInvariant`: what an agent paid in is what it has free, locked and paid
  out, and nothing is leaving; what is free and locked stays within the target and the
  agent's `slack` (`Booked`), and so does a deposit on its way when it lands (`Within`).
  The script deposits what is missing to the collateral it read (`seen`) and the funds
  it reads anew; cashing only lowers both, so the sum on the chain is no more than what
  was read, but for what overtaken transactions moved since. Those are no hypothesis:
  one transaction at most was decided on the present state (`OneInFlight`), the one that
  the process waits for or that the last process left behind (`Fresh`); every other one
  is overtaken and raises `slack` by what it deposits or locks (`MovedBehindItsBack`).
* Funding, `FundInvariant`: what is on its way brings its wallet to the target at most,
  and to that with what overtaken transfers brought (`Fills`), by the same argument.
* Drain, `DrainInvariant`: an unlock or a withdrawal that the process waits for takes at
  least what is left (`DrainWaits`), and what was drained stays drained
  (`DrainReached`), because nothing of an agent grows while the drain runs (`Lessened`)
  except by unlocks, which come before the agent's withdrawal. A late unlock of an
  earlier run cannot free anything later: once the run has passed the unlocks the lanes
  are empty, and before that the freed amount is withdrawn with the rest. A late request
  or creation marks its wallet as `crossed`, and the invariant asks nothing more of that
  wallet's pending withdrawal or token account (`Left`, `Shut`). So the report is true
  at the moment it is written and stays true (`DrainReport`).
* `ManifestHonoured`, `DrainedClean`, `NobodyOvercharged`: the properties
  `ManifestIsHonoured`, `DrainLeavesNothing` and `NobodyIsOvercharged`, none of them under
  a hypothesis on what the operator does.

### Messages and searches (`WireProofs`)

Readers, messages and searches are loops over data. The library's induction theorems take
an operator, so induction is stated here as two facts about sets: a set with 0 that has
`n + 1` for every `n` in it has all naturals (`Induction`), and a set that has a set
whenever it has all proper subsets of it has all finite sets (`SubsetsInduction`). With them the recursive functions behind `FlattenSeq`, `MapThenSumSet`,
`EntryStart` and `Power` are shown to exist and to do on one element more what their
definitions say.

* `MessagesReadRight`: `WireSpec => []MessagesAreReadRight`.
  * Any bytes: the first reading has read what the second sees of the entries so far,
    and stands where the next entry begins (`RoundInvariant`), so an accepted round is
    settled as it was parsed. An integer that the reader accepts has chunks that fit the
    word (`NothingIsLost`): the bound on the last chunk is what keeps the shift from
    dropping bits.
  * What a client wrote: the parts of a message are found where they were written
    (`Holds`, `HoldsParts`), the digits of an integer sum up to it (`DigitsSum`,
    `IntegerIsRead`), and at every point of a written round there is a step that is not
    a refusal (`RoundGoesOn`). `WrittenInvariant` says that the blocks and entries read
    are the first ones of what was meant.
* `SearchesAreRight`: a halving keeps what it found just below its lower bound and
  nothing that is executed above its upper one (`Halving`). For rings this is enough
  (`RingsInvariant`). The search for channels goes down the numbers of participants
  and carries bounds from one to the next; `ChannelsInvariant` says that the
  numbers tried or skipped have nothing better than the best so far, except one for
  each probe that threw (`ChannelsProgress`).
* `RingsComeFirst`: the channels of the rings stand first in the order in which
  `buildBoundedDenseGraphPairs` goes through its pairs (`RingOrderIs`), and none of them
  twice (`RingOrderIsInjective`), so the fold opens them in that order until there is no
  room (`FirstsStay`). The ring of `n` wallets closes with the channel at `2n - 3`.
* `CapacitiesAreRight`: the capacity searches break off at the first shape that does not
  fit, so what has to be shown is that a transaction with more channels (`Sweep`), or
  of a longer cycle or bundle (`Grow`), is never smaller. Messages and length prefixes
  grow (`PrefixesGrow`, `TransactionsGrow`), and so do the buckets of a row, because the
  pairs of a shorter round are among those of a longer one. A longer cycle is different:
  it loses the pair that closed the shorter one. `LongerCycles` maps the buckets of the
  shorter cycle one to one into those of the longer, the closing pair's to one that the
  longer path adds when it has a bucket of its own. That the pairs of a synthetic round
  are all different (`MeasuredRoundsAreRounds`) is arithmetic modulo the number of
  participants.

### Model-checked only

* Liveness under fairness: `WithdrawalCompletes`, `UnlockCompletes`, `SetupEnds`,
  `ScriptsEnd`, `DemosEnd`, and the liveness part of `SendsOnce` and of
  `SearchesFindTheLargest`, whose other parts are `SearchesAreRight`,
  `CapacitiesAreRight` and `RingsComeFirst`. TLAPS does not prove ENABLED, which
  fairness is made of.
* `RedemptionsAreCovered`: whether the buffer is enough depends on how long a run
  takes and on the amounts, so it holds for instances and not for every value.

## 5. What is not modelled

* Account layouts: byte offsets, discriminators and the checks that an account is
  the expected PDA; accounts are addressed by what they hold, or by bucket number.
  `channel-bucket-state.ts`, `yield.ts` and `protocol-bls.ts` read the same layouts
  and decide nothing.
* Lamports: the registration fee, rent, and the top-ups of the scripts. So
  `CanInitializeParticipant` does not say that `create_account` fails for a bucket whose
  address somebody has sent lamports to before it exists.
* Signature schemes: Ed25519 and BLS checks are membership in `signed`.
* Fee rates and timelocks as something that `update_config` changes: constants.
* Tokens sent into a vault outside the program, and a fee recipient whose token
  account is the vault: both leave more in the vault than modelled.
* Several wrappers at a time, reserve shares sent into the share vault from
  outside (they only add to its worth), and the authority that alone may set the
  reserve's rate: anyone may in the model.
* Events, compute limits, and the wording of errors.
* `export-benchmarks.ts`, `lib/benchmark-artifacts.ts` and
  `colosseum-bundle-for-demo.ts`, which reformat recorded results; wallet files,
  argument parsing, previews and shell wrappers.
* In the scripts: the drain of yield-bearing tokens, `--skip` options of the
  setup, `set-inbound-policy` of `devnet-admin.cjs` (one call without a check),
  and the lookup tables of the demo's searches.
* Late transactions of killed processes in the deployment, registration and bootstrap
  scripts and in the yield demo. In the first three a new run finds what had landed by
  the kill; that something lands in the middle of it is checked only where another
  process sends it (the bootstrap has two). In the yield demo every run has users of its own, so what the users of a killed run had sent
  lands at the kill or not at all; the claim of the fee recipient is the only transaction
  that two runs share, and one that landed late would make the next run's claim fail.
* The tests, and the earlier formal artefacts under `src/formal_verification`.

## 6. Plan

Done: the program's modules and the scripts' modules with their runs; proofs of
every safety property of the program and of its scripts that a run checks, except the
buffer of the yield demo. That buffer and liveness stay with TLC.
