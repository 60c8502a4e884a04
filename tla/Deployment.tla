----------------------------- MODULE Deployment -----------------------------
(***************************************************************************)
(* The scripts that set the program up, over its configuration and token   *)
(* registry:                                                               *)
(*                                                                         *)
(*   deploy  initialize-program.ts                                         *)
(*   admin   devnet-admin.cjs ensure-token                                 *)
(*   setup   colosseum-basic-setup.ts --ensure-usdc                        *)
(*                                                                         *)
(* Each reads an account and acts on what it read in later transactions,   *)
(* while the authorities hand their roles over and the other scripts       *)
(* register tokens.  A script that a transaction or a check stops is run   *)
(* again from the beginning.                                               *)
(*                                                                         *)
(* deploy's check of the message domain is left out: the domain is derived *)
(* from the same network on both sides.                                    *)
(***************************************************************************)
EXTENDS RyvoAdmin

CONSTANTS
  Deployer,    \* the wallet that signs for the scripts
  Nominee,     \* --initial-authority
  Recipient,   \* --fee-recipient
  Wanted,      \* the tokens that each script asks for, in order: [id, mint];
               \* admin and setup ask for one
  MaxHandovers \* bound on what the authorities do by hand, and on kills

Scripts == {"deploy", "admin", "setup"}

ASSUME DeploymentAssumption ==
  /\ {Deployer, Nominee, Recipient} \subseteq Wallets
  /\ Wanted \in [Scripts -> Seq([id : TokenIds, mint : Mints])]
  /\ \A s \in Scripts \ {"deploy"} : Len(Wanted[s]) = 1
  /\ MaxHandovers \in Nat

VARIABLES
  phase,       \* of each script
  at,          \* position in its list of tokens
  asAuthority, \* currentAuthority is the deployer, as deploy read it
  known,       \* the tokens of the registry, as each script read them
  recipient,   \* config.fee_recipient, as each script read it
  feeAccounts, \* fee token accounts that exist: <<mint, wallet>>
  written,     \* what each script wrote at its end: tokens and fee recipient
  skipped,     \* deploy passed over the steps of the authority
  handovers

scriptVars == <<phase, at, asAuthority, known, recipient, feeAccounts, written,
                skipped>>
deploymentVars == <<adminVars, scriptVars, handovers>>

First(s) == IF s = "deploy" THEN "config" ELSE "read"

DeploymentInit ==
  /\ AdminInit
  /\ phase = [s \in Scripts |-> First(s)]
  /\ at = [s \in Scripts |-> 1]
  /\ asAuthority = FALSE
  /\ known = [s \in Scripts |-> <<>>]
  /\ recipient = [s \in Scripts |-> NoWallet]
  /\ feeAccounts = {}
  /\ written = [s \in Scripts |-> {}]
  /\ skipped = FALSE
  /\ handovers = 0

-----------------------------------------------------------------------------
At(s, name) == phase[s] = name
GoTo(s, name) == phase' = [phase EXCEPT ![s] = name]
Token(s) == Wanted[s][at[s]]
kept == <<asAuthority, known, recipient, feeAccounts, written, skipped>>

\* What the process held is gone.
Ends(s, name) ==
  /\ GoTo(s, name)
  /\ at' = [at EXCEPT ![s] = 1]
  /\ known' = [known EXCEPT ![s] = <<>>]
  /\ recipient' = [recipient EXCEPT ![s] = NoWallet]
  /\ asAuthority' = IF s = "deploy" THEN FALSE ELSE asAuthority
Stop(s) == Ends(s, First(s)) /\ UNCHANGED <<feeAccounts, written, skipped>>

\* A transaction, and where the script goes when it lands.
Submit(s, tx, following) ==
  \/ tx /\ GoTo(s, following) /\ UNCHANGED <<at, kept>>
  \/ ~ENABLED tx /\ Stop(s) /\ UNCHANGED adminVars

EnsureConfig ==
  /\ At("deploy", "config")
  /\ IF config.present
     THEN /\ asAuthority' = (config.authority = Deployer)
          /\ recipient' = [recipient EXCEPT !["deploy"] = config.fee_recipient]
          /\ GoTo("deploy", "registry")
          /\ UNCHANGED <<adminVars, at, known, feeAccounts, written, skipped>>
     ELSE Submit("deploy", Initialize(Deployer, Nominee, Recipient), "config")

NeedsRegistryMutant == asAuthority
NeedsRegistry == asAuthority /\ ~registry.present
EnsureTokenRegistry ==
  \/ /\ At("deploy", "registry")
     /\ GoTo("deploy", IF NeedsRegistry THEN "create" ELSE "recipient")
     /\ UNCHANGED <<adminVars, at, kept>>
  \/ /\ At("deploy", "create")
     /\ Submit("deploy", InitializeTokenRegistry(Deployer), "recipient")

EnsureFeeRecipient ==
  \/ /\ At("deploy", "recipient")
     /\ asAuthority /\ recipient["deploy"] # Recipient
     /\ Submit("deploy", UpdateFeeRecipient(Deployer, Recipient), "reread")
  \/ /\ \/ At("deploy", "reread")
        \/ At("deploy", "recipient") /\ (~asAuthority \/ recipient["deploy"] = Recipient)
     /\ recipient' = IF At("deploy", "reread")
                     THEN [recipient EXCEPT !["deploy"] = config.fee_recipient]
                     ELSE recipient
     /\ skipped' = ~asAuthority
     /\ GoTo("deploy", IF asAuthority /\ Wanted["deploy"] # <<>> THEN "read" ELSE "settle")
     /\ UNCHANGED <<adminVars, at, asAuthority, known, feeAccounts, written>>

\* The registry is read once, before the first token is looked up.
ReadRegistry(s) ==
  /\ At(s, "read")
  /\ IF registry.present
     THEN /\ known' = [known EXCEPT ![s] = registry.tokens]
          /\ GoTo(s, "token")
          /\ UNCHANGED <<at, asAuthority, recipient, feeAccounts, written, skipped>>
     ELSE Stop(s)
  /\ UNCHANGED adminVars

\* admin looks for the id or the mint, the others for the id.
Matches(s) ==
  {i \in DOMAIN known[s] : \/ known[s][i].id = Token(s).id
                           \/ s = "admin" /\ known[s][i].mint = Token(s).mint}
Existing(s) == known[s][CHOOSE i \in Matches(s) : \A j \in Matches(s) : i <= j]
IsAsked(entry, token) == entry.id = token.id /\ entry.mint = token.mint

\* deploy makes the fee account of each token, the others go on to their end.
Following(s) == IF s = "deploy" THEN "account" ELSE "settle"

AcceptsExistingMutant(s) == Existing(s).id = Token(s).id
AcceptsExisting(s) == IsAsked(Existing(s), Token(s))

EnsureToken(s) ==
  /\ At(s, "token")
  /\ \/ /\ Matches(s) = {}
        /\ Submit(s, RegisterToken(Deployer, Token(s).id, Token(s).mint), Following(s))
     \/ /\ Matches(s) # {}
        /\ UNCHANGED adminVars
        /\ IF AcceptsExisting(s)
           THEN GoTo(s, Following(s)) /\ UNCHANGED <<at, kept>>
           ELSE Stop(s)

EnsureFeeAccount ==
  /\ At("deploy", "account")
  /\ feeAccounts' = feeAccounts \cup {<<Token("deploy").mint, recipient["deploy"]>>}
  /\ IF at["deploy"] < Len(Wanted["deploy"])
     THEN at' = [at EXCEPT !["deploy"] = @ + 1] /\ GoTo("deploy", "token")
     ELSE at' = at /\ GoTo("deploy", "settle")
  /\ UNCHANGED <<adminVars, asAuthority, known, recipient, written, skipped>>

\* At the end deploy and admin read the configuration again, see that every
\* registered token has a fee account, and write the tokens down.
ReadConfig(s) ==
  /\ At(s, "settle")
  /\ IF s = "setup"
     THEN Ends(s, "done") /\ UNCHANGED <<feeAccounts, written, skipped>>
     ELSE /\ recipient' = [recipient EXCEPT ![s] = config.fee_recipient]
          /\ GoTo(s, "write")
          /\ UNCHANGED <<at, asAuthority, known, feeAccounts, written, skipped>>
  /\ UNCHANGED adminVars

AccountsFor(s) == {<<e.mint, recipient[s]>> : e \in Range(registry.tokens)}
WriteConfig(s) ==
  /\ At(s, "write")
  /\ feeAccounts' = feeAccounts \cup AccountsFor(s)
  /\ written' = [written EXCEPT ![s] = AccountsFor(s)]
  /\ Ends(s, "done")
  /\ UNCHANGED <<adminVars, skipped>>

finished == {s \in Scripts : At(s, "done")}

ScriptStep(s) ==
  \/ ReadRegistry(s) \/ EnsureToken(s) \/ ReadConfig(s) \/ WriteConfig(s)
DeployStep ==
  EnsureConfig \/ EnsureTokenRegistry \/ EnsureFeeRecipient \/ EnsureFeeAccount
Step(s) ==
  /\ ScriptStep(s) \/ (s = "deploy" /\ DeployStep)
  /\ UNCHANGED handovers

\* What the authorities do by hand.
Govern ==
  \/ \E w \in Wallets :
       \/ \E v \in Wallets : NominateConfigAuthority(w, v) \/ UpdateRegistryAuthority(w, v)
       \/ \E v \in Wallets : UpdateFeeRecipient(w, v)
       \/ AcceptConfigAuthority(w) \/ AcceptRegistryAuthority(w)
       \/ \E id \in TokenIds, mint \in Mints : RegisterYieldBearingToken(w, id, mint)
       \/ InitializeTokenRegistry(w)

Handover ==
  /\ handovers < MaxHandovers
  /\ handovers' = handovers + 1
  /\ \/ Govern /\ UNCHANGED scriptVars
     \/ \E s \in Scripts \ finished :
          ~At(s, First(s)) /\ Stop(s) /\ UNCHANGED adminVars

DeploymentNext ==
  \/ \E s \in Scripts : Step(s)
  \/ Handover

-----------------------------------------------------------------------------
(***************************************************************************)
(* Properties.                                                             *)
(***************************************************************************)
\* A script that ended well has every token it asked for under the id and mint
\* it asked for, whichever script registered it, unless deploy was not the
\* authority (ensureAllowlistedTokens, ensureToken, ensurePlainTokenRegistered).
WhatWasAskedIsRegistered ==
  \A s \in finished :
    \/ s = "deploy" /\ skipped
    \/ \A i \in DOMAIN Wanted[s] :
         \E e \in Range(registry.tokens) : IsAsked(e, Wanted[s][i])

\* The fee token accounts that a written configuration names exist, although
\* the fee recipient may have changed while the script ran (lines 390-427).
WrittenAccountsExist == \A s \in Scripts : written[s] \subseteq feeAccounts

\* Plain tokens have mints of their own, whatever the order of registrations by
\* three scripts: each has a vault, and no mint has two (register_token).
PlainMintsAreDistinct ==
  \A i, j \in DOMAIN registry.tokens :
    /\ registry.tokens[i].kind = "plain" /\ registry.tokens[j].kind = "plain"
    /\ registry.tokens[i].mint = registry.tokens[j].mint
    => i = j

\* The authority of an account passes only to the wallet it names as pending:
\* a nominee who was replaced before accepting can no longer take over.
OnlyTheLastNomineeTakesOver ==
  [][/\ config.present /\ config'.authority # config.authority
        => config'.authority = config.pending_authority
     /\ registry.present /\ registry'.authority # registry.authority
        => registry'.authority = registry.pending_authority]_deploymentVars

\* A script is blocked for good when there is no registry, the id or mint it asks
\* for is another token's, the deployer is not the registry's authority, or, for
\* admin, a wrapper over the mint of its token was registered before that token
\* and hides it from find (devnet-admin.cjs 319).
Lacks(s) == {i \in DOMAIN Wanted[s] :
               ~\E e \in Range(registry.tokens) : IsAsked(e, Wanted[s][i])}
Shadowed(token) ==
  \E i, j \in DOMAIN registry.tokens :
    /\ i < j /\ IsAsked(registry.tokens[j], token)
    /\ registry.tokens[i].mint = token.mint

Blocked(s) ==
  \/ s # "deploy" /\ ~registry.present
  \/ s = "admin" /\ \E i \in DOMAIN Wanted[s] : Shadowed(Wanted[s][i])
  \/ /\ registry.present /\ Lacks(s) # {}
     /\ \/ registry.authority # Deployer
        \/ \E i \in Lacks(s) : \/ IsTokenRegistered(Wanted[s][i].id)
                               \/ IsMintRegistered(Wanted[s][i].mint)
        \/ Len(registry.tokens) + 1 > MaxTokens
=============================================================================
