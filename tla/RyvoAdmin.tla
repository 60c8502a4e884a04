----------------------------- MODULE RyvoAdmin -----------------------------
(***************************************************************************)
(* The program's global configuration and token registry: two accounts     *)
(* that are created once, each with an authority that it hands over in two *)
(* steps, and the tokens that are registered for good.                     *)
(*                                                                         *)
(* Fee rates and timelocks are constants of RyvoCore; here the wallets and *)
(* the tokens matter.  An action stands for a transaction that lands; its  *)
(* first parameter is the wallet that signed it.                           *)
(***************************************************************************)
EXTENDS Integers, Sequences, Functions

CONSTANTS
  Wallets,          \* public keys
  NoWallet,         \* Pubkey::default()
  UpgradeAuthority, \* of the program's code
  Mints,
  TokenIds,
  MaxTokens         \* MAX_TOKENS, room in the registry account

ASSUME AdminAssumption ==
  /\ UpgradeAuthority \in Wallets /\ NoWallet \notin Wallets
  /\ TokenIds \subseteq Nat \ {0} /\ MaxTokens \in Nat

VARIABLES
  config,  \* GlobalConfig
  registry \* TokenRegistry

adminVars == <<config, registry>>

AdminInit ==
  /\ config = [present |-> FALSE, authority |-> NoWallet,
               pending_authority |-> NoWallet, fee_recipient |-> NoWallet]
  /\ registry = [present |-> FALSE, authority |-> NoWallet,
                 pending_authority |-> NoWallet, tokens |-> <<>>]

-----------------------------------------------------------------------------
(***************************************************************************)
(* GlobalConfig.                                                           *)
(***************************************************************************)
\* A nominee other than the upgrade authority still has to accept.
Initialize(w, nominee, recipient) ==
  /\ ~config.present
  /\ w = UpgradeAuthority
  /\ config' = [present |-> TRUE, authority |-> w,
                pending_authority |-> IF nominee = w THEN NoWallet ELSE nominee,
                fee_recipient |-> recipient]
  /\ UNCHANGED registry

NominateConfigAuthority(w, nominee) ==
  /\ config.present /\ w = config.authority
  /\ config' = [config EXCEPT !.pending_authority = nominee]
  /\ UNCHANGED registry

UpdateFeeRecipient(w, recipient) ==
  /\ config.present /\ w = config.authority
  /\ config' = [config EXCEPT !.fee_recipient = recipient]
  /\ UNCHANGED registry

MayAcceptMutant(account, w) == account.pending_authority # NoWallet
MayAccept(account, w) ==
  account.pending_authority # NoWallet /\ account.pending_authority = w

AcceptConfigAuthority(w) ==
  /\ config.present /\ MayAccept(config, w)
  /\ config' = [config EXCEPT !.authority = w, !.pending_authority = NoWallet]
  /\ UNCHANGED registry

-----------------------------------------------------------------------------
(***************************************************************************)
(* TokenRegistry.                                                          *)
(***************************************************************************)
InitializeTokenRegistry(w) ==
  /\ ~registry.present
  /\ config.present /\ w = config.authority
  /\ registry' = [registry EXCEPT !.present = TRUE, !.authority = w]
  /\ UNCHANGED config

IsTokenRegistered(id) == \E e \in Range(registry.tokens) : e.id = id
IsMintRegistered(mint) == \E e \in Range(registry.tokens) : e.mint = mint

CanRegister(w, id) ==
  /\ registry.present /\ w = registry.authority
  /\ ~IsTokenRegistered(id)
  /\ Len(registry.tokens) < MaxTokens

PushToken(entry) ==
  /\ registry' = [registry EXCEPT !.tokens = Append(@, entry)]
  /\ UNCHANGED config

RegisterToken(w, id, mint) ==
  /\ CanRegister(w, id)
  /\ ~IsMintRegistered(mint)
  /\ PushToken([id |-> id, mint |-> mint, kind |-> "plain"])

\* A wrapper names the mint it wraps, which may be a token of its own as well.
RegisterYieldBearingToken(w, id, mint) ==
  /\ CanRegister(w, id)
  /\ PushToken([id |-> id, mint |-> mint, kind |-> "yield"])

UpdateRegistryAuthority(w, nominee) ==
  /\ registry.present /\ w = registry.authority
  /\ registry' = [registry EXCEPT !.pending_authority = nominee]
  /\ UNCHANGED config

AcceptRegistryAuthority(w) ==
  /\ registry.present /\ MayAccept(registry, w)
  /\ registry' = [registry EXCEPT !.authority = w, !.pending_authority = NoWallet]
  /\ UNCHANGED config
=============================================================================
