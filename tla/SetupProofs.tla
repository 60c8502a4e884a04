----------------------------- MODULE SetupProofs -----------------------------
(***************************************************************************)
(* The setup scripts, proved for any wallets, lists of tokens, processes   *)
(* and bounds: what a script that ended asked for is there, scripts act    *)
(* under the ids of their own wallets, and authorities pass on as they     *)
(* were named.                                                             *)
(*                                                                         *)
(* A transaction that the program refuses is the negation of ENABLED.      *)
(* What enables it is never opened: a refusal changes no account, and this *)
(* is all that the proofs use of it.                                       *)
(***************************************************************************)
EXTENDS MCProgramSetup, SequenceTheorems, WellFoundedInduction, TLAPS

-----------------------------------------------------------------------------
(***************************************************************************)
(* The configuration and the token registry.                               *)
(***************************************************************************)
WalletOrNone == Wallets \cup {NoWallet}
Entry == [id : TokenIds, mint : Mints, kind : {"plain", "yield"}]

AdminTypeOK ==
  /\ config \in [present : BOOLEAN, authority : WalletOrNone,
                 pending_authority : WalletOrNone, fee_recipient : WalletOrNone]
  /\ registry \in [present : BOOLEAN, authority : WalletOrNone,
                   pending_authority : WalletOrNone, tokens : Seq(Entry)]

\* What the transactions may do to the list of tokens: nothing, or append one
\* of an id, and if it is plain of a mint, that no other token has.
Pushed(e) ==
  /\ e \in Entry
  /\ registry.tokens' = Append(registry.tokens, e)
  /\ \A i \in DOMAIN registry.tokens : registry.tokens[i].id # e.id
  /\ e.kind = "plain" => \A i \in DOMAIN registry.tokens : registry.tokens[i].mint # e.mint
RegistryGrows == registry.tokens' = registry.tokens \/ \E e \in Entry : Pushed(e)

\* Who the authorities are after a transaction.
AuthoritiesPass ==
  /\ config.present =>
       config'.authority \in {config.authority, config.pending_authority}
  /\ registry.present =>
       registry'.authority \in {registry.authority, registry.pending_authority}

AdminStep == AdminTypeOK' /\ RegistryGrows /\ AuthoritiesPass

LEMMA AdminStutters ==
  ASSUME AdminTypeOK, UNCHANGED adminVars
  PROVE  AdminStep
BY DEF AdminTypeOK, adminVars, AdminStep, RegistryGrows, AuthoritiesPass

LEMMA TokenPushed ==
  ASSUME AdminTypeOK, NEW w \in Wallets, NEW e \in Entry,
         CanRegister(w, e.id), e.kind = "plain" => ~IsMintRegistered(e.mint),
         PushToken(e)
  PROVE  AdminStep
<1>1. registry.tokens \in Seq(Entry)
  BY DEF AdminTypeOK
<1>2. /\ registry'.tokens = Append(registry.tokens, e)
      /\ registry' = [registry EXCEPT !.tokens = Append(registry.tokens, e)]
      /\ config' = config
  BY DEF AdminTypeOK, PushToken
<1>3. Append(registry.tokens, e) \in Seq(Entry)
  BY <1>1
<1>4. AdminTypeOK'
  BY <1>2, <1>3 DEF AdminTypeOK
<1>5. Pushed(e)
  BY <1>1, <1>2 DEF Pushed, CanRegister, IsTokenRegistered, IsMintRegistered, Range
<1>6. AuthoritiesPass
  BY <1>2 DEF AuthoritiesPass, AdminTypeOK
<1>. QED BY <1>4, <1>5, <1>6 DEF AdminStep, RegistryGrows

LEMMA PlainTokenRegistered ==
  ASSUME AdminTypeOK, NEW w \in Wallets, NEW id \in TokenIds, NEW mint \in Mints,
         RegisterToken(w, id, mint)
  PROVE  AdminStep
<1>. DEFINE e == [id |-> id, mint |-> mint, kind |-> "plain"]
<1>. e \in Entry /\ e.id = id /\ e.mint = mint
  BY DEF Entry
<1>. QED BY TokenPushed DEF RegisterToken

LEMMA WrapperRegistered ==
  ASSUME AdminTypeOK, NEW w \in Wallets, NEW id \in TokenIds, NEW mint \in Mints,
         RegisterYieldBearingToken(w, id, mint)
  PROVE  AdminStep
<1>. DEFINE e == [id |-> id, mint |-> mint, kind |-> "yield"]
<1>. e \in Entry /\ e.id = id /\ e.kind = "yield"
  BY DEF Entry
<1>. QED BY TokenPushed DEF RegisterYieldBearingToken

LEMMA ConfigChanges ==
  ASSUME AdminTypeOK, NEW w \in Wallets, NEW v \in Wallets, NEW r \in Wallets,
         \/ Initialize(w, v, r)
         \/ NominateConfigAuthority(w, v)
         \/ UpdateFeeRecipient(w, v)
         \/ AcceptConfigAuthority(w)
  PROVE  AdminStep
<1>1. registry' = registry
  BY DEF Initialize, NominateConfigAuthority, UpdateFeeRecipient, AcceptConfigAuthority
<1>2. CASE Initialize(w, v, r)
  BY <1>1, <1>2 DEF Initialize, AdminTypeOK, WalletOrNone, AdminStep, RegistryGrows, AuthoritiesPass
<1>3. CASE NominateConfigAuthority(w, v)
  BY <1>1, <1>3 DEF NominateConfigAuthority, AdminTypeOK, WalletOrNone, AdminStep,
    RegistryGrows, AuthoritiesPass
<1>4. CASE UpdateFeeRecipient(w, v)
  BY <1>1, <1>4 DEF UpdateFeeRecipient, AdminTypeOK, WalletOrNone, AdminStep,
    RegistryGrows, AuthoritiesPass
<1>5. CASE AcceptConfigAuthority(w)
  BY <1>1, <1>5 DEF AcceptConfigAuthority, MayAccept, AdminTypeOK, WalletOrNone, AdminStep,
    RegistryGrows, AuthoritiesPass
<1>. QED BY <1>2, <1>3, <1>4, <1>5

LEMMA RegistryChanges ==
  ASSUME AdminTypeOK, NEW w \in Wallets, NEW v \in Wallets,
         \/ InitializeTokenRegistry(w)
         \/ UpdateRegistryAuthority(w, v)
         \/ AcceptRegistryAuthority(w)
  PROVE  AdminStep
<1>1. config' = config /\ registry'.tokens = registry.tokens
  BY DEF InitializeTokenRegistry, UpdateRegistryAuthority, AcceptRegistryAuthority, AdminTypeOK
<1>2. CASE InitializeTokenRegistry(w)
  BY <1>1, <1>2 DEF InitializeTokenRegistry, AdminTypeOK, WalletOrNone, AdminStep,
    RegistryGrows, AuthoritiesPass
<1>3. CASE UpdateRegistryAuthority(w, v)
  BY <1>1, <1>3 DEF UpdateRegistryAuthority, AdminTypeOK, WalletOrNone, AdminStep,
    RegistryGrows, AuthoritiesPass
<1>4. CASE AcceptRegistryAuthority(w)
  BY <1>1, <1>4 DEF AcceptRegistryAuthority, MayAccept, AdminTypeOK, WalletOrNone, AdminStep,
    RegistryGrows, AuthoritiesPass
<1>. QED BY <1>2, <1>3, <1>4

LEMMA Governed ==
  ASSUME AdminTypeOK, Govern
  PROVE  AdminStep
<1>1. PICK w \in Wallets :
       \/ \E v \in Wallets : NominateConfigAuthority(w, v) \/ UpdateRegistryAuthority(w, v)
       \/ \E v \in Wallets : UpdateFeeRecipient(w, v)
       \/ AcceptConfigAuthority(w) \/ AcceptRegistryAuthority(w)
       \/ \E id \in TokenIds, mint \in Mints : RegisterYieldBearingToken(w, id, mint)
       \/ InitializeTokenRegistry(w)
  BY DEF Govern
<1>. QED BY <1>1, ConfigChanges, RegistryChanges, WrapperRegistered

\* Every id, and every mint of a plain token, is registered once.
RegistryIsDistinct ==
  /\ \A i, j \in DOMAIN registry.tokens :
       registry.tokens[i].id = registry.tokens[j].id => i = j
  /\ PlainMintsAreDistinct

LEMMA DistinctnessKept ==
  ASSUME AdminTypeOK, RegistryIsDistinct, AdminStep
  PROVE  RegistryIsDistinct'
<1>1. CASE registry.tokens' = registry.tokens
  BY <1>1 DEF RegistryIsDistinct, PlainMintsAreDistinct
<1>2. ASSUME NEW e \in Entry, Pushed(e) PROVE RegistryIsDistinct'
  <2>. DEFINE old == registry.tokens
              new == registry'.tokens
              last == Len(old) + 1
  <2>1. old \in Seq(Entry) /\ new = Append(old, e)
    BY <1>2 DEF AdminTypeOK, Pushed
  <2>2. /\ DOMAIN new = DOMAIN old \cup {last}
        /\ new[last] = e
        /\ \A i \in DOMAIN old : new[i] = old[i]
    BY <2>1
  <2>3. /\ \A i \in DOMAIN old : old[i].id # e.id
        /\ e.kind = "plain" => \A i \in DOMAIN old : old[i].mint # e.mint
    BY <1>2 DEF Pushed
  <2>4. /\ \A i, j \in DOMAIN old : old[i].id = old[j].id => i = j
        /\ \A i, j \in DOMAIN old :
             old[i].kind = "plain" /\ old[j].kind = "plain" /\ old[i].mint = old[j].mint => i = j
    BY DEF RegistryIsDistinct, PlainMintsAreDistinct
  <2>. HIDE DEF old, new, last
  <2>5. \A i, j \in DOMAIN new : new[i].id = new[j].id => i = j
    BY <2>2, <2>3, <2>4
  <2>6. \A i, j \in DOMAIN new :
          new[i].kind = "plain" /\ new[j].kind = "plain" /\ new[i].mint = new[j].mint => i = j
    BY <2>2, <2>3, <2>4
  <2>. QED BY <2>5, <2>6 DEF RegistryIsDistinct, PlainMintsAreDistinct, new
<1>. QED BY <1>1, <1>2 DEF AdminStep, RegistryGrows

LEMMA TokensStay ==
  ASSUME AdminTypeOK, AdminStep
  PROVE  Range(registry.tokens) \subseteq Range(registry'.tokens)
<1>1. ASSUME NEW e \in Entry, Pushed(e)
      PROVE  Range(registry.tokens) \subseteq Range(registry'.tokens)
  BY <1>1 DEF AdminTypeOK, Pushed, Range
<1>. QED BY <1>1 DEF AdminStep, RegistryGrows

\* What a registration leaves in the registry.
LEMMA PushedIsRegistered ==
  ASSUME AdminTypeOK, NEW e, PushToken(e)
  PROVE  Range(registry'.tokens) = Range(registry.tokens) \cup {e}
<1>1. registry.tokens \in Seq(Entry) /\ registry'.tokens = Append(registry.tokens, e)
  BY DEF AdminTypeOK, PushToken
<1>. QED BY <1>1 DEF Range

-----------------------------------------------------------------------------
(***************************************************************************)
(* The deployment scripts.                                                 *)
(***************************************************************************)
Early == {"config", "registry", "create", "recipient", "reread", "read"}
Late == {"settle", "write", "done"}

ScriptTypeOK ==
  /\ phase \in [Scripts -> Early \cup {"token", "account"} \cup Late]
  /\ at \in [Scripts -> Nat \ {0}]
  /\ known \in [Scripts -> Seq(Entry)]
  /\ DOMAIN recipient = Scripts
  /\ DOMAIN written = Scripts

\* The script's i-th token is registered as it was asked for.
Has(s, i) == \E e \in Range(registry.tokens) : IsAsked(e, Wanted[s][i])
HasAll(s) == \A i \in DOMAIN Wanted[s] : Has(s, i)

\* How far a script has come says which of its tokens are registered.
Through(s) ==
  /\ Range(known[s]) \subseteq Range(registry.tokens)
  /\ phase[s] = "read" => Wanted[s] # <<>>
  /\ phase[s] \in Early => at[s] = 1
  /\ phase[s] \in {"token", "account"} => at[s] \in DOMAIN Wanted[s]
  /\ phase[s] = "account" => s = "deploy"
  /\ phase[s] = "token" => \A i \in 1 .. (at[s] - 1) : Has(s, i)
  /\ phase[s] = "account" => \A i \in 1 .. at[s] : Has(s, i)
  /\ phase[s] \in Late => HasAll(s) \/ (s = "deploy" /\ skipped)

DeploymentInvariant ==
  /\ AdminTypeOK
  /\ RegistryIsDistinct
  /\ ScriptTypeOK
  /\ WrittenAccountsExist
  /\ \A s \in Scripts : Through(s)

\* A script that rests goes on having what it has while the registry grows.
LEMMA ThroughStays ==
  ASSUME NEW s \in Scripts, Through(s),
         Range(registry.tokens) \subseteq Range(registry'.tokens),
         phase'[s] = phase[s], at'[s] = at[s], known'[s] = known[s],
         s = "deploy" => skipped' = skipped
  PROVE  Through(s)'
BY DEF Through, Has, HasAll, Early, Late

\* The entry that a script finds is one that it knows.
LEMMA ExistingIsKnown ==
  ASSUME ScriptTypeOK, NEW s \in Scripts, Matches(s) # {}
  PROVE  Existing(s) \in Range(known[s])
<1>1. known[s] \in Seq(Entry)
  BY DEF ScriptTypeOK
<1>2. Matches(s) \subseteq Nat /\ Matches(s) \subseteq DOMAIN known[s]
  BY <1>1 DEF Matches
<1>3. PICK i \in Matches(s) : \A j \in Matches(s) : i <= j
  <2>. DEFINE M == Matches(s)
              Less == {ss \in Nat \X Nat : ss[1] < ss[2]}
  <2>1. IsWellFoundedOn(Less, Nat)
    BY NatLessThanWellFounded DEF OpToRel
  <2>2. M \subseteq Nat /\ M # {}
    BY <1>2
  <2>. HIDE DEF M, Less
  <2>3. \E i \in M : \A j \in M : ~(<<j, i>> \in Less)
    BY <2>1, <2>2, WFMin
  <2>4. \A j, i \in M : <<j, i>> \in Less <=> j < i
    BY <2>2 DEF Less
  <2>5. PICK i \in M : \A j \in M : ~(j < i)
    BY <2>3, <2>4
  <2>6. \A j \in M : i <= j
    BY <2>2, <2>5
  <2>. QED BY <2>6 DEF M
<1>. QED BY <1>2, <1>3 DEF Existing, Range

\* What one script does to its own state leaves the others where they were.
OwnStep(s) ==
  /\ \A r \in Scripts \ {s} :
       phase'[r] = phase[r] /\ at'[r] = at[r] /\ known'[r] = known[r]
  /\ s # "deploy" => skipped' = skipped

DeploymentStep == AdminStep /\ ScriptTypeOK' /\ WrittenAccountsExist'

LEMMA InvariantKept ==
  ASSUME DeploymentInvariant, NEW s \in Scripts,
         DeploymentStep, OwnStep(s), Through(s)'
  PROVE  DeploymentInvariant'
<1>1. Range(registry.tokens) \subseteq Range(registry'.tokens)
  BY TokensStay DEF DeploymentInvariant, DeploymentStep
<1>2. ASSUME NEW r \in Scripts PROVE Through(r)'
  <2>1. CASE r = s
    BY <2>1
  <2>2. CASE r # s
    <3>1. s = "deploy" \/ skipped' = skipped
      BY DEF OwnStep
    <3>2. r = "deploy" => skipped' = skipped
      BY <2>2, <3>1
    <3>. QED BY <1>1, <2>2, <3>2, ThroughStays DEF OwnStep, DeploymentInvariant
  <2>. QED BY <2>1, <2>2
<1>3. AdminTypeOK' /\ RegistryIsDistinct'
  BY DistinctnessKept DEF DeploymentInvariant, DeploymentStep, AdminStep
<1>. QED BY <1>2, <1>3 DEF DeploymentInvariant, DeploymentStep

\* Nothing of the scripts changes, whatever happens to the registry.
LEMMA ScriptsRest ==
  ASSUME DeploymentInvariant, AdminStep, UNCHANGED scriptVars
  PROVE  DeploymentInvariant'
<1>1. /\ phase' = phase /\ at' = at /\ known' = known /\ skipped' = skipped
      /\ recipient' = recipient /\ written' = written /\ feeAccounts' = feeAccounts
  BY DEF scriptVars
<1>2. ScriptTypeOK' /\ WrittenAccountsExist'
  BY <1>1 DEF DeploymentInvariant, ScriptTypeOK, WrittenAccountsExist
<1>3. Range(registry.tokens) \subseteq Range(registry'.tokens)
  BY TokensStay DEF DeploymentInvariant
<1>4. \A s \in Scripts : Through(s)'
  BY <1>1, <1>3, ThroughStays DEF DeploymentInvariant
<1>5. AdminTypeOK' /\ RegistryIsDistinct'
  BY DistinctnessKept DEF DeploymentInvariant, AdminStep
<1>. QED BY <1>2, <1>4, <1>5 DEF DeploymentInvariant

LEMMA FirstReads ==
  ASSUME NEW s \in Scripts, First(s) = "read"
  PROVE  Wanted[s] # <<>>
<1>1. s # "deploy"
  BY DEF First
<1>2. s # "deploy" => Len(Wanted[s]) = 1
  BY DeploymentAssumption
<1>. QED BY <1>1, <1>2

\* A script that is stopped knows nothing, and starts again.
LEMMA Stopped ==
  ASSUME DeploymentInvariant, NEW s \in Scripts,
         Stop(s), UNCHANGED adminVars
  PROVE  DeploymentInvariant'
<1>. USE DEF DeploymentInvariant
<1>1. /\ phase' = [phase EXCEPT ![s] = First(s)]
      /\ at' = [at EXCEPT ![s] = 1]
      /\ known' = [known EXCEPT ![s] = <<>>]
      /\ recipient' = [recipient EXCEPT ![s] = NoWallet]
      /\ feeAccounts' = feeAccounts /\ written' = written /\ skipped' = skipped
  BY DEF Stop, Ends, GoTo
<1>2. AdminStep
  BY AdminStutters
<1>3. First(s) \in Early
  BY DEF First, Early
<1>4. <<>> \in Seq(Entry)
  OBVIOUS
<1>5. ScriptTypeOK'
  BY <1>1, <1>3, <1>4 DEF ScriptTypeOK
<1>6. WrittenAccountsExist'
  BY <1>1 DEF WrittenAccountsExist
<1>7. Through(s)'
  <2>1. phase'[s] = First(s) /\ at'[s] = 1 /\ known'[s] = <<>>
    BY <1>1 DEF ScriptTypeOK
  <2>2. Range(<<>>) = {}
    BY DEF Range
  <2>3. First(s) = "read" => Wanted[s] # <<>>
    BY FirstReads
  <2>4. First(s) \notin {"token", "account"} \cup Late
    BY DEF First, Late
  <2>. QED BY <2>1, <2>2, <2>3, <2>4 DEF Through
<1>8. OwnStep(s)
  BY <1>1 DEF OwnStep, ScriptTypeOK
<1>. QED BY <1>2, <1>5, <1>6, <1>7, <1>8, InvariantKept DEF DeploymentStep

\* Before its first token a script only goes on.
LEMMA EarlyStep ==
  ASSUME DeploymentInvariant, NEW s \in Scripts, NEW name \in Early,
         phase[s] \in Early, name = "read" => Wanted[s] # <<>>,
         AdminStep, phase' = [phase EXCEPT ![s] = name],
         UNCHANGED <<at, known, feeAccounts, written>>,
         DOMAIN recipient' = DOMAIN recipient,
         s # "deploy" => skipped' = skipped
  PROVE  DeploymentInvariant'
<1>. USE DEF DeploymentInvariant
<1>1. ScriptTypeOK' /\ WrittenAccountsExist' /\ OwnStep(s)
  BY DEF ScriptTypeOK, WrittenAccountsExist, OwnStep
<1>2. Range(registry.tokens) \subseteq Range(registry'.tokens)
  BY TokensStay
<1>3. Through(s)'
  BY <1>2 DEF Through, ScriptTypeOK, Early, Late
<1>. QED BY <1>1, <1>3, InvariantKept DEF DeploymentStep

LEMMA ConfigEnsured ==
  ASSUME DeploymentInvariant, EnsureConfig
  PROVE  DeploymentInvariant'
<1>1. "deploy" \in Scripts /\ phase["deploy"] \in Early
  BY DEF EnsureConfig, At, Scripts, Early
<1>2. AdminTypeOK /\ DOMAIN recipient = Scripts
  BY DEF DeploymentInvariant, ScriptTypeOK
<1>3. CASE config.present
  <2>1. /\ phase' = [phase EXCEPT !["deploy"] = "registry"]
        /\ recipient' = [recipient EXCEPT !["deploy"] = config.fee_recipient]
        /\ UNCHANGED <<adminVars, at, known, feeAccounts, written, skipped>>
    BY <1>3 DEF EnsureConfig, GoTo
  <2>. QED BY <1>1, <1>2, <2>1, AdminStutters, EarlyStep DEF Early
<1>4. CASE ~config.present
  <2>1. Submit("deploy", Initialize(Deployer, Nominee, Recipient), "config")
    BY <1>4 DEF EnsureConfig
  <2>2. CASE Initialize(Deployer, Nominee, Recipient) /\ GoTo("deploy", "config")
             /\ UNCHANGED <<at, kept>>
    <3>1. AdminStep
      BY <1>2, <2>2, ConfigChanges, DeploymentAssumption
    <3>. QED BY <1>1, <1>2, <2>2, <3>1, EarlyStep DEF Early, GoTo, kept
  <2>3. CASE Stop("deploy") /\ UNCHANGED adminVars
    BY <1>1, <2>3, Stopped
  <2>. QED BY <2>1, <2>2, <2>3 DEF Submit
<1>. QED BY <1>3, <1>4

LEMMA TokenRegistryEnsured ==
  ASSUME DeploymentInvariant, EnsureTokenRegistry
  PROVE  DeploymentInvariant'
<1>1. "deploy" \in Scripts /\ phase["deploy"] \in Early
  BY DEF EnsureTokenRegistry, At, Scripts, Early
<1>2. AdminTypeOK /\ DOMAIN recipient = Scripts
  BY DEF DeploymentInvariant, ScriptTypeOK
<1>3. CASE At("deploy", "registry")
  <2>1. PICK name \in {"create", "recipient"} : GoTo("deploy", name)
    BY <1>3 DEF EnsureTokenRegistry, At
  <2>2. UNCHANGED <<adminVars, at, kept>>
    BY <1>3 DEF EnsureTokenRegistry, At
  <2>. QED BY <1>1, <1>2, <2>1, <2>2, AdminStutters, EarlyStep DEF Early, GoTo, kept
<1>4. CASE At("deploy", "create")
  <2>1. Submit("deploy", InitializeTokenRegistry(Deployer), "recipient")
    BY <1>4 DEF EnsureTokenRegistry, At
  <2>2. CASE InitializeTokenRegistry(Deployer) /\ GoTo("deploy", "recipient")
             /\ UNCHANGED <<at, kept>>
    <3>1. AdminStep
      BY <1>2, <2>2, RegistryChanges, DeploymentAssumption
    <3>. QED BY <1>1, <1>2, <2>2, <3>1, EarlyStep DEF Early, GoTo, kept
  <2>3. CASE Stop("deploy") /\ UNCHANGED adminVars
    BY <1>1, <2>3, Stopped
  <2>. QED BY <2>1, <2>2, <2>3 DEF Submit
<1>. QED BY <1>3, <1>4 DEF EnsureTokenRegistry

\* deploy passes over its tokens only as one that is not the authority.
LEMMA FeeRecipientEnsured ==
  ASSUME DeploymentInvariant, EnsureFeeRecipient
  PROVE  DeploymentInvariant'
<1>1. "deploy" \in Scripts /\ phase["deploy"] \in Early
  BY DEF EnsureFeeRecipient, At, Scripts, Early
<1>2. AdminTypeOK /\ DOMAIN recipient = Scripts
  BY DEF DeploymentInvariant, ScriptTypeOK
<1>3. CASE /\ UNCHANGED <<adminVars, at, asAuthority, known, feeAccounts, written>>
           /\ skipped' = ~asAuthority
           /\ DOMAIN recipient' = Scripts
           /\ GoTo("deploy", IF asAuthority /\ Wanted["deploy"] # <<>> THEN "read" ELSE "settle")
  <2>1. AdminStep
    BY <1>2, <1>3, AdminStutters
  <2>2. CASE asAuthority /\ Wanted["deploy"] # <<>>
    BY <1>1, <1>2, <1>3, <2>1, <2>2, EarlyStep DEF Early, GoTo
  <2>3. CASE ~(asAuthority /\ Wanted["deploy"] # <<>>)
    <3>1. phase' = [phase EXCEPT !["deploy"] = "settle"]
      BY <1>3, <2>3 DEF GoTo
    <3>2. ScriptTypeOK' /\ WrittenAccountsExist' /\ OwnStep("deploy")
      BY <1>2, <1>3, <3>1 DEF DeploymentInvariant, ScriptTypeOK, WrittenAccountsExist, OwnStep, Late
    <3>3. HasAll("deploy")' \/ skipped'
      <4>1. CASE ~asAuthority
        BY <1>3, <4>1
      <4>2. CASE Wanted["deploy"] = <<>>
        BY <4>2 DEF HasAll
      <4>. QED BY <2>3, <4>1, <4>2
    <3>4. Range(registry.tokens) \subseteq Range(registry'.tokens)
      BY <1>2, <2>1, TokensStay
    <3>5. Through("deploy")'
      <4>1. phase'["deploy"] = "settle" /\ known' = known
        BY <1>1, <1>3, <3>1 DEF DeploymentInvariant, ScriptTypeOK
      <4>2. Range(known["deploy"]) \subseteq Range(registry.tokens)
        BY <1>1 DEF DeploymentInvariant, Through
      <4>. QED BY <3>3, <3>4, <4>1, <4>2 DEF Through, Early, Late
    <3>. QED BY <1>1, <2>1, <3>2, <3>5, InvariantKept DEF DeploymentStep
  <2>. QED BY <2>2, <2>3
<1>4. CASE Submit("deploy", UpdateFeeRecipient(Deployer, Recipient), "reread")
  <2>1. CASE UpdateFeeRecipient(Deployer, Recipient) /\ GoTo("deploy", "reread")
             /\ UNCHANGED <<at, kept>>
    <3>1. AdminStep
      BY <1>2, <2>1, ConfigChanges, DeploymentAssumption
    <3>. QED BY <1>1, <1>2, <2>1, <3>1, EarlyStep DEF Early, GoTo, kept
  <2>2. CASE Stop("deploy") /\ UNCHANGED adminVars
    BY <1>1, <2>2, Stopped
  <2>. QED BY <1>4, <2>1, <2>2 DEF Submit
<1>. QED BY <1>2, <1>3, <1>4 DEF EnsureFeeRecipient

LEMMA RegistryRead ==
  ASSUME DeploymentInvariant, NEW s \in Scripts, ReadRegistry(s)
  PROVE  DeploymentInvariant'
<1>1. CASE Stop(s)
  BY <1>1, Stopped DEF ReadRegistry
<1>2. CASE registry.present
  <2>1. /\ phase' = [phase EXCEPT ![s] = "token"]
        /\ known' = [known EXCEPT ![s] = registry.tokens]
        /\ UNCHANGED <<adminVars, at, feeAccounts, written, skipped, recipient>>
    BY <1>2 DEF ReadRegistry, GoTo
  <2>2. AdminTypeOK /\ ScriptTypeOK /\ WrittenAccountsExist /\ Through(s)
    BY DEF DeploymentInvariant
  <2>3. AdminStep
    BY <2>1, <2>2, AdminStutters
  <2>4. ScriptTypeOK' /\ WrittenAccountsExist' /\ OwnStep(s)
    BY <2>1, <2>2 DEF AdminTypeOK, ScriptTypeOK, WrittenAccountsExist, OwnStep
  <2>5. at[s] = 1 /\ Wanted[s] # <<>>
    BY <2>2 DEF ReadRegistry, At, Through, Early
  <2>6. at[s] \in DOMAIN Wanted[s]
    <3>1. Wanted[s] \in Seq([id : TokenIds, mint : Mints])
      BY DeploymentAssumption
    <3>. QED BY <2>5, <3>1
  <2>7. Through(s)'
    <3>1. /\ phase'[s] = "token" /\ at'[s] = 1 /\ known'[s] = registry.tokens
          /\ registry' = registry
      BY <2>1, <2>2, <2>5 DEF ScriptTypeOK, adminVars
    <3>2. 1 .. (1 - 1) = {}
      OBVIOUS
    <3>. QED BY <2>5, <2>6, <3>1, <3>2 DEF Through, Early, Late
  <2>. QED BY <2>3, <2>4, <2>7, InvariantKept DEF DeploymentStep
<1>. QED BY <1>1, <1>2 DEF ReadRegistry

\* A script whose current token is registered goes on to what follows.
LEMMA TokenThere ==
  ASSUME DeploymentInvariant, NEW s \in Scripts, At(s, "token"), AdminStep,
         Has(s, at[s])', phase' = [phase EXCEPT ![s] = Following(s)],
         UNCHANGED <<at, kept>>
  PROVE  DeploymentInvariant'
<1>. USE DEF DeploymentInvariant
<1>1. /\ at' = at /\ known' = known /\ recipient' = recipient
      /\ feeAccounts' = feeAccounts /\ written' = written /\ skipped' = skipped
  BY DEF kept
<1>2. ScriptTypeOK' /\ WrittenAccountsExist' /\ OwnStep(s)
  BY <1>1 DEF ScriptTypeOK, WrittenAccountsExist, OwnStep, Following, Late
<1>3. Range(registry.tokens) \subseteq Range(registry'.tokens)
  BY TokensStay
<1>4. /\ Range(known[s]) \subseteq Range(registry.tokens)
      /\ at[s] \in DOMAIN Wanted[s]
      /\ \A i \in 1 .. (at[s] - 1) : Has(s, i)
  BY DEF Through, At
<1>5. at[s] \in Nat /\ at'[s] = at[s] /\ phase'[s] = Following(s)
  BY <1>1 DEF ScriptTypeOK
<1>6. \A i \in 1 .. at[s] : Has(s, i)'
  <2>1. \A i : Has(s, i) => Has(s, i)'
    BY <1>3 DEF Has
  <2>2. \A i \in 1 .. at[s] : i \in 1 .. (at[s] - 1) \/ i = at[s]
    BY <1>5
  <2>3. Has(s, at[s])'
    OBVIOUS
  <2>4. \A i \in 1 .. at[s] : i = at[s] => Has(s, i)'
    BY <1>5, <2>3 DEF Has
  <2>. QED BY <1>4, <2>1, <2>2, <2>4
<1>7. Through(s)'
  <2>1. CASE s = "deploy"
    <3>1. phase'[s] = "account"
      BY <1>5, <2>1 DEF Following
    <3>. QED BY <1>1, <1>3, <1>4, <1>5, <1>6, <2>1, <3>1 DEF Through, Early, Late
  <2>2. CASE s # "deploy"
    <3>1. phase'[s] = "settle"
      BY <1>5, <2>2 DEF Following
    <3>2. DOMAIN Wanted[s] = 1 .. 1
      BY <2>2, DeploymentAssumption
    <3>3. HasAll(s)'
      BY <1>4, <1>6, <3>2 DEF HasAll
    <3>. QED BY <1>1, <1>3, <1>4, <3>1, <3>3 DEF Through, Early, Late
  <2>. QED BY <2>1, <2>2
<1>. QED BY <1>2, <1>7, InvariantKept DEF DeploymentStep

LEMMA TokenEnsured ==
  ASSUME DeploymentInvariant, NEW s \in Scripts, EnsureToken(s)
  PROVE  DeploymentInvariant'
<1>1. /\ AdminTypeOK /\ ScriptTypeOK /\ At(s, "token")
      /\ Range(known[s]) \subseteq Range(registry.tokens)
      /\ at[s] \in DOMAIN Wanted[s]
  BY DEF DeploymentInvariant, EnsureToken, Through, At
<1>2. CASE Stop(s) /\ UNCHANGED adminVars
  BY <1>2, Stopped
<1>3. CASE /\ RegisterToken(Deployer, Token(s).id, Token(s).mint)
           /\ GoTo(s, Following(s)) /\ UNCHANGED <<at, kept>>
  <2>1. Token(s) \in [id : TokenIds, mint : Mints]
    <3>1. Wanted[s] \in Seq([id : TokenIds, mint : Mints])
      BY DeploymentAssumption
    <3>2. at[s] \in 1 .. Len(Wanted[s])
      BY <1>1, <3>1
    <3>. QED BY <3>1, <3>2, ElementOfSeq DEF Token
  <2>2. Token(s).id \in TokenIds /\ Token(s).mint \in Mints /\ Deployer \in Wallets
    BY <2>1, DeploymentAssumption
  <2>3. AdminStep
    BY <1>1, <1>3, <2>2, PlainTokenRegistered
  <2>4. Has(s, at[s])'
    <3>. DEFINE e == [id |-> Token(s).id, mint |-> Token(s).mint, kind |-> "plain"]
    <3>1. PushToken(e)
      BY <1>3 DEF RegisterToken
    <3>2. e \in Range(registry'.tokens)
      BY <1>1, <3>1, PushedIsRegistered
    <3>3. IsAsked(e, Wanted[s][at[s]])
      BY DEF IsAsked, Token
    <3>4. at' = at
      BY <1>3
    <3>. QED BY <3>2, <3>3, <3>4 DEF Has
  <2>. QED BY <1>1, <1>3, <2>3, <2>4, TokenThere DEF GoTo
<1>4. CASE /\ Matches(s) # {} /\ UNCHANGED adminVars /\ AcceptsExisting(s)
           /\ GoTo(s, Following(s)) /\ UNCHANGED <<at, kept>>
  <2>1. AdminStep /\ registry' = registry /\ at' = at
    BY <1>1, <1>4, AdminStutters DEF adminVars
  <2>2. Existing(s) \in Range(registry.tokens)
    BY <1>1, <1>4, ExistingIsKnown
  <2>3. IsAsked(Existing(s), Wanted[s][at[s]])
    BY <1>4 DEF AcceptsExisting, Token
  <2>4. Has(s, at[s])'
    BY <2>1, <2>2, <2>3 DEF Has
  <2>. QED BY <1>1, <1>4, <2>1, <2>4, TokenThere DEF GoTo
<1>. QED BY <1>2, <1>3, <1>4 DEF EnsureToken, Submit

LEMMA FeeAccountEnsured ==
  ASSUME DeploymentInvariant, EnsureFeeAccount
  PROVE  DeploymentInvariant'
<1>. USE DEF DeploymentInvariant
<1>0. "deploy" \in Scripts
  BY DEF Scripts
<1>1. AdminStep /\ registry' = registry
  BY AdminStutters DEF EnsureFeeAccount, adminVars
<1>2. /\ known' = known /\ recipient' = recipient /\ written' = written /\ skipped' = skipped
      /\ feeAccounts \subseteq feeAccounts'
      /\ phase["deploy"] = "account"
  BY DEF EnsureFeeAccount, At
<1>3. WrittenAccountsExist'
  BY <1>2 DEF WrittenAccountsExist
<1>4. /\ Range(known["deploy"]) \subseteq Range(registry.tokens)
      /\ at["deploy"] \in DOMAIN Wanted["deploy"]
      /\ \A i \in 1 .. at["deploy"] : Has("deploy", i)
      /\ at["deploy"] \in Nat \ {0}
  BY <1>0, <1>2 DEF Through, ScriptTypeOK
<1>5. Wanted["deploy"] \in Seq([id : TokenIds, mint : Mints])
  BY <1>0, DeploymentAssumption
<1>6. CASE at["deploy"] < Len(Wanted["deploy"])
  <2>1. /\ at' = [at EXCEPT !["deploy"] = at["deploy"] + 1]
        /\ phase' = [phase EXCEPT !["deploy"] = "token"]
    BY <1>6 DEF EnsureFeeAccount, GoTo
  <2>2. ScriptTypeOK' /\ OwnStep("deploy")
    BY <1>0, <1>2, <1>4, <2>1 DEF ScriptTypeOK, OwnStep
  <2>3. Through("deploy")'
    <3>1. phase'["deploy"] = "token" /\ at'["deploy"] = at["deploy"] + 1
      BY <1>0, <2>1 DEF ScriptTypeOK
    <3>2. at["deploy"] + 1 \in DOMAIN Wanted["deploy"]
      BY <1>4, <1>5, <1>6
    <3>3. (at["deploy"] + 1) - 1 = at["deploy"]
      BY <1>4
    <3>4. \A i \in 1 .. (at'["deploy"] - 1) : Has("deploy", i)'
      BY <1>1, <1>4, <3>1, <3>3 DEF Has
    <3>. QED BY <1>1, <1>2, <1>4, <3>1, <3>2, <3>4 DEF Through, Early, Late
  <2>. QED BY <1>0, <1>1, <1>3, <2>2, <2>3, InvariantKept DEF DeploymentStep
<1>7. CASE ~(at["deploy"] < Len(Wanted["deploy"]))
  <2>1. /\ at' = at
        /\ phase' = [phase EXCEPT !["deploy"] = "settle"]
    BY <1>7 DEF EnsureFeeAccount, GoTo
  <2>2. ScriptTypeOK' /\ OwnStep("deploy")
    BY <1>0, <1>2, <1>4, <2>1 DEF ScriptTypeOK, OwnStep, Late
  <2>3. HasAll("deploy")'
    <3>1. DOMAIN Wanted["deploy"] \subseteq 1 .. at["deploy"]
      BY <1>4, <1>5, <1>7
    <3>. QED BY <1>1, <1>4, <3>1 DEF HasAll, Has
  <2>4. Through("deploy")'
    <3>1. phase'["deploy"] = "settle"
      BY <1>0, <2>1 DEF ScriptTypeOK
    <3>. QED BY <1>1, <1>2, <1>4, <2>3, <3>1 DEF Through, Early, Late
  <2>. QED BY <1>0, <1>1, <1>3, <2>2, <2>4, InvariantKept DEF DeploymentStep
<1>. QED BY <1>6, <1>7

LEMMA ConfigRead ==
  ASSUME DeploymentInvariant, NEW s \in Scripts, ReadConfig(s)
  PROVE  DeploymentInvariant'
<1>. USE DEF DeploymentInvariant
<1>1. AdminStep /\ registry' = registry
  BY AdminStutters DEF ReadConfig, adminVars
<1>2. PICK name \in {"write", "done"} : phase' = [phase EXCEPT ![s] = name]
  BY DEF ReadConfig, Ends, GoTo
<1>3. /\ at' = at \/ at' = [at EXCEPT ![s] = 1]
      /\ known' = known \/ known' = [known EXCEPT ![s] = <<>>]
      /\ DOMAIN recipient' = DOMAIN recipient
      /\ feeAccounts' = feeAccounts /\ written' = written /\ skipped' = skipped
  BY DEF ReadConfig, Ends
<1>4. <<>> \in Seq(Entry)
  OBVIOUS
<1>5. ScriptTypeOK' /\ WrittenAccountsExist' /\ OwnStep(s)
  <2>1. /\ at' \in [Scripts -> Nat \ {0}]
        /\ \A r \in Scripts \ {s} : at'[r] = at[r]
    <3>1. at \in [Scripts -> Nat \ {0}]
      BY DEF ScriptTypeOK
    <3>2. CASE at' = at
      BY <3>1, <3>2
    <3>3. CASE at' = [at EXCEPT ![s] = 1]
      BY <3>1, <3>3
    <3>. QED BY <1>3, <3>2, <3>3
  <2>2. /\ known' \in [Scripts -> Seq(Entry)]
        /\ \A r \in Scripts \ {s} : known'[r] = known[r]
    BY <1>3, <1>4 DEF ScriptTypeOK
  <2>3. ScriptTypeOK'
    BY <1>2, <1>3, <2>1, <2>2 DEF ScriptTypeOK, Late
  <2>4. OwnStep(s)
    BY <1>2, <1>3, <2>1, <2>2 DEF ScriptTypeOK, OwnStep
  <2>. QED BY <1>3, <2>3, <2>4 DEF WrittenAccountsExist
<1>6. Through(s)'
  <2>1. Range(known'[s]) \subseteq Range(registry.tokens)
    <3>1. Range(<<>>) = {}
      BY DEF Range
    <3>2. Range(known[s]) \subseteq Range(registry.tokens)
      BY DEF Through
    <3>. QED BY <1>3, <3>1, <3>2 DEF ScriptTypeOK
  <2>2. HasAll(s)' \/ (s = "deploy" /\ skipped')
    BY <1>1, <1>3 DEF ReadConfig, At, Through, Late, HasAll, Has
  <2>3. phase'[s] = name
    BY <1>2 DEF ScriptTypeOK
  <2>. QED BY <1>1, <2>1, <2>2, <2>3 DEF Through, Early, Late
<1>. QED BY <1>1, <1>5, <1>6, InvariantKept DEF DeploymentStep

LEMMA ConfigWritten ==
  ASSUME DeploymentInvariant, NEW s \in Scripts, WriteConfig(s)
  PROVE  DeploymentInvariant'
<1>. USE DEF DeploymentInvariant
<1>1. AdminStep /\ registry' = registry
  BY AdminStutters DEF WriteConfig, adminVars
<1>2. /\ phase' = [phase EXCEPT ![s] = "done"]
      /\ at' = [at EXCEPT ![s] = 1]
      /\ known' = [known EXCEPT ![s] = <<>>]
      /\ DOMAIN recipient' = DOMAIN recipient
      /\ feeAccounts' = feeAccounts \cup AccountsFor(s)
      /\ written' = [written EXCEPT ![s] = AccountsFor(s)]
      /\ skipped' = skipped
  BY DEF WriteConfig, Ends, GoTo
<1>3. <<>> \in Seq(Entry)
  OBVIOUS
<1>4. ScriptTypeOK' /\ WrittenAccountsExist' /\ OwnStep(s)
  BY <1>2, <1>3 DEF ScriptTypeOK, WrittenAccountsExist, OwnStep, Late
<1>5. Through(s)'
  <2>1. Range(<<>>) = {}
    BY DEF Range
  <2>2. HasAll(s)' \/ (s = "deploy" /\ skipped')
    BY <1>1, <1>2 DEF WriteConfig, At, Through, Late, HasAll, Has
  <2>3. phase'[s] = "done" /\ known'[s] = <<>>
    BY <1>2 DEF ScriptTypeOK
  <2>. QED BY <1>1, <2>1, <2>2, <2>3 DEF Through, Early, Late
<1>. QED BY <1>1, <1>4, <1>5, InvariantKept DEF DeploymentStep

LEMMA DeploymentSteps ==
  ASSUME DeploymentInvariant, DeploymentNext
  PROVE  DeploymentInvariant'
<1>1. ASSUME NEW s \in Scripts, Step(s) PROVE DeploymentInvariant'
  <2>1. CASE ScriptStep(s)
    BY <2>1, RegistryRead, TokenEnsured, ConfigRead, ConfigWritten DEF ScriptStep
  <2>2. CASE DeployStep
    BY <2>2, ConfigEnsured, TokenRegistryEnsured, FeeRecipientEnsured, FeeAccountEnsured
      DEF DeployStep
  <2>. QED BY <1>1, <2>1, <2>2 DEF Step
<1>2. CASE Handover
  <2>1. CASE Govern /\ UNCHANGED scriptVars
    BY <2>1, Governed, ScriptsRest DEF DeploymentInvariant
  <2>2. ASSUME NEW s \in Scripts, Stop(s), UNCHANGED adminVars PROVE DeploymentInvariant'
    BY <2>2, Stopped
  <2>. QED BY <1>2, <2>1, <2>2 DEF Handover
<1>. QED BY <1>1, <1>2 DEF DeploymentNext

LEMMA DeploymentStarts ==
  ASSUME DeploymentInit
  PROVE  DeploymentInvariant
<1>1. /\ config = [present |-> FALSE, authority |-> NoWallet,
                   pending_authority |-> NoWallet, fee_recipient |-> NoWallet]
      /\ registry = [present |-> FALSE, authority |-> NoWallet,
                     pending_authority |-> NoWallet, tokens |-> <<>>]
  BY DEF DeploymentInit, AdminInit
<1>2. AdminTypeOK /\ registry.tokens = <<>>
  BY <1>1 DEF AdminTypeOK, WalletOrNone
<1>3. RegistryIsDistinct
  BY <1>2 DEF RegistryIsDistinct, PlainMintsAreDistinct
<1>4. \A s \in Scripts : First(s) \in Early
  BY DEF First, Early
<1>5. ScriptTypeOK /\ WrittenAccountsExist
  BY <1>4 DEF DeploymentInit, ScriptTypeOK, WrittenAccountsExist
<1>6. ASSUME NEW s \in Scripts PROVE Through(s)
  <2>1. phase[s] = First(s) /\ at[s] = 1 /\ known[s] = <<>>
    BY DEF DeploymentInit
  <2>2. Range(<<>>) = {}
    BY DEF Range
  <2>3. First(s) = "read" => Wanted[s] # <<>>
    BY FirstReads
  <2>4. First(s) \notin {"token", "account"} \cup Late
    BY DEF First, Late
  <2>. QED BY <2>1, <2>2, <2>3, <2>4 DEF Through
<1>. QED BY <1>2, <1>3, <1>5, <1>6 DEF DeploymentInvariant

-----------------------------------------------------------------------------
(***************************************************************************)
(* The bootstrap of the yield demo.                                        *)
(***************************************************************************)
PlainToken == [id |-> 1, mint |-> x, kind |-> "plain"]
WrapperToken == [id |-> 2, mint |-> x, kind |-> "yield"]

\* How far a process has come says what there is, whoever created it; only
\* bootstraps register tokens while they run.
BootstrapTypeOK ==
  /\ progress \in [Processes -> Bootstrapping!Phases]
  /\ sending \in [Processes -> BOOLEAN]
Reached(p, phases) == progress[p] \in phases
BootstrapProgress ==
  /\ \A e \in Range(registry.tokens) : e \in {PlainToken, WrapperToken}
  /\ config.present => config.fee_recipient = Recipient
  /\ \A p \in Processes :
       /\ progress[p] # "config" => config.present
       /\ Reached(p, {"plain", "wrapper", "done"}) => reserve
       /\ Reached(p, {"wrapper", "done"}) => PlainToken \in Range(registry.tokens)
       /\ Reached(p, {"done"}) => WrapperToken \in Range(registry.tokens)

BootstrapInvariant == AdminTypeOK /\ BootstrapTypeOK /\ BootstrapProgress

\* The accounts only grow into what they are to be.
AccountsGrow ==
  /\ \A e \in Range(registry'.tokens) : e \in {PlainToken, WrapperToken}
  /\ config'.present => config'.fee_recipient = Recipient
  /\ config.present => config'.present
  /\ reserve => reserve'
  /\ Range(registry.tokens) \subseteq Range(registry'.tokens)

LEMMA AccountsRest ==
  ASSUME BootstrapInvariant, UNCHANGED <<adminVars, reserve>>
  PROVE  AccountsGrow
BY DEF BootstrapInvariant, BootstrapProgress, AccountsGrow, adminVars

\* p goes to another phase, for which it has what is needed.
LEMMA ProgressKept ==
  ASSUME BootstrapInvariant, AccountsGrow, NEW p \in Processes,
         NEW name \in Bootstrapping!Phases,
         progress' = [progress EXCEPT ![p] = name],
         name # "config" => config'.present,
         name \in {"plain", "wrapper", "done"} => reserve',
         name \in {"wrapper", "done"} => PlainToken \in Range(registry'.tokens),
         name = "done" => WrapperToken \in Range(registry'.tokens)
  PROVE  BootstrapProgress'
<1>1. /\ progress'[p] = name
      /\ \A q \in Processes \ {p} : progress'[q] = progress[q]
  BY DEF BootstrapInvariant, BootstrapTypeOK
<1>2. ASSUME NEW q \in Processes
      PROVE  /\ progress'[q] # "config" => config'.present
             /\ progress'[q] \in {"plain", "wrapper", "done"} => reserve'
             /\ progress'[q] \in {"wrapper", "done"} => PlainToken \in Range(registry'.tokens)
             /\ progress'[q] = "done" => WrapperToken \in Range(registry'.tokens)
  <2>1. CASE q = p
    BY <1>1, <2>1
  <2>2. CASE q # p
    <3>1. progress'[q] = progress[q]
      BY <1>1, <2>2
    <3>. QED BY <3>1 DEF BootstrapInvariant, BootstrapProgress, AccountsGrow, Reached
  <2>. QED BY <2>1, <2>2
<1>. QED BY <1>2 DEF BootstrapProgress, AccountsGrow, Reached, PlainToken, WrapperToken

LEMMA BootstrapGoesOn ==
  ASSUME BootstrapInvariant, AdminTypeOK', AccountsGrow, NEW p \in Processes,
         NEW name \in Bootstrapping!Phases,
         progress' = [progress EXCEPT ![p] = name],
         sending' = sending \/ \E b \in BOOLEAN : sending' = [sending EXCEPT ![p] = b],
         name # "config" => config'.present,
         name \in {"plain", "wrapper", "done"} => reserve',
         name \in {"wrapper", "done"} => PlainToken \in Range(registry'.tokens),
         name = "done" => WrapperToken \in Range(registry'.tokens)
  PROVE  BootstrapInvariant'
<1>1. BootstrapProgress'
  BY ProgressKept
<1>2. BootstrapTypeOK'
  BY DEF BootstrapInvariant, BootstrapTypeOK
<1>. QED BY <1>1, <1>2 DEF BootstrapInvariant

\* A token of the id that a process looks for is the one it wants.
LEMMA LooksAreTrue ==
  ASSUME BootstrapInvariant
  PROVE  /\ Bootstrapping!IsTokenRegistered(1) => PlainToken \in Range(registry.tokens)
         /\ Bootstrapping!IsTokenRegistered(2) => WrapperToken \in Range(registry.tokens)
<1>1. \A e \in Range(registry.tokens) : e = PlainToken \/ e = WrapperToken
  BY DEF BootstrapInvariant, BootstrapProgress
<1>2. PlainToken.id = 1 /\ WrapperToken.id = 2
  BY DEF PlainToken, WrapperToken
<1>. QED BY <1>1, <1>2 DEF Bootstrapping!IsTokenRegistered, Bootstrapping!Range, Range

LEMMA Looked ==
  ASSUME BootstrapInvariant, NEW p \in Processes, Bootstrapping!Look(p)
  PROVE  BootstrapInvariant'
<1>1. UNCHANGED <<adminVars, reserve>> /\ config' = config /\ registry' = registry
  BY DEF Bootstrapping!Look, Bootstrapping!adminVars, adminVars
<1>2. AccountsGrow /\ AdminTypeOK'
  BY <1>1, AccountsRest, AdminStutters DEF BootstrapInvariant, AdminStep
<1>3. progress[p] \in Bootstrapping!Phases /\ progress[p] # "done"
  BY DEF BootstrapInvariant, BootstrapTypeOK, Bootstrapping!Look
<1>4. CASE ~Bootstrapping!Exists(progress[p])
  <2>1. progress' = progress /\ sending' = [sending EXCEPT ![p] = TRUE]
    BY <1>4 DEF Bootstrapping!Look
  <2>. QED BY <1>1, <1>2, <2>1
    DEF BootstrapInvariant, BootstrapTypeOK, BootstrapProgress, Reached, PlainToken, WrapperToken
<1>5. CASE Bootstrapping!Exists(progress[p])
  <2>1. /\ progress' = [progress EXCEPT ![p] = Bootstrapping!Skips(progress[p])]
        /\ sending' = sending
    BY <1>5 DEF Bootstrapping!Look
  <2>2. /\ progress[p] # "config" => config.present
        /\ progress[p] \in {"plain", "wrapper"} => reserve
        /\ progress[p] = "wrapper" => PlainToken \in Range(registry.tokens)
    BY DEF BootstrapInvariant, BootstrapProgress, Reached
  <2>3. CASE progress[p] = "config"
    <3>1. config.present /\ Bootstrapping!Skips(progress[p]) = "reserve"
      BY <1>5, <2>3 DEF Bootstrapping!Exists, Bootstrapping!Skips
    <3>. QED BY <1>1, <1>2, <2>1, <3>1, BootstrapGoesOn DEF Bootstrapping!Phases
  <2>4. CASE progress[p] = "registry"
    BY <1>5, <2>4 DEF Bootstrapping!Exists
  <2>5. CASE progress[p] = "reserve"
    <3>1. reserve /\ Bootstrapping!Skips(progress[p]) = "plain"
      BY <1>5, <2>5 DEF Bootstrapping!Exists, Bootstrapping!Skips, Bootstrapping!After
    <3>. QED BY <1>1, <1>2, <2>1, <2>2, <2>5, <3>1, BootstrapGoesOn DEF Bootstrapping!Phases
  <2>6. CASE progress[p] = "plain"
    <3>1. Bootstrapping!Skips(progress[p]) = "wrapper"
      BY <2>6 DEF Bootstrapping!Skips, Bootstrapping!After
    <3>2. PlainToken \in Range(registry.tokens)
      BY <1>5, <2>6, LooksAreTrue DEF Bootstrapping!Exists
    <3>. QED BY <1>1, <1>2, <2>1, <2>2, <2>6, <3>1, <3>2, BootstrapGoesOn DEF Bootstrapping!Phases
  <2>7. CASE progress[p] = "wrapper"
    <3>1. Bootstrapping!Skips(progress[p]) = "done"
      BY <2>7 DEF Bootstrapping!Skips, Bootstrapping!After
    <3>2. WrapperToken \in Range(registry.tokens)
      BY <1>5, <2>7, LooksAreTrue DEF Bootstrapping!Exists
    <3>. QED BY <1>1, <1>2, <2>1, <2>2, <2>7, <3>1, <3>2, BootstrapGoesOn DEF Bootstrapping!Phases
  <2>. QED BY <1>3, <2>3, <2>4, <2>5, <2>6, <2>7 DEF Bootstrapping!Phases
<1>. QED BY <1>4, <1>5

\* What a bootstrap's transactions do to the accounts.
LEMMA ConfigCreated ==
  ASSUME BootstrapInvariant, Bootstrapping!Initialize(Deployer, Deployer, Recipient),
         reserve' = reserve
  PROVE  AdminStep /\ AccountsGrow /\ config'.present
<1>1. Initialize(Deployer, Deployer, Recipient)
  BY DEF Bootstrapping!Initialize, Initialize
<1>2. Deployer \in Wallets /\ Recipient \in Wallets
  BY DeploymentAssumption
<1>3. AdminStep
  BY <1>1, <1>2, ConfigChanges DEF BootstrapInvariant
<1>4. config'.present /\ config'.fee_recipient = Recipient /\ registry' = registry
  BY <1>1 DEF Initialize
<1>. QED BY <1>3, <1>4 DEF BootstrapInvariant, BootstrapProgress, AccountsGrow

LEMMA RegistryCreated ==
  ASSUME BootstrapInvariant, Bootstrapping!InitializeTokenRegistry(Deployer),
         reserve' = reserve
  PROVE  AdminStep /\ AccountsGrow /\ config' = config
<1>1. InitializeTokenRegistry(Deployer)
  BY DEF Bootstrapping!InitializeTokenRegistry, InitializeTokenRegistry
<1>2. Deployer \in Wallets
  BY DeploymentAssumption
<1>3. AdminStep
  BY <1>1, <1>2, RegistryChanges DEF BootstrapInvariant
<1>4. config' = config /\ registry'.tokens = registry.tokens
  BY <1>1 DEF InitializeTokenRegistry, BootstrapInvariant, AdminTypeOK
<1>. QED BY <1>3, <1>4 DEF BootstrapInvariant, BootstrapProgress, AccountsGrow

LEMMA TokenCreated ==
  ASSUME BootstrapInvariant, NEW e \in {PlainToken, WrapperToken},
         \/ e = PlainToken /\ Bootstrapping!RegisterToken(Deployer, 1, x)
         \/ e = WrapperToken /\ Bootstrapping!RegisterYieldBearingToken(Deployer, 2, x),
         reserve' = reserve
  PROVE  /\ AdminStep /\ AccountsGrow /\ config' = config
         /\ e \in Range(registry'.tokens)
<1>1. Deployer \in Wallets /\ x \in Mints /\ 1 \in TokenIds /\ 2 \in TokenIds
  BY YieldBootstrapAssumption DEF Bootstrapping!BootstrapAssumption
<1>2. \/ e = PlainToken /\ RegisterToken(Deployer, 1, x)
      \/ e = WrapperToken /\ RegisterYieldBearingToken(Deployer, 2, x)
  BY DEF Bootstrapping!RegisterToken, Bootstrapping!RegisterYieldBearingToken,
    Bootstrapping!CanRegister, Bootstrapping!IsTokenRegistered,
    Bootstrapping!IsMintRegistered, Bootstrapping!PushToken,
    RegisterToken, RegisterYieldBearingToken, CanRegister, IsTokenRegistered,
    IsMintRegistered, PushToken, Bootstrapping!Range, Range
<1>3. AdminStep
  BY <1>1, <1>2, PlainTokenRegistered, WrapperRegistered DEF BootstrapInvariant
<1>4. PushToken(e) /\ config' = config
  BY <1>2 DEF RegisterToken, RegisterYieldBearingToken, PushToken, PlainToken, WrapperToken
<1>5. Range(registry'.tokens) = Range(registry.tokens) \cup {e}
  BY <1>4, PushedIsRegistered DEF BootstrapInvariant
<1>. QED BY <1>3, <1>4, <1>5 DEF BootstrapInvariant, BootstrapProgress, AccountsGrow

LEMMA Landed ==
  ASSUME BootstrapInvariant, NEW p \in Processes, Bootstrapping!Land(p)
  PROVE  BootstrapInvariant'
<1>1. /\ sending' = [sending EXCEPT ![p] = FALSE]
      /\ progress' = [progress EXCEPT ![p] = Bootstrapping!After(progress[p])]
  BY DEF Bootstrapping!Land
<1>2. /\ progress[p] # "config" => config.present
      /\ progress[p] \in {"plain", "wrapper"} => reserve
      /\ progress[p] = "wrapper" => PlainToken \in Range(registry.tokens)
  BY DEF BootstrapInvariant, BootstrapProgress, Reached
<1>3. Bootstrapping!Execute(progress[p])
  BY DEF Bootstrapping!Land
<1>4. CASE /\ progress[p] = "config" /\ reserve' = reserve
           /\ Bootstrapping!Initialize(Deployer, Deployer, Recipient)
  <2>1. Bootstrapping!After(progress[p]) = "registry"
    BY <1>4 DEF Bootstrapping!After
  <2>. QED BY <1>1, <1>4, <2>1, ConfigCreated, BootstrapGoesOn DEF Bootstrapping!Phases, AdminStep
<1>5. CASE /\ progress[p] = "registry" /\ reserve' = reserve
           /\ Bootstrapping!InitializeTokenRegistry(Deployer)
  <2>1. Bootstrapping!After(progress[p]) = "reserve"
    BY <1>5 DEF Bootstrapping!After
  <2>. QED BY <1>1, <1>2, <1>5, <2>1, RegistryCreated, BootstrapGoesOn
    DEF Bootstrapping!Phases, AdminStep
<1>6. CASE progress[p] = "reserve" /\ Bootstrapping!CreateReserve
  <2>1. Bootstrapping!After(progress[p]) = "plain"
    BY <1>6 DEF Bootstrapping!After
  <2>2. reserve' /\ config' = config /\ registry' = registry
    BY <1>6 DEF Bootstrapping!CreateReserve, Bootstrapping!adminVars
  <2>3. AccountsGrow /\ AdminTypeOK'
    BY <2>2 DEF BootstrapInvariant, BootstrapProgress, AccountsGrow, AdminTypeOK
  <2>. QED BY <1>1, <1>2, <1>6, <2>1, <2>2, <2>3, BootstrapGoesOn DEF Bootstrapping!Phases
<1>7. CASE /\ progress[p] = "plain" /\ reserve' = reserve
           /\ Bootstrapping!RegisterToken(Deployer, 1, x)
  <2>1. Bootstrapping!After(progress[p]) = "wrapper"
    BY <1>7 DEF Bootstrapping!After
  <2>2. /\ AdminTypeOK' /\ AccountsGrow /\ config' = config
        /\ PlainToken \in Range(registry'.tokens)
    BY <1>7, TokenCreated DEF AdminStep
  <2>. QED BY <1>1, <1>2, <1>7, <2>1, <2>2, BootstrapGoesOn DEF Bootstrapping!Phases
<1>8. CASE /\ progress[p] = "wrapper" /\ reserve' = reserve
           /\ Bootstrapping!RegisterYieldBearingToken(Deployer, 2, x)
  <2>1. Bootstrapping!After(progress[p]) = "done"
    BY <1>8 DEF Bootstrapping!After
  <2>2. /\ AdminTypeOK' /\ AccountsGrow /\ config' = config
        /\ WrapperToken \in Range(registry'.tokens)
    BY <1>8, TokenCreated DEF AdminStep
  <2>3. PlainToken \in Range(registry'.tokens)
    BY <1>2, <1>8, <2>2 DEF AccountsGrow
  <2>. QED BY <1>1, <1>2, <1>8, <2>1, <2>2, <2>3, BootstrapGoesOn DEF Bootstrapping!Phases
<1>. QED BY <1>3, <1>4, <1>5, <1>6, <1>7, <1>8 DEF Bootstrapping!Execute

LEMMA Restarted ==
  ASSUME BootstrapInvariant, NEW p \in Processes, Bootstrapping!Restart(p)
  PROVE  BootstrapInvariant'
<1>1. /\ progress' = [progress EXCEPT ![p] = "config"]
      /\ sending' = [sending EXCEPT ![p] = FALSE]
      /\ UNCHANGED <<adminVars, reserve>>
  BY DEF Bootstrapping!Restart, Bootstrapping!adminVars, adminVars
<1>2. AccountsGrow /\ AdminTypeOK'
  BY <1>1, AccountsRest, AdminStutters DEF BootstrapInvariant, AdminStep
<1>. QED BY <1>1, <1>2, BootstrapGoesOn DEF Bootstrapping!Phases

LEMMA Repaired ==
  ASSUME BootstrapInvariant, Bootstrapping!Repair
  PROVE  BootstrapInvariant'
<1>1. /\ Bootstrapping!InitializeTokenRegistry(Deployer)
      /\ progress' = progress /\ sending' = sending /\ reserve' = reserve
  BY DEF Bootstrapping!Repair
<1>2. AdminTypeOK' /\ AccountsGrow /\ config' = config
  BY <1>1, RegistryCreated DEF AdminStep
<1>. QED BY <1>1, <1>2
  DEF BootstrapInvariant, BootstrapTypeOK, BootstrapProgress, AccountsGrow, Reached,
    PlainToken, WrapperToken

LEMMA BootstrapSteps ==
  ASSUME BootstrapInvariant, Bootstrapping!BootstrapNext
  PROVE  BootstrapInvariant'
BY Repaired, Looked, Landed, Restarted
DEF Bootstrapping!BootstrapNext, Bootstrapping!Refused, Bootstrapping!Kill

-----------------------------------------------------------------------------
(***************************************************************************)
(* The registration scripts.                                               *)
(***************************************************************************)
RegistrationTypeOK ==
  /\ DOMAIN stage = Registering!Scripts
  /\ position \in [Registering!Scripts -> Nat \ {0}]
  /\ DOMAIN ids = Registering!Scripts
  /\ \A s \in Registering!Scripts : DOMAIN ids[s] = Registering!WalletSet(s)
  /\ DOMAIN manifest = Registering!WalletSet("setup")
  /\ ended \subseteq Registering!Scripts

\* The script holds an id of its i-th wallet.
Owns(s, i) == ids[s][WalletsOf[s][i]] \in Registering!IdsOf(WalletsOf[s][i])
OwnsAll(s) == \A i \in DOMAIN WalletsOf[s] : Owns(s, i)
OwnsBefore(s) == \A i \in DOMAIN WalletsOf[s] : i < position[s] => Owns(s, i)

\* admin holds its own ids as it goes; demo may take another's id for its own,
\* and finds out when it registers the key.
HoldsItsOwn(s) ==
  /\ s \in ended => stage[s] = "stopped" /\ (s # "setup" => OwnsAll(s))
  /\ s = "admin" /\ stage[s] \in {"find", "register", "record"} => OwnsBefore(s)
  /\ stage[s] = "key" => s = "demo" /\ OwnsBefore(s)
  /\ s # "setup" /\ stage[s] = "end" => OwnsAll(s)

KeysAreOwned == \A id \in DOMAIN keyed : id \in Registering!IdsOf(keyed[id])

RegistrationInvariant ==
  /\ RegistrationTypeOK
  /\ KeysAreOwned
  /\ \A s \in Registering!Scripts : HoldsItsOwn(s)

\* An owner keeps its ids: the index only grows.
LEMMA IdsStay ==
  ASSUME ownerIndex \subseteq ownerIndex', NEW w
  PROVE  Registering!IdsOf(w) \subseteq Registering!IdsOf(w)'
BY DEF Registering!IdsOf, Registering!IndexBucketOf

\* A step of one script that leaves the others where they were.
LEMMA RegistrationKept ==
  ASSUME RegistrationInvariant, NEW s \in Registering!Scripts,
         ownerIndex \subseteq ownerIndex',
         RegistrationTypeOK', KeysAreOwned', HoldsItsOwn(s)',
         \A r \in Registering!Scripts \ {s} :
           /\ stage'[r] = stage[r] /\ position'[r] = position[r] /\ ids'[r] = ids[r]
           /\ r \in ended' => r \in ended
  PROVE  RegistrationInvariant'
<1>1. ASSUME NEW r \in Registering!Scripts \ {s} PROVE HoldsItsOwn(r)'
  <2>1. \A i : Owns(r, i) => Owns(r, i)'
    BY IdsStay DEF Owns
  <2>2. HoldsItsOwn(r)
    BY DEF RegistrationInvariant
  <2>3. (OwnsAll(r) => OwnsAll(r)') /\ (OwnsBefore(r) => OwnsBefore(r)')
    BY <2>1 DEF OwnsAll, OwnsBefore
  <2>. QED BY <2>2, <2>3 DEF HoldsItsOwn
<1>. QED BY <1>1 DEF RegistrationInvariant

LEMMA KeysStay ==
  ASSUME RegistrationInvariant, ownerIndex \subseteq ownerIndex', keyed' = keyed
  PROVE  KeysAreOwned'
BY IdsStay DEF RegistrationInvariant, KeysAreOwned

\* A script goes to a phase in which it need not hold anything.
LEMMA RegistrationGoesOn ==
  ASSUME RegistrationInvariant, NEW s \in Registering!Scripts, NEW name,
         ownerIndex \subseteq ownerIndex',
         stage' = [stage EXCEPT ![s] = name],
         position' = position, ids' = ids, keyed' = keyed, manifest' = manifest,
         ended' = ended,
         \/ name = "stopped"
         \/ s \notin ended /\ stage[s] \in {"find", "register"} /\ name \in {"register", "record"}
  PROVE  RegistrationInvariant'
<1>1. RegistrationTypeOK'
  BY DEF RegistrationInvariant, RegistrationTypeOK
<1>2. \A r \in Registering!Scripts \ {s} : stage'[r] = stage[r]
  OBVIOUS
<1>3. HoldsItsOwn(s)'
  <2>1. stage'[s] = name
    BY DEF RegistrationInvariant, RegistrationTypeOK
  <2>2. HoldsItsOwn(s)
    BY DEF RegistrationInvariant
  <2>3. \A i : Owns(s, i) => Owns(s, i)'
    BY IdsStay DEF Owns
  <2>4. (OwnsAll(s) => OwnsAll(s)') /\ (OwnsBefore(s) => OwnsBefore(s)')
    BY <2>3 DEF OwnsAll, OwnsBefore
  <2>. QED BY <2>1, <2>2, <2>4 DEF HoldsItsOwn
<1>. QED BY <1>1, <1>2, <1>3, KeysStay, RegistrationKept

\* The two ways to the next wallet.
LEMMA NextWalletIs ==
  ASSUME RegistrationTypeOK, NEW s \in Registering!Scripts, NEW name, NEW following,
         Registering!NextWallet(s, name, following)
  PROVE  \/ /\ stage' = [stage EXCEPT ![s] = name]
            /\ position' = [position EXCEPT ![s] = position[s] + 1]
         \/ /\ stage' = [stage EXCEPT ![s] = following]
            /\ position' = [position EXCEPT ![s] = 1]
            /\ \A i \in DOMAIN WalletsOf[s] : i <= position[s]
<1>1. WalletsOf[s] \in Seq(Owners)
  BY RegistrationScriptsAssumption DEF Registering!ScriptsAssumption
<1>2. position[s] \in Nat
  BY DEF RegistrationTypeOK
<1>. QED BY <1>1, <1>2 DEF Registering!NextWallet, Registering!GoTo

\* A wallet is through: found or recorded, and owned if the script is admin.
LEMMA WalletThrough ==
  ASSUME RegistrationInvariant, NEW s \in Registering!Scripts,
         stage[s] \in {"find", "record"}, Registering!Registered(s),
         ownerIndex' = ownerIndex, keyed' = keyed, manifest' = manifest, ended' = ended,
         DOMAIN ids' = DOMAIN ids, DOMAIN ids'[s] = DOMAIN ids[s],
         \A r \in Registering!Scripts \ {s} : ids'[r] = ids[r],
         s = "admin" => \A i \in DOMAIN WalletsOf[s] : i <= position[s] => Owns(s, i)'
  PROVE  RegistrationInvariant'
<1>. DEFINE following == IF s = "demo" THEN "key" ELSE "end"
<1>0. RegistrationTypeOK
  BY DEF RegistrationInvariant
<1>1. s \notin ended
  BY DEF RegistrationInvariant, HoldsItsOwn
<1>2. \/ /\ stage' = [stage EXCEPT ![s] = "find"]
         /\ position' = [position EXCEPT ![s] = position[s] + 1]
      \/ /\ stage' = [stage EXCEPT ![s] = following]
         /\ position' = [position EXCEPT ![s] = 1]
         /\ \A i \in DOMAIN WalletsOf[s] : i <= position[s]
  BY <1>0, NextWalletIs DEF Registering!Registered
<1>3. position[s] \in Nat \ {0} /\ WalletsOf[s] \in Seq(Owners)
  BY <1>0, RegistrationScriptsAssumption DEF RegistrationTypeOK, Registering!ScriptsAssumption
<1>4. position' \in [Registering!Scripts -> Nat \ {0}]
  BY <1>0, <1>2, <1>3 DEF RegistrationTypeOK
<1>5. RegistrationTypeOK'
  <2>1. DOMAIN stage' = Registering!Scripts /\ DOMAIN ids' = Registering!Scripts
    BY <1>0, <1>2 DEF RegistrationTypeOK
  <2>2. \A r \in Registering!Scripts : DOMAIN ids'[r] = Registering!WalletSet(r)
    BY <1>0 DEF RegistrationTypeOK
  <2>. QED BY <1>0, <1>4, <2>1, <2>2 DEF RegistrationTypeOK, Registering!WalletSet
<1>6. HoldsItsOwn(s)'
  <2>1. CASE stage'[s] = "find" /\ position'[s] = position[s] + 1
    <3>1. s = "admin" => OwnsBefore(s)'
      BY <1>3, <2>1 DEF OwnsBefore
    <3>. QED BY <1>1, <2>1, <3>1 DEF HoldsItsOwn
  <2>2. CASE /\ stage'[s] = following /\ position'[s] = 1
             /\ \A i \in DOMAIN WalletsOf[s] : i <= position[s]
    <3>1. s = "admin" => OwnsAll(s)'
      BY <2>2 DEF OwnsAll
    <3>2. OwnsBefore(s)'
      BY <1>3, <2>2 DEF OwnsBefore
    <3>3. s = "setup" \/ s = "demo" \/ s = "admin"
      BY DEF Registering!Scripts
    <3>. QED BY <1>1, <2>2, <3>1, <3>2, <3>3 DEF HoldsItsOwn
  <2>3. stage'[s] = "find" \/ stage'[s] = following
    BY <1>0, <1>2 DEF RegistrationTypeOK
  <2>. QED BY <1>0, <1>2, <2>1, <2>2 DEF RegistrationTypeOK
<1>7. \A r \in Registering!Scripts \ {s} :
        stage'[r] = stage[r] /\ position'[r] = position[r] /\ ids'[r] = ids[r]
  BY <1>0, <1>2 DEF RegistrationTypeOK
<1>. QED BY <1>5, <1>6, <1>7, KeysStay, RegistrationKept

\* A script that writes an owner's id down for the current wallet owns what it
\* held before and this one.
LEMMA Known ==
  ASSUME RegistrationInvariant, NEW s \in Registering!Scripts,
         NEW id \in Registering!IdsOf(Registering!Wallet(s)),
         Registering!Knows(s, id), OwnsBefore(s), ownerIndex' = ownerIndex
  PROVE  \A i \in DOMAIN WalletsOf[s] : i <= position[s] => Owns(s, i)'
<1>1. position[s] \in Nat /\ WalletsOf[s] \in Seq(Owners)
  BY RegistrationScriptsAssumption
  DEF RegistrationInvariant, RegistrationTypeOK, Registering!ScriptsAssumption
<1>2. /\ ids'[s] = [ids[s] EXCEPT ![Registering!Wallet(s)] = id]
      /\ DOMAIN ids[s] = Registering!WalletSet(s)
  BY DEF Registering!Knows, RegistrationInvariant, RegistrationTypeOK
<1>3. ASSUME NEW i \in DOMAIN WalletsOf[s], i <= position[s] PROVE Owns(s, i)'
  <2>1. WalletsOf[s][i] \in DOMAIN ids[s]
    BY <1>2 DEF Registering!WalletSet, Registering!Range
  <2>2. \A w : Registering!IdsOf(w)' = Registering!IdsOf(w)
    BY DEF Registering!IdsOf, Registering!IndexBucketOf
  <2>3. CASE WalletsOf[s][i] = Registering!Wallet(s)
    BY <1>2, <2>1, <2>2, <2>3 DEF Owns
  <2>4. CASE WalletsOf[s][i] # Registering!Wallet(s)
    <3>1. i # position[s]
      BY <2>4 DEF Registering!Wallet
    <3>2. Owns(s, i)
      BY <1>1, <1>3, <3>1 DEF OwnsBefore
    <3>. QED BY <1>2, <2>1, <2>2, <2>4, <3>2 DEF Owns
  <2>. QED BY <2>3, <2>4
<1>. QED BY <1>3

LEMMA Started ==
  ASSUME RegistrationInvariant, NEW s \in Registering!Scripts, Registering!Start(s)
  PROVE  RegistrationInvariant'
<1>. DEFINE held == IF s = "setup" THEN manifest ELSE Registering!Unknown(s)
<1>0. RegistrationTypeOK
  BY DEF RegistrationInvariant
<1>1. /\ stage' = [stage EXCEPT ![s] = "find"] /\ position' = [position EXCEPT ![s] = 1]
      /\ ids' = [ids EXCEPT ![s] = held]
      /\ ownerIndex' = ownerIndex /\ keyed' = keyed /\ manifest' = manifest /\ ended' = ended
      /\ s \notin ended
  BY DEF Registering!Start, Registering!GoTo, Registering!directoryVars, Registering!participantVars
<1>2. DOMAIN held = Registering!WalletSet(s)
  BY <1>0 DEF RegistrationTypeOK, Registering!Unknown
<1>. HIDE DEF held
<1>3. RegistrationTypeOK'
  <2>1. \A r \in Registering!Scripts : DOMAIN ids'[r] = Registering!WalletSet(r)
    BY <1>0, <1>1, <1>2 DEF RegistrationTypeOK
  <2>2. position' \in [Registering!Scripts -> Nat \ {0}]
    BY <1>0, <1>1 DEF RegistrationTypeOK
  <2>. QED BY <1>0, <1>1, <2>1, <2>2 DEF RegistrationTypeOK, Registering!WalletSet
<1>4. HoldsItsOwn(s)'
  <2>1. stage'[s] = "find" /\ position'[s] = 1
    BY <1>0, <1>1 DEF RegistrationTypeOK
  <2>2. DOMAIN WalletsOf[s] \subseteq Nat \ {0}
    BY RegistrationScriptsAssumption DEF Registering!ScriptsAssumption
  <2>3. OwnsBefore(s)'
    BY <2>1, <2>2 DEF OwnsBefore
  <2>. QED BY <1>1, <2>1, <2>3 DEF HoldsItsOwn
<1>5. \A r \in Registering!Scripts \ {s} :
        stage'[r] = stage[r] /\ position'[r] = position[r] /\ ids'[r] = ids[r]
  BY <1>0, <1>1 DEF RegistrationTypeOK
<1>. QED BY <1>1, <1>3, <1>4, <1>5, KeysStay, RegistrationKept

LEMMA ManifestRead ==
  ASSUME RegistrationInvariant, Registering!FindInManifest
  PROVE  RegistrationInvariant'
<1>1. /\ "setup" \in Registering!Scripts /\ stage["setup"] = "find"
      /\ ownerIndex' = ownerIndex /\ ids' = ids /\ keyed' = keyed
      /\ manifest' = manifest /\ ended' = ended
  BY DEF Registering!FindInManifest, Registering!At, Registering!Scripts,
    Registering!directoryVars, Registering!participantVars
<1>2. CASE Registering!Registered("setup")
  BY <1>1, <1>2, WalletThrough
<1>3. CASE Registering!Predicts("setup")
  <2>1. stage' = [stage EXCEPT !["setup"] = "register"] /\ position' = position
    BY <1>3 DEF Registering!Predicts, Registering!GoTo
  <2>2. "setup" \notin ended
    BY <1>1 DEF RegistrationInvariant, HoldsItsOwn
  <2>. QED BY <1>1, <2>1, <2>2, RegistrationGoesOn
<1>. QED BY <1>2, <1>3 DEF Registering!FindInManifest

LEMMA FoundByOwner ==
  ASSUME RegistrationInvariant, NEW s \in Registering!Scripts, Registering!FindByOwner(s)
  PROVE  RegistrationInvariant'
<1>1. /\ stage[s] = "find" /\ s # "setup" /\ s \notin ended
      /\ ownerIndex' = ownerIndex /\ keyed' = keyed /\ manifest' = manifest /\ ended' = ended
  BY DEF Registering!FindByOwner, Registering!At, Registering!directoryVars,
    Registering!participantVars, RegistrationInvariant, HoldsItsOwn
<1>2. ASSUME NEW id \in Registering!IdsOf(Registering!Wallet(s)),
             Registering!Knows(s, id), Registering!Registered(s)
      PROVE  RegistrationInvariant'
  <2>1. /\ DOMAIN ids' = DOMAIN ids /\ DOMAIN ids'[s] = DOMAIN ids[s]
        /\ \A r \in Registering!Scripts \ {s} : ids'[r] = ids[r]
    BY <1>2 DEF Registering!Knows, RegistrationInvariant, RegistrationTypeOK
  <2>2. s = "admin" => OwnsBefore(s)
    BY <1>1 DEF RegistrationInvariant, HoldsItsOwn
  <2>3. s = "admin" => \A i \in DOMAIN WalletsOf[s] : i <= position[s] => Owns(s, i)'
    BY <1>1, <1>2, <2>2, Known
  <2>. QED BY <1>1, <1>2, <2>1, <2>3, WalletThrough
<1>3. CASE Registering!Predicts(s) /\ UNCHANGED ids
  <2>1. stage' = [stage EXCEPT ![s] = "register"] /\ position' = position
    BY <1>3 DEF Registering!Predicts, Registering!GoTo
  <2>. QED BY <1>1, <1>3, <2>1, RegistrationGoesOn
<1>. QED BY <1>2, <1>3 DEF Registering!FindByOwner

LEMMA IndexGrows ==
  ASSUME NEW w, NEW b, NEW i, Registering!InitializeParticipant(w, b, i)
  PROVE  ownerIndex \subseteq ownerIndex'
BY DEF Registering!InitializeParticipant

LEMMA RegistrationSent ==
  ASSUME RegistrationInvariant, NEW s \in Registering!Scripts, Registering!Register(s)
  PROVE  RegistrationInvariant'
<1>1. ownerIndex \subseteq ownerIndex'
  BY IndexGrows DEF Registering!Register, Registering!Submits
<1>2. /\ stage[s] = "register" /\ stage' = [stage EXCEPT ![s] = "record"]
      /\ position' = position /\ ids' = ids /\ keyed' = keyed /\ manifest' = manifest
      /\ ended' = ended /\ s \notin ended
  BY DEF Registering!Register, Registering!At, Registering!GoTo, RegistrationInvariant, HoldsItsOwn
<1>. QED BY <1>1, <1>2, RegistrationGoesOn

LEMMA RegistrationStopped ==
  ASSUME RegistrationInvariant, NEW s \in Registering!Scripts, Registering!Stop(s)
  PROVE  RegistrationInvariant'
<1>1. /\ stage' = [stage EXCEPT ![s] = "stopped"]
      /\ position' = position /\ ids' = ids /\ keyed' = keyed /\ manifest' = manifest
      /\ ended' = ended /\ ownerIndex' = ownerIndex
  BY DEF Registering!Stop, Registering!GoTo, Registering!directoryVars, Registering!participantVars
<1>. QED BY <1>1, RegistrationGoesOn

LEMMA Recorded ==
  ASSUME RegistrationInvariant, NEW s \in Registering!Scripts, Registering!Record(s)
  PROVE  RegistrationInvariant'
<1>1. /\ stage[s] = "record" /\ Registering!Registered(s)
      /\ ownerIndex' = ownerIndex /\ keyed' = keyed /\ manifest' = manifest /\ ended' = ended
  BY DEF Registering!Record, Registering!At, Registering!directoryVars, Registering!participantVars
<1>2. PICK id \in Registering!Recorded(s) : Registering!Knows(s, id)
  BY DEF Registering!Record
<1>3. /\ DOMAIN ids' = DOMAIN ids /\ DOMAIN ids'[s] = DOMAIN ids[s]
      /\ \A r \in Registering!Scripts \ {s} : ids'[r] = ids[r]
  BY <1>2 DEF Registering!Knows, RegistrationInvariant, RegistrationTypeOK
<1>4. ASSUME s = "admin"
      PROVE  \A i \in DOMAIN WalletsOf[s] : i <= position[s] => Owns(s, i)'
  <2>1. Registering!Recorded(s) = Registering!IdsOf(Registering!Wallet(s))
    BY <1>4 DEF Registering!Recorded
  <2>2. OwnsBefore(s)
    BY <1>1, <1>4 DEF RegistrationInvariant, HoldsItsOwn
  <2>. QED BY <1>1, <1>2, <2>1, <2>2, Known
<1>. QED BY <1>1, <1>3, <1>4, WalletThrough

LEMMA Finished ==
  ASSUME RegistrationInvariant, NEW s \in Registering!Scripts, Registering!Finish(s)
  PROVE  RegistrationInvariant'
<1>0. RegistrationTypeOK /\ HoldsItsOwn(s)
  BY DEF RegistrationInvariant
<1>1. /\ stage[s] = "end" /\ stage' = [stage EXCEPT ![s] = "stopped"]
      /\ position' = position /\ ids' = ids /\ keyed' = keyed
      /\ manifest' = IF s = "setup" THEN ids["setup"] ELSE manifest
      /\ ended' = ended \cup {s} /\ ownerIndex' = ownerIndex
  BY DEF Registering!Finish, Registering!At, Registering!GoTo, Registering!directoryVars,
    Registering!participantVars
<1>2. DOMAIN manifest' = Registering!WalletSet("setup")
  BY <1>0, <1>1 DEF RegistrationTypeOK
<1>3. RegistrationTypeOK'
  BY <1>0, <1>1, <1>2 DEF RegistrationTypeOK, Registering!WalletSet
<1>4. HoldsItsOwn(s)'
  <2>1. s # "setup" => OwnsAll(s)
    BY <1>0, <1>1 DEF HoldsItsOwn
  <2>2. \A i : Owns(s, i) => Owns(s, i)'
    BY <1>1, IdsStay DEF Owns
  <2>3. s # "setup" => OwnsAll(s)'
    BY <2>1, <2>2 DEF OwnsAll
  <2>4. stage'[s] = "stopped"
    BY <1>0, <1>1 DEF RegistrationTypeOK
  <2>. QED BY <2>3, <2>4 DEF HoldsItsOwn
<1>5. \A r \in Registering!Scripts \ {s} : stage'[r] = stage[r]
  BY <1>1
<1>. QED BY <1>1, <1>3, <1>4, <1>5, KeysStay, RegistrationKept

\* The key that demo registers, or finds, says whose the id is.
LEMMA KeyRegistered ==
  ASSUME RegistrationInvariant, Registering!RegisterKey
  PROVE  RegistrationInvariant'
<1>. DEFINE w == Registering!Wallet("demo")
            id == ids["demo"][w]
<1>0. RegistrationTypeOK /\ KeysAreOwned /\ HoldsItsOwn("demo") /\ "demo" \in Registering!Scripts
  BY DEF RegistrationInvariant, Registering!Scripts
<1>1. /\ stage["demo"] = "key" /\ Registering!NextWallet("demo", "key", "end")
      /\ ids' = ids /\ manifest' = manifest /\ ended' = ended /\ ownerIndex' = ownerIndex
  BY DEF Registering!RegisterKey, Registering!At, Registering!directoryVars,
    Registering!participantVars
<1>2. "demo" \notin ended /\ OwnsBefore("demo")
  BY <1>0, <1>1 DEF HoldsItsOwn
<1>3. \/ id \in DOMAIN keyed /\ keyed[id] = w /\ keyed' = keyed
      \/ /\ id \in Registering!IdsOf(w)
         /\ keyed' = [i \in DOMAIN keyed \cup {id} |-> IF i = id THEN w ELSE keyed[i]]
  BY DEF Registering!RegisterKey, Registering!KeyProves
<1>4. id \in Registering!IdsOf(w)
  BY <1>0, <1>3 DEF KeysAreOwned
<1>5. \A v : Registering!IdsOf(v)' = Registering!IdsOf(v)
  BY <1>1 DEF Registering!IdsOf, Registering!IndexBucketOf
<1>6. KeysAreOwned'
  <2>. HIDE DEF w, id
  <2>. QED BY <1>0, <1>3, <1>4, <1>5 DEF KeysAreOwned
<1>7. position["demo"] \in Nat \ {0} /\ WalletsOf["demo"] \in Seq(Owners)
  BY <1>0, RegistrationScriptsAssumption DEF RegistrationTypeOK, Registering!ScriptsAssumption
<1>8. \A i \in DOMAIN WalletsOf["demo"] : i <= position["demo"] => Owns("demo", i)'
  <2>1. \A i : Owns("demo", i) => Owns("demo", i)'
    BY <1>1, <1>5 DEF Owns
  <2>2. ASSUME NEW i \in DOMAIN WalletsOf["demo"], i = position["demo"] PROVE Owns("demo", i)'
    BY <1>1, <1>4, <1>5, <2>2 DEF Owns, Registering!Wallet
  <2>. QED BY <1>2, <1>7, <2>1, <2>2 DEF OwnsBefore
<1>9. \/ /\ stage' = [stage EXCEPT !["demo"] = "key"]
         /\ position' = [position EXCEPT !["demo"] = position["demo"] + 1]
      \/ /\ stage' = [stage EXCEPT !["demo"] = "end"]
         /\ position' = [position EXCEPT !["demo"] = 1]
         /\ \A i \in DOMAIN WalletsOf["demo"] : i <= position["demo"]
  BY <1>0, <1>1, NextWalletIs
<1>10. position' \in [Registering!Scripts -> Nat \ {0}]
  BY <1>0, <1>7, <1>9 DEF RegistrationTypeOK
<1>11. RegistrationTypeOK'
  BY <1>0, <1>1, <1>9, <1>10 DEF RegistrationTypeOK, Registering!WalletSet
<1>12. HoldsItsOwn("demo")'
  <2>1. CASE stage'["demo"] = "key" /\ position'["demo"] = position["demo"] + 1
    <3>1. OwnsBefore("demo")'
      BY <1>7, <1>8, <2>1 DEF OwnsBefore
    <3>. QED BY <1>1, <1>2, <2>1, <3>1 DEF HoldsItsOwn
  <2>2. CASE /\ stage'["demo"] = "end"
             /\ \A i \in DOMAIN WalletsOf["demo"] : i <= position["demo"]
    <3>1. OwnsAll("demo")'
      BY <1>8, <2>2 DEF OwnsAll
    <3>. QED BY <1>1, <1>2, <2>2, <3>1 DEF HoldsItsOwn
  <2>. QED BY <1>0, <1>9, <2>1, <2>2 DEF RegistrationTypeOK
<1>13. \A r \in Registering!Scripts \ {"demo"} :
         stage'[r] = stage[r] /\ position'[r] = position[r]
  BY <1>0, <1>9 DEF RegistrationTypeOK
<1>. QED BY <1>0, <1>1, <1>6, <1>11, <1>12, <1>13, RegistrationKept

LEMMA RegistrationSteps ==
  ASSUME RegistrationInvariant, Registering!RegistrationNext
  PROVE  RegistrationInvariant'
<1>1. ASSUME NEW s \in Registering!Scripts, Registering!Step(s) \/ Registering!Kill(s)
      PROVE  RegistrationInvariant'
  BY <1>1, Started, FoundByOwner, RegistrationSent, RegistrationStopped, Recorded, Finished
  DEF Registering!Step, Registering!RegisterRefused, Registering!Kill
<1>2. CASE Registering!KeyRefused
  <2>1. "demo" \in Registering!Scripts
    BY DEF Registering!Scripts
  <2>. QED BY <1>2, <2>1, RegistrationStopped DEF Registering!KeyRefused
<1>3. CASE Registering!RegisterOther
  <2>1. ownerIndex \subseteq ownerIndex'
    BY <1>3, IndexGrows DEF Registering!RegisterOther
  <2>2. /\ stage' = stage /\ position' = position /\ ids' = ids
        /\ keyed' = keyed /\ manifest' = manifest /\ ended' = ended
    BY <1>3 DEF Registering!RegisterOther, Registering!scriptVars, Registering!ownVars
  <2>3. RegistrationTypeOK'
    BY <2>2 DEF RegistrationInvariant, RegistrationTypeOK, Registering!WalletSet
  <2>4. \A s : \A i : Owns(s, i) => Owns(s, i)'
    BY <2>1, <2>2, IdsStay DEF Owns
  <2>5. ASSUME NEW s \in Registering!Scripts PROVE HoldsItsOwn(s)'
    <3>1. (OwnsAll(s) => OwnsAll(s)') /\ (OwnsBefore(s) => OwnsBefore(s)')
      BY <2>2, <2>4 DEF OwnsAll, OwnsBefore
    <3>. QED BY <2>2, <3>1 DEF RegistrationInvariant, HoldsItsOwn
  <2>. QED BY <2>1, <2>2, <2>3, <2>5, KeysStay DEF RegistrationInvariant
<1>. QED BY <1>1, <1>2, <1>3, ManifestRead, KeyRegistered DEF Registering!RegistrationNext

LEMMA RegistrationStarts ==
  ASSUME Registering!RegistrationInit
  PROVE  RegistrationInvariant
<1>1. RegistrationTypeOK
  BY DEF Registering!RegistrationInit, RegistrationTypeOK, Registering!Unknown
<1>2. KeysAreOwned
  BY DEF Registering!RegistrationInit, KeysAreOwned
<1>3. \A s \in Registering!Scripts : HoldsItsOwn(s)
  BY DEF Registering!RegistrationInit, HoldsItsOwn
<1>. QED BY <1>1, <1>2, <1>3 DEF RegistrationInvariant

-----------------------------------------------------------------------------
(***************************************************************************)
(* The three groups.  Deployment and bootstrap share the configuration and *)
(* the registry; whichever runs, the other rests at its start.             *)
(***************************************************************************)
SetupInvariant ==
  /\ group \in {"deployment", "registration", "bootstrap"}
  /\ DeploymentInvariant
  /\ BootstrapTypeOK
  /\ IF group = "bootstrap" THEN BootstrapProgress
     ELSE \A p \in Processes : progress[p] = "config"
  /\ RegistrationInvariant

LEMMA SetupStarts ==
  ASSUME SetupInit
  PROVE  SetupInvariant
<1>1. group \in {"deployment", "registration", "bootstrap"}
  BY DEF SetupInit
<1>2. DeploymentInvariant
  BY DeploymentStarts DEF SetupInit
<1>3. BootstrapTypeOK /\ \A p \in Processes : progress[p] = "config"
  BY DEF SetupInit, Bootstrapping!BootstrapInit, BootstrapTypeOK, Bootstrapping!Phases
<1>4. BootstrapProgress
  <2>1. registry.tokens = <<>> /\ ~config.present
    BY DEF SetupInit, DeploymentInit, AdminInit
  <2>2. Range(<<>>) = {}
    BY DEF Range
  <2>. QED BY <1>3, <2>1, <2>2 DEF BootstrapProgress, Reached
<1>5. RegistrationInvariant
  BY RegistrationStarts DEF SetupInit
<1>. QED BY <1>1, <1>2, <1>3, <1>4, <1>5 DEF SetupInvariant

LEMMA RegistrationRests ==
  ASSUME RegistrationInvariant, UNCHANGED registrationOnly
  PROVE  RegistrationInvariant'
BY DEF RegistrationInvariant, RegistrationTypeOK, KeysAreOwned, HoldsItsOwn, OwnsAll,
  OwnsBefore, Owns, registrationOnly, Registering!IdsOf, Registering!IndexBucketOf,
  Registering!WalletSet

LEMMA DeploymentRests ==
  ASSUME DeploymentInvariant, UNCHANGED deploymentVars
  PROVE  DeploymentInvariant'
BY ScriptsRest, AdminStutters DEF DeploymentInvariant, deploymentVars

LEMMA BootstrapRests ==
  ASSUME BootstrapTypeOK, UNCHANGED bootstrapOnly
  PROVE  BootstrapTypeOK' /\ progress' = progress /\ reserve' = reserve
BY DEF BootstrapTypeOK, bootstrapOnly

\* A bootstrap's step is a transaction of the program, or none.
LEMMA BootstrapIsAdminStep ==
  ASSUME BootstrapInvariant, Bootstrapping!BootstrapNext
  PROVE  AdminStep
<1>0. AdminTypeOK
  BY DEF BootstrapInvariant
<1>1. CASE UNCHANGED adminVars
  BY <1>0, <1>1, AdminStutters
<1>2. CASE Bootstrapping!Repair
  BY <1>2, RegistryCreated DEF Bootstrapping!Repair
<1>3. ASSUME NEW p \in Processes, Bootstrapping!Look(p) \/ Bootstrapping!Refused(p) \/ Bootstrapping!Kill(p)
      PROVE  UNCHANGED adminVars
  BY <1>3 DEF Bootstrapping!Look, Bootstrapping!Refused, Bootstrapping!Kill,
    Bootstrapping!Restart, Bootstrapping!adminVars, adminVars
<1>4. ASSUME NEW p \in Processes, Bootstrapping!Land(p)
      PROVE  AdminStep
  <2>1. Bootstrapping!Execute(progress[p])
    BY <1>4 DEF Bootstrapping!Land
  <2>2. CASE Bootstrapping!CreateReserve
    BY <1>0, <2>2, AdminStutters DEF Bootstrapping!CreateReserve, Bootstrapping!adminVars, adminVars
  <2>. QED BY <2>1, <2>2, ConfigCreated, RegistryCreated, TokenCreated DEF Bootstrapping!Execute
<1>. QED BY <1>1, <1>2, <1>3, <1>4 DEF Bootstrapping!BootstrapNext

LEMMA SetupSteps ==
  ASSUME SetupInvariant, [SetupNext]_setupVars
  PROVE  SetupInvariant'
<1>. USE DEF SetupInvariant
<1>1. CASE DeploymentRuns /\ DeploymentNext
  <2>1. /\ group = "deployment" /\ group' = group
        /\ UNCHANGED registrationOnly /\ UNCHANGED bootstrapOnly
    BY <1>1 DEF DeploymentRuns, Running
  <2>. QED BY <1>1, <2>1, DeploymentSteps, RegistrationRests, BootstrapRests
<1>2. CASE RegistrationRuns /\ Registering!RegistrationNext
  <2>1. /\ group = "registration" /\ group' = group
        /\ UNCHANGED deploymentVars /\ UNCHANGED bootstrapOnly
    BY <1>2 DEF RegistrationRuns, Running
  <2>. QED BY <1>2, <2>1, DeploymentRests, RegistrationSteps, BootstrapRests
<1>3. CASE BootstrapRuns /\ Bootstrapping!BootstrapNext
  <2>1. /\ group = "bootstrap" /\ group' = group
        /\ UNCHANGED scriptVars /\ UNCHANGED registrationOnly
    BY <1>3 DEF BootstrapRuns, Running
  <2>2. BootstrapInvariant
    BY <2>1 DEF BootstrapInvariant, DeploymentInvariant
  <2>3. BootstrapInvariant'
    BY <1>3, <2>2, BootstrapSteps
  <2>4. DeploymentInvariant'
    BY <1>3, <2>1, <2>2, BootstrapIsAdminStep, ScriptsRest
  <2>. QED BY <2>1, <2>3, <2>4, RegistrationRests DEF BootstrapInvariant
<1>4. CASE UNCHANGED setupVars
  <2>1. /\ group' = group /\ UNCHANGED deploymentVars /\ UNCHANGED registrationOnly
        /\ UNCHANGED bootstrapOnly /\ config' = config /\ registry' = registry
    BY <1>4 DEF setupVars, deploymentVars, adminVars
  <2>2. DeploymentInvariant' /\ RegistrationInvariant'
    BY <2>1, DeploymentRests, RegistrationRests
  <2>3. BootstrapTypeOK' /\ progress' = progress /\ reserve' = reserve
    BY <2>1, BootstrapRests
  <2>4. BootstrapProgress => BootstrapProgress'
    BY <2>1, <2>3 DEF BootstrapProgress, Reached, PlainToken, WrapperToken
  <2>. QED BY <2>1, <2>2, <2>3, <2>4
<1>. QED BY <1>1, <1>2, <1>3, <1>4 DEF SetupNext

\* The strengthening holds, whoever of the scripts runs.
THEOREM SetupInvariance == SetupSpec => []SetupInvariant
<1>1. SetupInit => SetupInvariant
  BY SetupStarts
<1>2. SetupInvariant /\ [SetupNext]_setupVars => SetupInvariant'
  BY SetupSteps
<1>. QED BY <1>1, <1>2, PTL DEF SetupSpec

\* A deployment script that ended has the tokens it asked for under the id and
\* mint it asked for, and wrote down fee accounts that exist; plain tokens have
\* mints of their own; a bootstrap that ended finds everything, whoever created
\* it (initialize-program.ts, devnet-admin.cjs, yield-bearing-demo.ts).
THEOREM AskedIsThere == SetupSpec => []WhatWasAskedIsThere
<1>1. ASSUME SetupInvariant PROVE WhatWasAskedIsThere
  <2>. USE <1>1 DEF SetupInvariant
  <2>1. WhatWasAskedIsRegistered
    BY DEF DeploymentInvariant, Through, WhatWasAskedIsRegistered, finished, At, Late,
      HasAll, Has
  <2>2. WrittenAccountsExist /\ PlainMintsAreDistinct
    BY DEF DeploymentInvariant, RegistryIsDistinct
  <2>3. Bootstrapping!BootstrapIsComplete
    BY DEF BootstrapProgress, Reached, PlainToken, WrapperToken,
      Bootstrapping!BootstrapIsComplete, Bootstrapping!Range, Range
  <2>. QED BY <2>1, <2>2, <2>3 DEF WhatWasAskedIsThere
<1>. QED BY <1>1, SetupInvariance, PTL

\* demo and admin act under the ids of their own wallets once they have ended,
\* although others register between their reading the next id and their
\* registration (ryvo-protocol-demo.ts 3680-3815, devnet-admin.cjs 356-404).
THEOREM OwnIdsAreUsed == SetupSpec => []ScriptsActAsTheirOwners
<1>1. ASSUME SetupInvariant PROVE ScriptsActAsTheirOwners
  <2>1. ASSUME NEW s \in ended \ {"setup"}, NEW w \in Registering!WalletSet(s)
        PROVE  ids[s][w] \in Registering!IdsOf(w)
    <3>1. PICK i \in DOMAIN WalletsOf[s] : w = WalletsOf[s][i]
      BY DEF Registering!WalletSet, Registering!Range
    <3>2. OwnsAll(s)
      BY <1>1 DEF SetupInvariant, RegistrationInvariant, RegistrationTypeOK, HoldsItsOwn
    <3>. QED BY <3>1, <3>2 DEF OwnsAll, Owns
  <2>. QED BY <2>1 DEF ScriptsActAsTheirOwners, Registering!ScriptsActAsTheirOwners
<1>. QED BY <1>1, SetupInvariance, PTL

-----------------------------------------------------------------------------
(***************************************************************************)
(* Handing over.                                                           *)
(***************************************************************************)
LEMMA TransactionsPass ==
  ASSUME AdminTypeOK, NEW w, NEW v, NEW r, NEW id, NEW mint,
         \/ Initialize(w, v, r) \/ UpdateFeeRecipient(w, v) \/ NominateConfigAuthority(w, v)
         \/ AcceptConfigAuthority(w) \/ InitializeTokenRegistry(w)
         \/ UpdateRegistryAuthority(w, v) \/ AcceptRegistryAuthority(w)
         \/ RegisterToken(w, id, mint) \/ RegisterYieldBearingToken(w, id, mint)
  PROVE  AuthoritiesPass
<1>1. CASE /\ registry' = registry
           /\ \/ Initialize(w, v, r) \/ UpdateFeeRecipient(w, v)
              \/ NominateConfigAuthority(w, v) \/ AcceptConfigAuthority(w)
  BY <1>1 DEF Initialize, UpdateFeeRecipient, NominateConfigAuthority,
    AcceptConfigAuthority, MayAccept, AdminTypeOK, AuthoritiesPass
<1>2. CASE /\ config' = config
           /\ \/ InitializeTokenRegistry(w) \/ UpdateRegistryAuthority(w, v)
              \/ AcceptRegistryAuthority(w)
  BY <1>2 DEF InitializeTokenRegistry, UpdateRegistryAuthority, AcceptRegistryAuthority,
    MayAccept, AdminTypeOK, AuthoritiesPass
<1>3. ASSUME NEW e, PushToken(e) PROVE AuthoritiesPass
  BY <1>3 DEF PushToken, AdminTypeOK, AuthoritiesPass
<1>. QED BY <1>1, <1>2, <1>3
  DEF Initialize, UpdateFeeRecipient, NominateConfigAuthority, AcceptConfigAuthority,
    InitializeTokenRegistry, UpdateRegistryAuthority, AcceptRegistryAuthority,
    RegisterToken, RegisterYieldBearingToken

LEMMA DeploymentPasses ==
  ASSUME AdminTypeOK, DeploymentNext
  PROVE  AuthoritiesPass
<1>1. CASE UNCHANGED adminVars
  BY <1>1, AdminStutters DEF AdminStep
<1>2. CASE Govern
  BY <1>2, Governed DEF AdminStep
<1>3. ASSUME NEW s, EnsureToken(s) PROVE AuthoritiesPass
  BY <1>1, <1>3, TransactionsPass DEF EnsureToken, Submit
<1>4. ASSUME EnsureConfig \/ EnsureTokenRegistry \/ EnsureFeeRecipient PROVE AuthoritiesPass
  BY <1>1, <1>4, TransactionsPass DEF EnsureConfig, EnsureTokenRegistry, EnsureFeeRecipient, Submit
<1>5. ASSUME NEW s, ReadRegistry(s) \/ ReadConfig(s) \/ WriteConfig(s) \/ EnsureFeeAccount
      PROVE  UNCHANGED adminVars
  BY <1>5 DEF ReadRegistry, ReadConfig, WriteConfig, EnsureFeeAccount
<1>. QED BY <1>1, <1>2, <1>3, <1>4, <1>5
  DEF DeploymentNext, Step, ScriptStep, DeployStep, Handover

\* An authority passes only to the wallet that is named at that moment: a
\* nominee who was replaced before accepting can no longer take over
\* (accept_config_authority, accept_registry_authority).
THEOREM Handovers == SetupSpec => OnlyTheLastNomineeTakesOver
<1>1. ASSUME SetupInvariant, [SetupNext]_setupVars PROVE AuthoritiesPass
  <2>. USE <1>1 DEF SetupInvariant
  <2>1. AdminTypeOK
    BY DEF DeploymentInvariant
  <2>2. CASE UNCHANGED adminVars
    BY <2>1, <2>2, AdminStutters DEF AdminStep
  <2>3. CASE DeploymentNext
    BY <2>1, <2>3, DeploymentPasses
  <2>4. CASE BootstrapRuns /\ Bootstrapping!BootstrapNext
    <3>1. BootstrapInvariant
      BY <2>1, <2>4 DEF BootstrapInvariant, BootstrapRuns, Running
    <3>. QED BY <2>4, <3>1, BootstrapIsAdminStep DEF AdminStep
  <2>. QED BY <2>2, <2>3, <2>4
    DEF SetupNext, RegistrationRuns, Running, setupVars, deploymentVars, adminVars
<1>2. AuthoritiesPass =>
        /\ config.present /\ config'.authority # config.authority
           => config'.authority = config.pending_authority
        /\ registry.present /\ registry'.authority # registry.authority
           => registry'.authority = registry.pending_authority
  BY DEF AuthoritiesPass
<1>. QED BY <1>1, <1>2, SetupInvariance, PTL DEF SetupSpec, OnlyTheLastNomineeTakesOver
=============================================================================
