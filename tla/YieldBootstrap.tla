--------------------------- MODULE YieldBootstrap ---------------------------
(***************************************************************************)
(* The bootstrap of yield-bearing-demo.ts (also bootstrap-yield-bearing.ts)*)
(* over the program's configuration and token registry: it initialises     *)
(* both, the mock-yield reserve, the plain token and its wrapper, skipping *)
(* what it finds.  Several processes may run it at the same time; one that *)
(* a refused transaction or a kill stops is started again.  Meanwhile the  *)
(* operator may run initialize-program.ts, which creates a registry that   *)
(* is missing.                                                             *)
(***************************************************************************)
EXTENDS RyvoAdmin

CONSTANTS
  Processes,  \* runs of the script
  Deployer,   \* provider.wallet
  Recipient,  \* --fee-recipient
  Mint,       \* the underlying mint
  PlainId,    \* USDC_TOKEN_ID
  WrapperId,  \* RY_USDC_TOKEN_ID
  Repairs,    \* the operator also runs initialize-program.ts
  MaxKills    \* bound on kills

BootstrapAssumption ==
  /\ {Deployer, Recipient} \subseteq Wallets /\ Mint \in Mints
  /\ {PlainId, WrapperId} \subseteq TokenIds /\ PlainId # WrapperId
  /\ Repairs \in BOOLEAN /\ MaxKills \in Nat

VARIABLES
  phase,   \* of each process
  sending, \* its transaction was decided on and has not landed yet
  reserve, \* the mock-yield reserve exists
  kills

bootstrapVars == <<adminVars, phase, sending, reserve, kills>>

Phases == {"config", "registry", "reserve", "plain", "wrapper", "done"}

BootstrapInit ==
  /\ AdminInit
  /\ phase = [p \in Processes |-> "config"]
  /\ sending = [p \in Processes |-> FALSE]
  /\ reserve = FALSE
  /\ kills = 0

-----------------------------------------------------------------------------
After(name) ==
  CASE name = "config"   -> "registry"
    [] name = "registry" -> "reserve"
    [] name = "reserve"  -> "plain"
    [] name = "plain"    -> "wrapper"
    [] name = "wrapper"  -> "done"

\* An account that exists is taken for what the step was to create; the
\* registry has no look of its own, it comes with the configuration.
Exists(name) ==
  CASE name = "config"   -> config.present
    [] name = "registry" -> FALSE
    [] name = "reserve"  -> reserve
    [] name = "plain"    -> IsTokenRegistered(PlainId)
    [] name = "wrapper"  -> IsTokenRegistered(WrapperId)

Skips(name) == IF name = "config" THEN "reserve" ELSE After(name)

Look(p) ==
  /\ phase[p] # "done" /\ ~sending[p]
  /\ IF Exists(phase[p])
     THEN phase' = [phase EXCEPT ![p] = Skips(@)] /\ UNCHANGED sending
     ELSE sending' = [sending EXCEPT ![p] = TRUE] /\ UNCHANGED phase
  /\ UNCHANGED <<adminVars, reserve, kills>>

CreateReserve == ~reserve /\ reserve' = TRUE /\ UNCHANGED adminVars

Execute(name) ==
  \/ /\ \/ name = "config" /\ Initialize(Deployer, Deployer, Recipient)
        \/ name = "registry" /\ InitializeTokenRegistry(Deployer)
        \/ name = "plain" /\ RegisterToken(Deployer, PlainId, Mint)
        \/ name = "wrapper" /\ RegisterYieldBearingToken(Deployer, WrapperId, Mint)
     /\ UNCHANGED reserve
  \/ name = "reserve" /\ CreateReserve

Land(p) ==
  /\ sending[p]
  /\ Execute(phase[p])
  /\ sending' = [sending EXCEPT ![p] = FALSE]
  /\ phase' = [phase EXCEPT ![p] = After(@)]
  /\ UNCHANGED kills

Restart(p) ==
  /\ phase' = [phase EXCEPT ![p] = "config"]
  /\ sending' = [sending EXCEPT ![p] = FALSE]
  /\ UNCHANGED <<adminVars, reserve>>

Refused(p) == sending[p] /\ ~ENABLED Execute(phase[p]) /\ Restart(p) /\ UNCHANGED kills

Kill(p) ==
  /\ kills < MaxKills /\ phase[p] # "done"
  /\ Restart(p)
  /\ kills' = kills + 1

\* ensureTokenRegistry of initialize-program.ts, which looks for the registry.
Repair ==
  /\ Repairs /\ config.present
  /\ InitializeTokenRegistry(Deployer)
  /\ UNCHANGED <<phase, sending, reserve, kills>>

BootstrapNext ==
  Repair \/ \E p \in Processes : Look(p) \/ Land(p) \/ Refused(p) \/ Kill(p)

-----------------------------------------------------------------------------
(***************************************************************************)
(* Properties.                                                             *)
(***************************************************************************)
\* A process that ends finds everything that the demo uses: a registry with the
\* plain token and the wrapper, both of the underlying mint, and a reserve,
\* whichever process created what (lines 1062-1106).
BootstrapIsComplete ==
  (\E p \in Processes : phase[p] = "done") =>
    /\ config.present /\ config.fee_recipient = Recipient /\ reserve
    /\ [id |-> PlainId, mint |-> Mint, kind |-> "plain"] \in Range(registry.tokens)
    /\ [id |-> WrapperId, mint |-> Mint, kind |-> "yield"] \in Range(registry.tokens)
=============================================================================
