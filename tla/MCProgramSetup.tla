--------------------------- MODULE MCProgramSetup ---------------------------
(***************************************************************************)
(* The scripts that set the program up: deployment (configuration and      *)
(* token registry), registration of wallets, and the bootstrap of the      *)
(* yield demo.  The initial state chooses one of the three groups, within  *)
(* which scripts run at the same time; the variables of the others rest.   *)
(*                                                                         *)
(* deployment: two tokens that deploy asks for.  admin asks for one of     *)
(* them, setup for the mint of the other under an id of its own, so that   *)
(* only one of the two can have it.  Two steps by hand: enough for a       *)
(* handover offered and accepted while the scripts run, for a wrapper that *)
(* takes an id or a mint first, and for a script that is killed.           *)
(*                                                                         *)
(* registration: two wallets of setup, one of demo and one of admin, and a *)
(* bystander, in participant buckets of two slots: the slot that somebody  *)
(* else takes is sometimes in the bucket a script has named.               *)
(*                                                                         *)
(* bootstrap: two processes, which may be killed three times.              *)
(***************************************************************************)
EXTENDS Deployment

CONSTANTS
  d, n, x, y, s1, s2, d1, a1, o1,
  Owners, OwnerBucketOf, OwnerIndexSlots, ParticipantSlots, ChannelSlots, MaxParticipantId,
  WalletsOf, Bystanders,  \* of RegistrationScripts
  Processes               \* of YieldBootstrap

VARIABLES
  group,
  participantSlots, ownerIndex, channelSlots, openLanes, next_participant_id, \* RyvoDirectory
  stage, position, guess, ids, keyed, manifest, ended, faults, \* RegistrationScripts
  progress, sending, reserve, kills                            \* YieldBootstrap

Registering == INSTANCE RegistrationScripts WITH
  phase <- stage, at <- position, finished <- ended, MaxFaults <- 1
Bootstrapping == INSTANCE YieldBootstrap WITH
  phase <- progress, Mint <- x, PlainId <- 1, WrapperId <- 2, Repairs <- TRUE, MaxKills <- 3

ASSUME RegistrationScriptsAssumption == Registering!ScriptsAssumption
ASSUME YieldBootstrapAssumption == Bootstrapping!BootstrapAssumption

MCWanted ==
  LET first == [id |-> 1, mint |-> x]
      second == [id |-> 2, mint |-> y]
  IN  [s \in Scripts |-> CASE s = "deploy" -> <<first, second>>
                           [] s = "admin"  -> <<second>>
                           [] s = "setup"  -> <<[first EXCEPT !.id = 3]>>]
MCWalletsOf == [setup |-> <<s1, s2>>, demo |-> <<d1>>, admin |-> <<a1>>]
MCOwnerBucketOf == [o \in Owners |-> 0]

-----------------------------------------------------------------------------
registrationOnly ==
  <<participantSlots, ownerIndex, channelSlots, openLanes, next_participant_id,
    stage, position, guess, ids, keyed, manifest, ended, faults>>
bootstrapOnly == <<progress, sending, reserve, kills>>
setupVars == <<group, deploymentVars, registrationOnly, bootstrapOnly>>

SetupInit ==
  /\ group \in {"deployment", "registration", "bootstrap"}
  /\ DeploymentInit
  /\ Registering!RegistrationInit
  /\ Bootstrapping!BootstrapInit

Running(name, others) == group = name /\ UNCHANGED <<group, others>>

DeploymentRuns == Running("deployment", <<registrationOnly, bootstrapOnly>>)
RegistrationRuns == Running("registration", <<deploymentVars, bootstrapOnly>>)
BootstrapRuns == Running("bootstrap", <<scriptVars, handovers, registrationOnly>>)

SetupNext ==
  \/ DeploymentRuns /\ DeploymentNext
  \/ RegistrationRuns /\ Registering!RegistrationNext
  \/ BootstrapRuns /\ Bootstrapping!BootstrapNext

\* A script that is stopped is started again, and what it sends lands or is
\* refused; nothing is asked of the authorities or of other owners.
SetupFairness ==
  /\ \A s \in Scripts : WF_setupVars(DeploymentRuns /\ Step(s))
  /\ \A s \in Registering!Scripts : WF_setupVars(RegistrationRuns /\ Registering!Step(s))
  /\ WF_setupVars(RegistrationRuns /\ Registering!FindInManifest)
  /\ WF_setupVars(RegistrationRuns /\ (Registering!RegisterKey \/ Registering!KeyRefused))
  /\ \A p \in Processes :
       WF_setupVars(/\ BootstrapRuns
                    /\ \/ Bootstrapping!Look(p)
                       \/ Bootstrapping!Land(p)
                       \/ Bootstrapping!Refused(p))
  /\ WF_setupVars(BootstrapRuns /\ Bootstrapping!Repair)

SetupSpec == SetupInit /\ [][SetupNext]_setupVars /\ SetupFairness

-----------------------------------------------------------------------------
\* A deployment script that ended has every token it asked for and wrote down
\* fee accounts that exist; plain tokens have mints of their own; a bootstrap
\* that ended finds configuration, reserve and both tokens, whichever process
\* created them (initialize-program.ts, devnet-admin.cjs,
\* colosseum-basic-setup.ts, yield-bearing-demo.ts).
WhatWasAskedIsThere ==
  /\ WhatWasAskedIsRegistered
  /\ WrittenAccountsExist
  /\ PlainMintsAreDistinct
  /\ Bootstrapping!BootstrapIsComplete

\* Scripts that look an id up act under the ids of their own wallets.
ScriptsActAsTheirOwners == Registering!ScriptsActAsTheirOwners

\* Scripts that are started again until they end do end, whatever runs at the
\* same time: a deployment script unless it is blocked for good, setup unless a
\* wallet is registered that its manifest does not have, and the bootstrap once
\* somebody creates a registry that it passed over (initialize-program.ts 429-630,
\* colosseum-basic-setup.ts 377-432, yield-bearing-demo.ts 663-771).
SetupEnds ==
  /\ <>[](group = "deployment" => \A s \in Scripts : s \in finished \/ Blocked(s))
  /\ <>(CASE group = "registration" ->
               \A s \in Registering!Scripts :
                 s \in ended \/ (s = "setup" /\ Registering!Orphaned)
          [] group = "bootstrap" -> \A p \in Processes : progress[p] = "done"
          [] OTHER -> TRUE)
=============================================================================
