------------------------ MODULE RegistrationScripts ------------------------
(***************************************************************************)
(* Three scripts that register wallets with the program's directory, at    *)
(* the same time as each other and as other owners do:                     *)
(*                                                                         *)
(*   setup  colosseum-basic-setup.ts, which remembers ids in its manifest  *)
(*   demo   ryvo-protocol-demo.ts, which looks an owner up first, and then *)
(*          registers BLS keys                                             *)
(*   admin  devnet-admin.cjs ensure-participant, which looks up before and *)
(*          after                                                          *)
(*                                                                         *)
(* Each of them has to name the bucket of the id that the program will     *)
(* give, so it reads nextParticipantId and sends the transaction; others   *)
(* may register in between.  Looking up, registering and recording are     *)
(* steps of their own; a script may be killed between them and is then     *)
(* started again.                                                          *)
(***************************************************************************)
EXTENDS RyvoDirectory, Sequences, Functions

CONSTANTS
  WalletsOf,  \* the wallets of each script, in its order
  Bystanders, \* other owners that register
  MaxFaults   \* bound on kills, no counterpart in the code

Scripts == {"setup", "demo", "admin"}
NoId == -1

ScriptsAssumption ==
  /\ WalletsOf \in [Scripts -> Seq(Owners)]
  /\ Bystanders \subseteq Owners
  /\ MaxFaults \in Nat

VARIABLES
  phase,    \* of each script: stopped, find, register, record, key, end
  at,       \* its position in the list of wallets
  guess,    \* nextParticipantId, as it was read
  ids,      \* the ids that the running script holds for its wallets
  keyed,    \* owner of the BLS key that is registered for an id
  manifest, \* the ids in the basic manifest
  finished, \* scripts that have ended well
  faults

ownVars == <<phase, at, guess, ids>>
scriptVars == <<ownVars, keyed, manifest, finished, faults>>
registrationVars == <<directoryVars, scriptVars>>

WalletSet(s) == Range(WalletsOf[s])
Unknown(s) == [w \in WalletSet(s) |-> NoId]

RegistrationInit ==
  /\ DirectoryInit
  /\ phase = [s \in Scripts |-> "stopped"]
  /\ at = [s \in Scripts |-> 1]
  /\ guess = [s \in Scripts |-> 0]
  /\ ids = [s \in Scripts |-> Unknown(s)]
  /\ keyed = <<>>
  /\ manifest = Unknown("setup")
  /\ finished = {}
  /\ faults = 0

-----------------------------------------------------------------------------
At(s, name) == phase[s] = name
Wallet(s) == WalletsOf[s][at[s]]
GoTo(s, name) == phase' = [phase EXCEPT ![s] = name]
Knows(s, id) == ids' = [ids EXCEPT ![s][Wallet(s)] = id]

\* The same phase for the next wallet, or the phase that follows for the first.
NextWallet(s, name, following) ==
  IF at[s] < Len(WalletsOf[s])
  THEN at' = [at EXCEPT ![s] = @ + 1] /\ GoTo(s, name)
  ELSE at' = [at EXCEPT ![s] = 1] /\ GoTo(s, following)

Registered(s) == NextWallet(s, "find", IF s = "demo" THEN "key" ELSE "end")

Start(s) ==
  /\ At(s, "stopped") /\ s \notin finished
  /\ GoTo(s, "find")
  /\ at' = [at EXCEPT ![s] = 1]
  /\ ids' = [ids EXCEPT ![s] = IF s = "setup" THEN manifest ELSE Unknown(s)]
  /\ UNCHANGED <<directoryVars, guess, keyed, manifest, finished, faults>>

\* The id that a registration sent now will be given.
Predict == next_participant_id

Predicts(s) ==
  guess' = [guess EXCEPT ![s] = Predict] /\ GoTo(s, "register") /\ UNCHANGED at

\* setup trusts its manifest; the others ask the owner index.
FindInManifest ==
  /\ At("setup", "find")
  /\ IF ids["setup"][Wallet("setup")] # NoId
     THEN Registered("setup") /\ UNCHANGED guess
     ELSE Predicts("setup")
  /\ UNCHANGED <<directoryVars, ids, keyed, manifest, finished, faults>>

FindByOwner(s) ==
  /\ s # "setup" /\ At(s, "find")
  /\ \/ \E id \in IdsOf(Wallet(s)) :
          SlotsOf(id) # {} /\ Knows(s, id) /\ Registered(s) /\ UNCHANGED guess
     \/ IdsOf(Wallet(s)) = {} /\ Predicts(s) /\ UNCHANGED ids
  /\ UNCHANGED <<directoryVars, keyed, manifest, finished, faults>>

Submits(s) ==
  InitializeParticipant(Wallet(s), ParticipantBucketId(guess[s]), OwnerBucketOf[Wallet(s)])

Register(s) ==
  /\ At(s, "register")
  /\ Submits(s)
  /\ GoTo(s, "record")
  /\ UNCHANGED <<at, guess, ids, keyed, manifest, finished, faults>>

Stop(s) ==
  /\ GoTo(s, "stopped")
  /\ UNCHANGED <<directoryVars, at, guess, ids, keyed, manifest, finished>>

RegisterRefused(s) ==
  At(s, "register") /\ ~ENABLED Submits(s) /\ Stop(s) /\ UNCHANGED faults

\* setup records what it predicted, demo what it finds in the predicted slot,
\* admin what it finds under its owner; ids are given in order, so the predicted
\* slot is in use when any registration in its bucket has landed.
Recorded(s) ==
  CASE s = "setup" -> {guess[s]}
    [] s = "demo"  -> {slotAt.participant_id : slotAt \in SlotsOf(guess[s])}
    [] s = "admin" -> IdsOf(Wallet(s))

Record(s) ==
  /\ At(s, "record")
  /\ \E id \in Recorded(s) : Knows(s, id)
  /\ Registered(s)
  /\ UNCHANGED <<directoryVars, guess, keyed, manifest, finished, faults>>

\* The slot of the id that demo holds has a key already, or demo registers its
\* wallet's: the program checks the proof against the id of the signing owner.
KeyProvesMutant(id, w) == TRUE
KeyProves(id, w) == id \in IdsOf(w)
RegisterKey ==
  LET w == Wallet("demo")
      id == ids["demo"][w]
  IN  /\ At("demo", "key")
      /\ \/ id \in DOMAIN keyed /\ keyed[id] = w /\ UNCHANGED keyed
         \/ /\ id \notin DOMAIN keyed
            /\ KeyProves(id, w)
            /\ keyed' = [i \in DOMAIN keyed \cup {id} |-> IF i = id THEN w ELSE keyed[i]]
      /\ NextWallet("demo", "key", "end")
      /\ UNCHANGED <<directoryVars, guess, ids, manifest, finished, faults>>

KeyRefused ==
  LET w == Wallet("demo")
      id == ids["demo"][w]
  IN  /\ At("demo", "key")
      /\ IF id \in DOMAIN keyed THEN keyed[id] # w ELSE ~KeyProves(id, w)
      /\ Stop("demo") /\ UNCHANGED faults

\* The manifest is written once all wallets are through.
Finish(s) ==
  /\ At(s, "end")
  /\ GoTo(s, "stopped")
  /\ finished' = finished \cup {s}
  /\ manifest' = IF s = "setup" THEN ids["setup"] ELSE manifest
  /\ UNCHANGED <<directoryVars, at, guess, ids, keyed, faults>>

Kill(s) ==
  /\ ~At(s, "stopped") /\ faults < MaxFaults
  /\ Stop(s)
  /\ faults' = faults + 1

RegisterOther ==
  /\ \E o \in Bystanders :
       InitializeParticipant(o, ParticipantBucketId(next_participant_id), OwnerBucketOf[o])
  /\ UNCHANGED scriptVars

Step(s) ==
  \/ Start(s) \/ FindByOwner(s) \/ Register(s) \/ RegisterRefused(s)
  \/ Record(s) \/ Finish(s)

RegistrationNext ==
  \/ \E s \in Scripts : Step(s) \/ Kill(s)
  \/ FindInManifest \/ RegisterKey \/ KeyRefused
  \/ RegisterOther

-----------------------------------------------------------------------------
(***************************************************************************)
(* Properties.                                                             *)
(***************************************************************************)
\* Once demo or admin has ended it acts under the ids of its own wallets,
\* although others may have registered between its reading the next id and its
\* registration: admin looks its owner up again, and demo's proof of possession
\* is refused for another's id (devnet-admin.cjs 356-404, demo 3680-3815).
ScriptsActAsTheirOwners ==
  \A s \in finished \ {"setup"} :
    \A w \in WalletSet(s) : ids[s][w] \in IdsOf(w)

\* setup was stopped after a registration and before its manifest was written:
\* it will try to register that wallet again, and be refused.
Orphaned ==
  /\ At("setup", "stopped")
  /\ \E w \in WalletSet("setup") : IdsOf(w) # {} /\ manifest[w] = NoId
=============================================================================
