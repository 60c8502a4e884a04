----------------------------- MODULE LiveRounds -----------------------------
(***************************************************************************)
(* The demo's live submission of clearing rounds over the program          *)
(* (ryvo-protocol-demo.ts).  The search of a scenario leaves its           *)
(* executable candidates, largest first, each one a round that all its     *)
(* payers have signed; they are submitted in turn until one is reported as *)
(* done.  Any error of a submission, also one that leaves the transaction  *)
(* in flight, leads to the next smaller candidate.                         *)
(*                                                                         *)
(* The scenarios of one run follow each other and share a cache of the     *)
(* lanes' settled amounts; a new run reads it again, also while rounds of  *)
(* an earlier one, the strays, are in flight.  A submission keeps what     *)
(* SendOnce promises and no more (RpcSender).                              *)
(***************************************************************************)
EXTENDS RyvoCore, Sequences

CONSTANTS
  RoundToken,   \* options.tokenId
  Scenarios,    \* [candidates: Seq(sets of lanes), owes: obligation per lane]
  MaxFaults     \* bound on errors and lost transactions

ScenariosAssumption ==
  /\ MaxFaults \in Nat
  /\ \A s \in DOMAIN Scenarios :
       /\ Scenarios[s].owes \in [Lanes -> Nat \ {0}]
       /\ \A k \in DOMAIN Scenarios[s].candidates :
            /\ Scenarios[s].candidates[k] \subseteq Lanes
            /\ \A j \in DOMAIN Scenarios[s].candidates :
                 Scenarios[s].candidates[k] \cap Scenarios[s].candidates[j] # {}

VARIABLES
  pc,        \* start, simulate, send, wait, refresh, done, failed
  scenario,  \* number of the scenario of this run
  candidate, \* position of the candidate that is submitted
  cached,    \* context.completeGraphEdges: settled amount of every lane
  prepared,  \* the rounds of the scenario's candidates
  flying,    \* submissions that have neither landed nor expired
  landed,    \* the last submission ran, failed on chain, or no: not yet
  start,     \* settled amounts when the run began
  strayed,   \* history, not in the code: what strays paid during this run
  reported,  \* scenarios of this run that were reported, with their lanes
  faults

roundVars == <<pc, scenario, candidate, cached, prepared, flying, landed,
               start, strayed, reported, faults>>
liveVars == <<vars, roundVars>>

Settled == [l \in Lanes |-> lane[l].settled_cumulative]
Nothing == [l \in Lanes |-> 0]

LiveInit ==
  /\ pc = "start"
  /\ scenario = 1 /\ candidate = 1
  /\ cached = Settled
  /\ prepared = <<>>
  /\ flying = {}
  /\ landed = "no"
  /\ start = Settled
  /\ strayed = Nothing
  /\ reported = {}
  /\ faults = 0

Chain == UNCHANGED vars

-----------------------------------------------------------------------------
(***************************************************************************)
(* The process.                                                            *)
(***************************************************************************)
\* prepareMultilateralRound: what a lane owes in a scenario does not depend on
\* the candidate, and is added to the settled amount of the cache.
RoundOf(s, edges) ==
  [token |-> RoundToken,
   targets |-> [l \in edges |-> cached[l] + Scenarios[s].owes[l]]]

\* The search prepares every candidate, and all payers of each sign.
Prepare ==
  LET edges == Scenarios[scenario].candidates
      rounds == [k \in DOMAIN edges |-> RoundOf(scenario, edges[k])]
  IN  /\ pc = "start"
      /\ prepared' = rounds
      /\ signed' = signed \cup
           UNION {{[round |-> rounds[k], by |-> p] : p \in RoundPayers(rounds[k])} :
                    k \in DOMAIN rounds}
      /\ candidate' = 1
      /\ pc' = "simulate"
      /\ UNCHANGED <<now, balanceVars, laneVars, memberVars>>
      /\ UNCHANGED <<scenario, cached, flying, landed, start, strayed, reported, faults>>

\* The next smaller candidate, as it was prepared; without one the run fails.
PrepareAgainMutant ==
  LET next == RoundOf(scenario, DOMAIN prepared[candidate + 1].targets)
      fresh == [next EXCEPT !.targets = [l \in DOMAIN @ |->
                  lane[l].settled_cumulative + Scenarios[scenario].owes[l]]]
  IN  /\ candidate' = candidate + 1
      /\ IF candidate = Len(prepared)
         THEN pc' = "failed" /\ UNCHANGED <<prepared, signed>>
         ELSE /\ pc' = "simulate"
              /\ prepared' = [prepared EXCEPT ![candidate + 1] = fresh]
              /\ signed' = signed \cup {[round |-> fresh, by |-> p] : p \in RoundPayers(fresh)}
      /\ UNCHANGED <<now, balanceVars, laneVars, memberVars>>
SameAgainMutant == pc' = "simulate" /\ UNCHANGED <<vars, candidate, prepared>>
NextCandidate ==
  /\ candidate' = candidate + 1
  /\ pc' = IF candidate = Len(prepared) THEN "failed" ELSE "simulate"
  /\ UNCHANGED <<vars, prepared>>

\* The round would execute now; its payers are the script's own wallets.
Simulates(r) == ENABLED SettleClearingRound(r)

FinalSimulation ==
  /\ pc = "simulate"
  /\ IF Simulates(prepared[candidate])
     THEN pc' = "send" /\ UNCHANGED <<vars, candidate, prepared>>
     ELSE NextCandidate
  /\ UNCHANGED <<scenario, cached, flying, landed, start, strayed, reported, faults>>

\* The submission that the process makes now, or waits for.  Strays of the same
\* round and place are one, as the program runs a round at most once.
Awaited ==
  [round |-> prepared[candidate], of |-> <<scenario, candidate>>, stray |-> FALSE]

\* The process sends what it signed, without preflight.
Submit ==
  /\ pc = "send"
  /\ flying' = flying \cup {Awaited}
  /\ landed' = "no"
  /\ pc' = "wait"
  /\ Chain
  /\ UNCHANGED <<scenario, candidate, cached, prepared, start, strayed, reported, faults>>

Answered ==
  /\ pc = "wait" /\ landed # "no"
  /\ IF landed = "ran"
     THEN pc' = "refresh" /\ UNCHANGED <<vars, candidate, prepared>>
     ELSE NextCandidate
  /\ UNCHANGED <<scenario, cached, flying, landed, start, strayed, reported, faults>>

\* The lanes of the round are read again after it.
Refreshed(edges) ==
  [l \in Lanes |-> IF l \in edges THEN lane[l].settled_cumulative ELSE cached[l]]

Refresh ==
  LET edges == DOMAIN prepared[candidate].targets
  IN  /\ pc = "refresh"
      /\ cached' = Refreshed(edges)
      /\ reported' = reported \cup {[scenario |-> scenario, edges |-> edges]}
      /\ IF scenario = Len(Scenarios)
         THEN pc' = "done" /\ UNCHANGED scenario
         ELSE pc' = "start" /\ scenario' = scenario + 1
      /\ Chain
      /\ UNCHANGED <<candidate, prepared, flying, landed, start, strayed, faults>>

\* The operator starts a run again that failed, whatever is still in flight.
Rerun ==
  /\ pc = "failed"
  /\ pc' = "start"
  /\ scenario' = 1
  /\ cached' = Settled
  /\ start' = Settled
  /\ strayed' = Nothing
  /\ reported' = {}
  /\ flying' = {[f EXCEPT !.stray = TRUE] : f \in flying}
  /\ Chain
  /\ UNCHANGED <<candidate, prepared, landed, faults>>

-----------------------------------------------------------------------------
(***************************************************************************)
(* The chain and the RPC node.                                             *)
(***************************************************************************)
Outcome(f, how) ==
  landed' = IF pc = "wait" /\ f = Awaited THEN how ELSE landed

\* What every lane has settled more than before, if a stray did it.
Counted(f) ==
  strayed' = IF f.stray
             THEN [l \in Lanes |-> strayed[l] + (lane'[l].settled_cumulative
                                                 - lane[l].settled_cumulative)]
             ELSE strayed

Land ==
  \E f \in flying :
    /\ flying' = flying \ {f}
    /\ \/ SettleClearingRound(f.round) /\ Counted(f) /\ Outcome(f, "ran")
       \/ ~Simulates(f.round) /\ Chain /\ UNCHANGED strayed /\ Outcome(f, "failed")
    /\ UNCHANGED <<pc, scenario, candidate, cached, prepared, start, reported, faults>>

\* A submission whose sender gives up is known to nobody: it may land later, or
\* expire.
Fault == faults < MaxFaults /\ faults' = faults + 1

GiveUp ==
  /\ pc \in {"simulate", "wait"} /\ Fault
  /\ NextCandidate
  /\ UNCHANGED <<scenario, cached, flying, landed, start, strayed, reported>>

\* Every other read that fails ends the run.
Abort ==
  /\ pc \in {"simulate", "refresh"} /\ Fault
  /\ pc' = "failed"
  /\ Chain
  /\ UNCHANGED <<scenario, candidate, cached, prepared, flying, landed, start, strayed, reported>>

\* The submission that the process waits for expires only after it gave up.
Expire ==
  \E f \in flying :
    /\ ~(pc = "wait" /\ f = Awaited)
    /\ flying' = flying \ {f}
    /\ Chain
    /\ UNCHANGED <<pc, scenario, candidate, cached, prepared, landed, start, strayed,
                   reported, faults>>

Process == Prepare \/ FinalSimulation \/ Submit \/ Answered \/ Refresh \/ Rerun
LiveNext == Process \/ Land \/ GiveUp \/ Abort \/ Expire

-----------------------------------------------------------------------------
(***************************************************************************)
(* Properties.                                                             *)
(***************************************************************************)
\* What a lane has paid in this run.
Paid(l) == lane[l].settled_cumulative - start[l]

OwedIn(l, scenarios) == MapThenSumSet(LAMBDA s : Scenarios[s].owes[l], scenarios)

\* A run never pays the obligation of a scenario twice, however many candidates
\* of it were submitted and whichever of them landed, late or unknown to the
\* process (lines 6384-6442, 6103-6178): what a lane has paid beyond its
\* obligations so far, strays of earlier runs paid.
EachObligationPaidOnce ==
  \A l \in Lanes : Paid(l) <= OwedIn(l, 1 .. scenario) + strayed[l]

\* A run that ends well has paid what it reports, lane by lane: a round that
\* landed unseen keeps the smaller ones from being executed, and the cache
\* carries each payment into the next scenario (lines 6189-6216).  Only strays
\* can have paid more, and never more than they moved; without them it is exact.
RunsPayWhatTheyReport ==
  pc = "done" =>
    \A l \in Lanes :
      LET told == OwedIn(l, {r.scenario : r \in {x \in reported : l \in x.edges}})
      IN  Paid(l) \in told .. told + strayed[l]
=============================================================================
