-------------------------- MODULE ColosseumProofs --------------------------
(***************************************************************************)
(* Proofs about the Colosseum scripts (MCColosseum): whatever runs were    *)
(* killed, lost or repeated before, the manifest of the setup is honoured, *)
(* the drain that reports has left nothing behind, and nobody is paid or   *)
(* charged twice, but for what transactions of ended runs did after a      *)
(* newer run had started: how much that was, the history variables tell.   *)
(*                                                                         *)
(* What the merchant cashes meanwhile cannot be predicted but only moves   *)
(* in one direction: an agent's shares of the program never grow by it,    *)
(* and what its lane was given stays given.  Each script decides on what   *)
(* it reads; the invariants say what of that is still true when the        *)
(* transaction lands.  One script runs and the others rest, so each has an *)
(* invariant of its own; the last section puts them together.              *)
(***************************************************************************)
EXTENDS MCColosseum, SequenceTheorems, TLAPS

Agents == Range(Roster)

\* What agent w owns in the program: its token entry and its lane.
Open(w) == lane[LaneTo(w)].initialized
Free(w) == slot[<<w, Tok>>].available_balance
Leaving(w) == slot[<<w, Tok>>].withdrawing_balance
Locked(w) == lane[LaneTo(w)].locked_balance
Settled(w) == lane[LaneTo(w)].settled_cumulative

EntryShape(e) ==
  /\ {"initialized", "available_balance", "withdrawing_balance"} \subseteq DOMAIN e
  /\ e.initialized \in BOOLEAN
  /\ e.available_balance \in Nat /\ e.withdrawing_balance \in Nat
  /\ ~e.initialized => e.available_balance = 0 /\ e.withdrawing_balance = 0

LaneShape(ln) ==
  /\ {"initialized", "locked_balance", "settled_cumulative"} \subseteq DOMAIN ln
  /\ ln.initialized \in BOOLEAN
  /\ ln.locked_balance \in Nat /\ ln.settled_cumulative \in Nat
  /\ ~ln.initialized => ln.locked_balance = 0 /\ ln.settled_cumulative = 0

\* Amounts are never negative, and what is not there yet holds nothing.
Amounted ==
  \A w \in Agents :
    /\ <<w, Tok>> \in DOMAIN slot /\ EntryShape(slot[<<w, Tok>>])
    /\ LaneTo(w) \in DOMAIN lane /\ LaneShape(lane[LaneTo(w)])

-----------------------------------------------------------------------------
(***************************************************************************)
(* The invariants.                                                         *)
(***************************************************************************)
\* What ended runs have sent, and the part of it that no run has overtaken yet.
LateTxs == {old.tx : old \in late}
Fresh == {old \in late : old.overtaken = FALSE}

LateShape(old) == {"tx", "overtaken"} \subseteq DOMAIN old /\ old.overtaken \in BOOLEAN

\* One transaction at most that was decided on the present state is on its way:
\* what a running process waits for, or what the last one left behind.
OneInFlight(stopped) ==
  /\ \A old \in late : LateShape(old)
  /\ \A x, y \in sent : x = y
  /\ \A x, y \in Fresh : x = y
  /\ IF stopped THEN sent = {} ELSE Fresh = {}

\* Funding: a transfer brings its wallet to the target at most, and to that with
\* what overtaken ones have brought.
Transfer(tx) ==
  /\ tx.to \in Range(<<m, a, b, c>>) /\ tx.amount \in Nat
  /\ tx.amount = 0 \/ AtStart[tx.to] <= Target

Fills(tx) == tx.amount = 0 \/ balance[tx.to] + tx.amount <= Target + brought[tx.to]

Filled(w) ==
  /\ balance[w] \in Nat /\ brought[w] \in Nat
  /\ AtStart[w] <= balance[w]
  /\ balance[w] = AtStart[w] \/ balance[w] <= Target + brought[w]

FundInvariant ==
  /\ DOMAIN balance = Range(<<m, a, b, c>>) /\ DOMAIN brought = Range(<<m, a, b, c>>)
  /\ \A w \in Range(<<m, a, b, c>>) : Filled(w)
  /\ fundPc \in {"stopped", "check", "fund", "done"}
  /\ fundPc # "fund" => sent = {}
  /\ at \in 1 .. 4
  /\ \A tx \in sent \cup LateTxs : Transfer(tx)
  /\ \A tx \in sent : Fills(tx)
  /\ \A old \in Fresh : Fills(old.tx)
  /\ OneInFlight(fundPc = "stopped")

\* Setup: the agent's lane exists and was given its collateral.
Honoured(w) == Open(w) /\ Locked(w) + Settled(w) >= LockTarget

TxShape(tx) ==
  /\ tx.kind \in {"bls", "deposit", "channel", "lock", "table"}
  /\ tx.kind \in {"deposit", "channel", "lock"} => tx.owner \in Agents /\ tx.amount \in Nat

AgentPhases == {"lane", "deposit", "channel", "lock"}

SetupPosition ==
  /\ pc \in [phase : Phases, at : Nat]
  /\ pc.phase = "bls" => pc.at \in DOMAIN Wallets
  /\ pc.phase \in AgentPhases => pc.at \in DOMAIN Roster
  /\ seen.locked \in Nat

\* What the process waits for belongs to where it is.
SetupWaits ==
  /\ \A old \in late : LateShape(old)
  /\ \A tx \in sent \cup LateTxs : TxShape(tx)
  /\ pc.phase \in {"stopped", "lane", "manifest"} => sent = {}
  /\ \A tx \in sent :
       /\ tx.kind = pc.phase
       /\ tx.kind = "bls" => tx.owner = Wallets[pc.at]
       /\ tx.kind \in {"deposit", "channel", "lock"} => tx.owner = Agent
       /\ tx.kind = "lock" => tx.amount + Locked(Agent) + Settled(Agent) >= LockTarget

\* What the run has reached, of which nothing is ever lost.
SetupReached ==
  /\ pc.phase = "bls" => \A j \in 1 .. (pc.at - 1) : Wallets[j] \in bls
  /\ pc.phase \in AgentPhases \cup {"table", "manifest"} => Range(Wallets) \subseteq bls
  /\ pc.phase \in AgentPhases => \A j \in 1 .. (pc.at - 1) : Honoured(Roster[j])
  /\ pc.phase \in {"deposit", "channel"} => (seen.initialized => Open(Agent))
  /\ pc.phase = "lock" => Open(Agent)
  /\ pc.phase \in {"table", "manifest"} => \A w \in Agents : Honoured(w)
  /\ pc.phase = "manifest" => table.size = TableAddresses
  /\ manifest.written => pc.phase = "stopped"

SetupInvariant ==
  Amounted /\ SetupPosition /\ SetupWaits /\ SetupReached /\ ManifestIsHonoured

\* Setup: an agent's deposits are what it owns and what it has paid out, and a
\* deposit on its way stays within the target and what overtaken transactions
\* have moved.
Booked(w) ==
  /\ <<w, Tok>> \in DOMAIN funded /\ w \in DOMAIN slack
  /\ slack[w] \in Nat
  /\ Leaving(w) = 0
  /\ funded[<<w, Tok>>] = Free(w) + Locked(w) + Settled(w)
  /\ Free(w) + Locked(w) <= DepositTarget + slack[w]

Within(tx) ==
  tx.kind = "deposit" =>
    Free(tx.owner) + Locked(tx.owner) + tx.amount <= DepositTarget + slack[tx.owner]

DepositInvariant ==
  /\ \A w \in Agents : Booked(w)
  /\ \A tx \in sent : Within(tx)
  /\ \A old \in Fresh : Within(old.tx)
  /\ pc.phase = "deposit" => Locked(Agent) <= seen.locked + slack[Agent]
  /\ OneInFlight(pc.phase = "stopped")

DrainPhases ==
  {"stopped", "unlock", "account", "existing", "request", "execute", "sweep", "report"}
WalletPhases == {"account", "existing", "request", "execute"}

\* Drain: what the process waits for, and when it lands it takes everything.
DrainPosition ==
  /\ pc \in [phase : DrainPhases, at : Nat]
  /\ pc.phase = "unlock" => ChannelsKnown /\ pc.at \in DOMAIN Roster
  /\ pc.phase \in WalletPhases \cup {"sweep"} => pc.at \in DOMAIN Wallets
  /\ \A w \in Range(Wallets) : w \in DOMAIN ata

\* What ended runs have sent: nothing is unlocked without a channels manifest.
DrainTx(tx) ==
  /\ tx.kind = "unlock" => ChannelsKnown /\ tx.owner \in Agents /\ tx.amount \in Nat
  /\ tx.kind = "request" /\ tx.owner \in Agents => tx.amount \in Nat

DrainWaits ==
  /\ \A tx \in LateTxs : DrainTx(tx)
  /\ pc.phase \in {"stopped", "report"} => sent = {}
  /\ \A tx \in sent :
       /\ tx.kind = IF pc.phase = "existing" THEN "execute" ELSE pc.phase
       /\ tx.owner = IF pc.phase = "unlock" THEN Roster[pc.at] ELSE Wallets[pc.at]
       /\ tx.kind = "unlock" => tx.amount \in Nat /\ tx.amount >= Locked(tx.owner)
       /\ tx.kind = "request" /\ tx.owner \in Agents =>
            tx.amount \in Nat /\ tx.amount >= Free(tx.owner)

\* Nothing is left of an agent's, and an account is closed, but for what a request
\* or a creation of an ended run did behind the back of this one.
Left(w) == Leaving(w) = 0 \/ <<"request", w>> \in crossed
Drained(w) == Free(w) = 0 /\ Left(w)
Shut(w) == ata[w] = Draining!Closed \/ <<"account", w>> \in crossed

DrainReached ==
  /\ pc.phase = "unlock" => \A j \in 1 .. (pc.at - 1) : Locked(Roster[j]) = 0
  /\ ChannelsKnown /\ pc.phase \notin {"stopped", "unlock"} => \A w \in Agents : Locked(w) = 0
  /\ pc.phase \in WalletPhases =>
       \A j \in 1 .. (pc.at - 1) : Wallets[j] \in Agents => Drained(Wallets[j])
  /\ pc.phase = "request" => (Wallets[pc.at] \in Agents => Left(Wallets[pc.at]))
  /\ pc.phase = "execute" => (Wallets[pc.at] \in Agents => Free(Wallets[pc.at]) = 0)
  /\ pc.phase \in {"sweep", "report"} => \A w \in Agents : Drained(w)
  /\ pc.phase = "sweep" => \A j \in 1 .. (pc.at - 1) : Shut(Wallets[j])
  /\ pc.phase = "report" => \A w \in Range(Wallets) : Shut(w)

DrainReport ==
  done =>
    /\ pc.phase = "stopped"
    /\ \A w \in Agents : Drained(w) /\ (ChannelsKnown => Locked(w) = 0)
    /\ \A w \in Range(Wallets) : Shut(w)

DrainInvariant ==
  Amounted /\ DrainPosition /\ DrainWaits /\ DrainReached /\ DrainReport

\* One script runs and the others rest.
ColosseumInvariant ==
  /\ script \in {"fund", "setup", "drain"}
  /\ script = "setup" => SetupInvariant
  /\ script = "drain" => DrainInvariant
  /\ script # "setup" => ~manifest.written
  /\ script # "drain" => ~done

OverchargeInvariant ==
  /\ script = "fund" => FundInvariant
  /\ script # "fund" => balance = AtStart
  /\ script = "setup" => DepositInvariant
-----------------------------------------------------------------------------
(***************************************************************************)
(* The roster.                                                             *)
(***************************************************************************)
\* The merchant comes first in the list of wallets and is none of the agents.
LEMMA RosterShape ==
  /\ Len(Roster) \in Nat \ {0} /\ DOMAIN Roster = 1 .. Len(Roster)
  /\ Len(Wallets) = Len(Roster) + 1 /\ DOMAIN Wallets = 1 .. Len(Wallets)
  /\ Wallets[1] = Merchant
  /\ \A j \in DOMAIN Roster : Wallets[j + 1] = Roster[j]
  /\ Agents \subseteq Participants \ {Merchant}
<1>1. /\ Roster \in Seq(Participants \ {Merchant}) /\ Roster # <<>>
      /\ <<Merchant>> \in Seq(Participants)
  BY SetupAssumption
<1>2. Len(Roster) \in Nat \ {0} /\ DOMAIN Roster = 1 .. Len(Roster)
  BY <1>1, EmptySeq
<1>3. /\ Wallets \in Seq(Participants)
      /\ Len(Wallets) = Len(Roster) + 1
      /\ Wallets[1] = Merchant
      /\ \A j \in DOMAIN Roster : Wallets[j + 1] = Roster[j]
  BY <1>1, <1>2 DEF Wallets
<1>4. DOMAIN Wallets = 1 .. Len(Wallets)
  BY <1>3
<1>5. Agents \subseteq Participants \ {Merchant}
  BY <1>1 DEF Agents, Range
<1>. QED
  BY <1>2, <1>3, <1>4, <1>5

\* Agents are the members of the roster, and wallets the merchant and they.
LEMMA WalletsAre ==
  /\ \A j \in DOMAIN Roster : Roster[j] \in Agents
  /\ \A w \in Agents : \E j \in DOMAIN Roster : w = Roster[j]
  /\ \A j \in DOMAIN Wallets : Wallets[j] \in Range(Wallets)
  /\ \A w \in Range(Wallets) : \E j \in DOMAIN Wallets : w = Wallets[j]
  /\ Range(Wallets) \subseteq Participants
  /\ Agents \subseteq Range(Wallets)
<1>1. /\ \A j \in DOMAIN Roster : Roster[j] \in Agents
      /\ \A w \in Agents : \E j \in DOMAIN Roster : w = Roster[j]
  BY DEF Agents, Range
<1>2. /\ \A j \in DOMAIN Wallets : Wallets[j] \in Range(Wallets)
      /\ \A w \in Range(Wallets) : \E j \in DOMAIN Wallets : w = Wallets[j]
  BY DEF Range
<1>3. ASSUME NEW w \in Agents PROVE w \in Range(Wallets)
  <2>1. PICK j \in DOMAIN Roster : w = Roster[j]
    BY <1>1
  <2>2. j + 1 \in DOMAIN Wallets /\ Wallets[j + 1] = w
    BY <2>1, RosterShape
  <2>. QED
    BY <1>2, <2>2
<1>4. ASSUME NEW w \in Range(Wallets) PROVE w \in Participants
  <2>1. PICK j \in DOMAIN Wallets : w = Wallets[j]
    BY <1>2
  <2>2. CASE j = 1
    BY <2>1, <2>2, RosterShape, SetupAssumption
  <2>3. CASE j # 1
    <3>1. j - 1 \in DOMAIN Roster /\ (j - 1) + 1 = j
      BY <2>3, RosterShape
    <3>. QED
      BY <2>1, <3>1, <1>1, RosterShape
  <2>. QED
    BY <2>2, <2>3
<1>. QED
  BY <1>1, <1>2, <1>3, <1>4

\* Every lane is an agent's, each agent has one, and so has one account.
LEMMA LanesAre ==
  /\ \A l \in Lanes : \E w \in Agents : l = LaneTo(w)
  /\ \A w \in Agents : LaneTo(w) \in Lanes /\ <<w, Tok>> \in Accounts
  /\ \A v, w : LaneTo(v) = LaneTo(w) => v = w
  /\ \A w : /\ LaneTo(w).payer = w /\ LaneTo(w).payee = Merchant /\ LaneTo(w).token = Tok
            /\ Payer(LaneTo(w)) = <<w, Tok>>
<1>1. \A w : LaneTo(w).payer = w /\ LaneTo(w).payee = Merchant /\ LaneTo(w).token = Tok
  BY DEF LaneTo
<1>2. \A v, w : LaneTo(v) = LaneTo(w) => v = w
  BY <1>1
<1>3. \A w : Payer(LaneTo(w)) = <<w, Tok>>
  BY <1>1 DEF Payer
<1>4. \A w \in Agents : <<w, Tok>> \in Accounts
  BY RosterShape, SetupAssumption DEF Accounts
<1>. QED
  BY <1>1, <1>2, <1>3, <1>4, ColosseumLanes, Zenon DEF Agents
-----------------------------------------------------------------------------
(***************************************************************************)
(* What an instruction does to an agent's entry and lane.                  *)
(***************************************************************************)
\* A debit takes what is free first (apply_token_delta_in_data).
LEMMA DrainShape ==
  ASSUME NEW e, EntryShape(e), e.initialized, NEW n \in Nat,
         e.available_balance + e.withdrawing_balance >= n
  PROVE  /\ EntryShape(Drain(e, n))
         /\ Drain(e, n).available_balance <= e.available_balance
         /\ Drain(e, n).withdrawing_balance <= e.withdrawing_balance
         /\ Drain(e, n).available_balance + Drain(e, n).withdrawing_balance + n
              = e.available_balance + e.withdrawing_balance
<1>. DEFINE k == Lesser(e.available_balance, n)
<1>1. /\ e.available_balance \in Nat /\ e.withdrawing_balance \in Nat
      /\ k \in Nat /\ k <= e.available_balance /\ k <= n
      /\ n - k <= e.withdrawing_balance
  BY DEF EntryShape, Lesser
<1>2. /\ DOMAIN Drain(e, n) = DOMAIN e
      /\ Drain(e, n).initialized = e.initialized
      /\ Drain(e, n).available_balance = e.available_balance - k
      /\ Drain(e, n).withdrawing_balance = e.withdrawing_balance - (n - k)
  BY DEF Drain, EntryShape
<1>. HIDE DEF k
<1>. QED
  BY <1>1, <1>2 DEF EntryShape

\* A credit adds to what is free (find_or_create_token_entry_offset).
LEMMA CreditShape ==
  ASSUME NEW e, EntryShape(e), NEW n \in Nat
  PROVE  /\ EntryShape(Credit(e, n))
         /\ Credit(e, n).available_balance = e.available_balance + n
         /\ Credit(e, n).withdrawing_balance = e.withdrawing_balance
<1>. DEFINE f == FindOrCreate(e)
<1>1. /\ {"initialized", "available_balance", "withdrawing_balance"} \subseteq DOMAIN f
      /\ f.initialized = TRUE
      /\ f.available_balance = e.available_balance
      /\ f.withdrawing_balance = e.withdrawing_balance
  <2>1. CASE e.initialized
    BY <2>1 DEF FindOrCreate, EntryShape
  <2>2. CASE ~e.initialized
    BY <2>2 DEF FindOrCreate, EntryShape, EmptyEntry
  <2>. QED
    BY <2>1, <2>2
<1>. HIDE DEF f
<1>2. Credit(e, n) = [f EXCEPT !.available_balance = @ + n]
  BY DEF Credit, f
<1>3. /\ DOMAIN Credit(e, n) = DOMAIN f
      /\ Credit(e, n).initialized = TRUE
      /\ Credit(e, n).available_balance = e.available_balance + n
      /\ Credit(e, n).withdrawing_balance = e.withdrawing_balance
  BY <1>1, <1>2
<1>4. e.available_balance + n \in Nat /\ e.withdrawing_balance \in Nat
  BY DEF EntryShape
<1>. QED
  BY <1>1, <1>3, <1>4 DEF EntryShape

\* Capping the pending unlock leaves what the lane holds alone.
LEMMA CapShape ==
  ASSUME NEW ln, NEW n
  PROVE  /\ DOMAIN CapPendingUnlock(ln, n) = DOMAIN ln
         /\ CapPendingUnlock(ln, n).initialized = ln.initialized
         /\ CapPendingUnlock(ln, n).locked_balance = ln.locked_balance
         /\ CapPendingUnlock(ln, n).settled_cumulative = ln.settled_cumulative
BY DEF CapPendingUnlock

\* A settlement takes collateral (apply_lane_settlement_at_offset_in_data).
LEMMA SettledShape ==
  ASSUME NEW ln, LaneShape(ln), ln.initialized, NEW target \in Nat, NEW k \in Nat,
         k <= ln.locked_balance
  PROVE  /\ LaneShape(ApplyLaneSettlement(ln, target, k))
         /\ ApplyLaneSettlement(ln, target, k).initialized
         /\ ApplyLaneSettlement(ln, target, k).locked_balance = ln.locked_balance - k
         /\ ApplyLaneSettlement(ln, target, k).settled_cumulative = target
<1>. DEFINE new == ApplyLaneSettlement(ln, target, k)
<1>1. /\ DOMAIN new = DOMAIN ln
      /\ new.initialized = ln.initialized
      /\ new.locked_balance = ln.locked_balance - k
      /\ new.settled_cumulative = target
  <2>. DEFINE less == [ln EXCEPT !.locked_balance = ln.locked_balance - k]
  <2>1. new = [CapPendingUnlock(less, ln.locked_balance - k) EXCEPT !.settled_cumulative = target]
    BY Zenon DEF ApplyLaneSettlement
  <2>2. DOMAIN less = DOMAIN ln /\ less.locked_balance = ln.locked_balance - k
        /\ less.initialized = ln.initialized
    BY DEF LaneShape
  <2>. DEFINE base == CapPendingUnlock(less, ln.locked_balance - k)
  <2>3. /\ DOMAIN base = DOMAIN ln
        /\ base.initialized = ln.initialized
        /\ base.locked_balance = ln.locked_balance - k
    BY <2>2, CapShape
  <2>4. /\ {"initialized", "locked_balance", "settled_cumulative"} \subseteq DOMAIN base
        /\ new = [base EXCEPT !.settled_cumulative = target]
    BY <2>1, <2>3 DEF LaneShape
  <2>. HIDE DEF less, new, base
  <2>. QED
    BY <2>3, <2>4
<1>2. ln.locked_balance - k \in Nat
  BY DEF LaneShape
<1>. HIDE DEF new
<1>. QED
  BY <1>1, <1>2 DEF LaneShape, new

\* What cashing a commitment does to the agents: nothing they own grows, and
\* what leaves collateral, free funds and withdrawals is what was settled.
CashEffect ==
  /\ Amounted'
  /\ \A w \in Agents :
       /\ Open(w)' = Open(w)
       /\ Locked(w)' <= Locked(w)
       /\ Locked(w)' + Settled(w)' >= Locked(w) + Settled(w)
       /\ Free(w)' <= Free(w)
       /\ Leaving(w)' <= Leaving(w)
       /\ Free(w)' + Leaving(w)' + Locked(w)' + Settled(w)'
            = Free(w) + Leaving(w) + Locked(w) + Settled(w)

\* Of a number its negative.
LEMMA Negated ==
  \A n \in Nat : IF n > 0 THEN -n < 0 /\ ~(-n > 0) /\ -n # 0 /\ -(-n) = n
                            ELSE -n = 0 /\ ~(-n > 0) /\ ~(-n < 0)
OBVIOUS

\* Of a payment up to target, what is taken from collateral and what from the
\* payer's entry.
Taken(ln, target) == Lesser(ln.locked_balance, target - ln.settled_cumulative)
Debit(ln, target) == target - ln.settled_cumulative - Taken(ln, target)

\* An entry and a lane as they are after payments: nothing has grown, and what
\* is gone from collateral, free funds and withdrawals was settled.
Paid(e, ln, f, new) ==
  /\ EntryShape(f) /\ LaneShape(new)
  /\ new.initialized = ln.initialized
  /\ new.locked_balance <= ln.locked_balance
  /\ new.locked_balance + new.settled_cumulative
       >= ln.locked_balance + ln.settled_cumulative
  /\ f.available_balance <= e.available_balance
  /\ f.withdrawing_balance <= e.withdrawing_balance
  /\ f.available_balance + f.withdrawing_balance
       + new.locked_balance + new.settled_cumulative
       = e.available_balance + e.withdrawing_balance
       + ln.locked_balance + ln.settled_cumulative

\* settle_individual of one commitment: the payer's entry and lane change as Paid says.
LEMMA PaidByCashing ==
  ASSUME NEW e, EntryShape(e), NEW ln, LaneShape(ln), NEW target \in Nat,
         ln.initialized, target > ln.settled_cumulative,
         CanApplyDelta(e, -Debit(ln, target))
  PROVE  Paid(e, ln, ApplyDelta(e, -Debit(ln, target)),
              ApplyLaneSettlement(ln, target, Taken(ln, target)))
<1>. DEFINE n == target - ln.settled_cumulative
            k == Taken(ln, target)
            d == Debit(ln, target)
            f == ApplyDelta(e, -d)
            new == ApplyLaneSettlement(ln, target, k)
<1>1. /\ n \in Nat /\ k \in Nat /\ k <= n /\ k <= ln.locked_balance /\ d \in Nat
      /\ ln.locked_balance \in Nat /\ ln.settled_cumulative \in Nat
      /\ d + k + ln.settled_cumulative = target
  BY DEF LaneShape, Lesser, Taken, Debit
<1>2. /\ e.available_balance \in Nat /\ e.withdrawing_balance \in Nat
  BY DEF EntryShape
<1>3. /\ LaneShape(new) /\ new.initialized
      /\ new.locked_balance = ln.locked_balance - k
      /\ new.settled_cumulative = target
  BY <1>1, SettledShape
<1>. HIDE DEF n, k, d, new
<1>7. /\ ~(d > 0) => f = e
      /\ d > 0 => f = Drain(e, d) /\ e.initialized /\ Total(e) >= d
  <2>1. /\ ~(d > 0) => -d = 0 /\ ~(-d > 0) /\ ~(-d < 0)
        /\ d > 0 => -d < 0 /\ ~(-d > 0) /\ -d # 0 /\ -(-d) = d
    BY <1>1, Negated
  <2>2. CanApplyDelta(e, -d)
    BY DEF d
  <2>. QED
    BY <2>1, <2>2 DEF ApplyDelta, CanApplyDelta
<1>. HIDE DEF f
<1>4. /\ EntryShape(f)
      /\ f.available_balance <= e.available_balance
      /\ f.withdrawing_balance <= e.withdrawing_balance
      /\ f.available_balance + f.withdrawing_balance + d
           = e.available_balance + e.withdrawing_balance
  <2>1. CASE ~(d > 0)
    <3>1. f = e
      BY <1>7, <2>1
    <3>2. d = 0
      BY <1>1, <2>1
    <3>. QED
      BY <1>2, <3>1, <3>2
  <2>2. CASE d > 0
    <3>1. e.available_balance + e.withdrawing_balance >= d
      BY <1>7, <2>2 DEF Total
    <3>. QED
      BY <1>1, <1>7, <2>2, <3>1, DrainShape
  <2>. QED
    BY <2>1, <2>2
<1>5. f.available_balance \in Nat /\ f.withdrawing_balance \in Nat
  BY <1>4 DEF EntryShape
<1>6. Paid(e, ln, f, new)
  BY <1>1, <1>2, <1>3, <1>4, <1>5 DEF Paid
<1>. QED
  BY <1>6 DEF f, new, d, k

\* A payment up to target on p's lane, as the accounts of the agents show it.
Cashes(p, target) ==
  LET e == slot[<<p, Tok>>]
      ln == lane[LaneTo(p)]
  IN  /\ ln.initialized /\ target > ln.settled_cumulative
      /\ CanApplyDelta(e, -Debit(ln, target))
      /\ slot'[<<p, Tok>>] = ApplyDelta(e, -Debit(ln, target))
      /\ lane'[LaneTo(p)] = ApplyLaneSettlement(ln, target, Taken(ln, target))
      /\ \A w \in Agents :
           /\ <<w, Tok>> \in DOMAIN slot' /\ LaneTo(w) \in DOMAIN lane'
           /\ w # p => /\ slot'[<<w, Tok>>] = slot[<<w, Tok>>]
                       /\ lane'[LaneTo(w)] = lane[LaneTo(w)]

\* The merchant that cashes a commitment, by transaction or in a round of one lane, has
\* the effect named above on the agents' accounts.
LEMMA CashesHasEffect ==
  ASSUME Amounted, NEW p \in Agents, NEW target \in Nat, Cashes(p, target)
  PROVE  CashEffect
<1>. DEFINE e == slot[<<p, Tok>>]
            ln == lane[LaneTo(p)]
            f == slot'[<<p, Tok>>]
            new == lane'[LaneTo(p)]
<1>1. EntryShape(e) /\ LaneShape(ln)
  BY DEF Amounted
<1>2. /\ ln.initialized /\ target > ln.settled_cumulative
      /\ CanApplyDelta(e, -Debit(ln, target))
      /\ f = ApplyDelta(e, -Debit(ln, target))
      /\ new = ApplyLaneSettlement(ln, target, Taken(ln, target))
  BY DEF Cashes
<1>. HIDE DEF e, ln, f, new
<1>3. Paid(e, ln, f, new)
  BY <1>1, <1>2, PaidByCashing
<1>5. ASSUME NEW w \in Agents
      PROVE  /\ <<w, Tok>> \in DOMAIN slot' /\ EntryShape(slot'[<<w, Tok>>])
             /\ LaneTo(w) \in DOMAIN lane' /\ LaneShape(lane'[LaneTo(w)])
             /\ Open(w)' = Open(w)
             /\ Locked(w)' <= Locked(w)
             /\ Locked(w)' + Settled(w)' >= Locked(w) + Settled(w)
             /\ Free(w)' <= Free(w)
             /\ Leaving(w)' <= Leaving(w)
             /\ Free(w)' + Leaving(w)' + Locked(w)' + Settled(w)'
                  = Free(w) + Leaving(w) + Locked(w) + Settled(w)
  <2>1. <<w, Tok>> \in DOMAIN slot' /\ LaneTo(w) \in DOMAIN lane'
    BY DEF Cashes
  <2>2. CASE w = p
    BY <1>3, <2>1, <2>2 DEF Paid, e, ln, f, new, Open, Locked, Settled, Free, Leaving
  <2>3. CASE w # p
    <3>1. /\ slot'[<<w, Tok>>] = slot[<<w, Tok>>]
          /\ lane'[LaneTo(w)] = lane[LaneTo(w)]
      BY <2>3 DEF Cashes
    <3>2. EntryShape(slot[<<w, Tok>>]) /\ LaneShape(lane[LaneTo(w)])
      BY DEF Amounted
    <3>3. /\ Open(w)' = Open(w) /\ Locked(w)' = Locked(w) /\ Settled(w)' = Settled(w)
          /\ Free(w)' = Free(w) /\ Leaving(w)' = Leaving(w)
      BY <3>1 DEF Open, Locked, Settled, Free, Leaving
    <3>4. /\ Locked(w) \in Nat /\ Settled(w) \in Nat
          /\ Free(w) \in Nat /\ Leaving(w) \in Nat
      BY <3>2 DEF EntryShape, LaneShape, Locked, Settled, Free, Leaving
    <3>. QED
      BY <2>1, <3>1, <3>2, <3>3, <3>4
  <2>. QED
    BY <2>2, <2>3
<1>. QED
  BY <1>5, Zenon DEF CashEffect, Amounted

\* settle_individual, submitted by the merchant.
LEMMA SettleIndividualEffect ==
  ASSUME Amounted, NEW cm \in Commitments, SettleIndividual(cm, Merchant)
  PROVE  CashEffect
<1>. DEFINE l == cm.lane
            target == cm.amount
<1>1. l \in Lanes /\ target \in Nat
  BY CommitmentsAssumption
<1>2. PICK p \in Agents : l = LaneTo(p)
  BY <1>1, LanesAre
<1>. DEFINE net == IndividualNet(cm)
            d == Debit(lane[l], target)
            k == Taken(lane[l], target)
<1>3. /\ Increases(l, target)
      /\ ApplySettlement(l.token, [x \in {l} |-> target], net)
  BY Zenon DEF SettleIndividual, CommitmentAccepted
<1>4. l.payer = p /\ l.payee = Merchant /\ l.token = Tok
  BY <1>2, LanesAre
<1>5. /\ lane[l].initialized /\ target > lane[l].settled_cumulative
      /\ LockedConsumed(l, target) = k
      /\ SharedDebit(l, target) = d
  BY <1>3 DEF Increases, Owed, LockedConsumed, SharedDebit, Taken, Debit
<1>6. \A w \in Agents : net[w] = IF w = p THEN -d ELSE 0
  BY <1>4, <1>5, RosterShape DEF IndividualNet
<1>. HIDE DEF net, l, target, d, k
<1>7. \A w \in Agents :
        /\ CanApplyDelta(slot[<<w, Tok>>], net[w])
        /\ <<w, Tok>> \in DOMAIN slot'
        /\ slot'[<<w, Tok>>] = ApplyDelta(slot[<<w, Tok>>], net[w])
  <2>1. /\ \A w \in Participants : CanApplyDelta(slot[<<w, Tok>>], net[w])
        /\ slot' = [x \in Accounts |-> IF x[2] = Tok THEN ApplyDelta(slot[x], net[x[1]])
                                                     ELSE slot[x]]
    BY <1>3, <1>4, Zenon DEF ApplySettlement, CanApplySettlement
  <2>. QED
    BY <2>1, LanesAre, RosterShape
<1>8. \A w \in Agents :
        /\ LaneTo(w) \in DOMAIN lane'
        /\ lane'[LaneTo(w)] = IF w = p THEN ApplyLaneSettlement(lane[LaneTo(w)], target, k)
                                       ELSE lane[LaneTo(w)]
  <2>1. lane' = [x \in Lanes |-> IF x \in DOMAIN [y \in {l} |-> target]
                                 THEN ApplyLaneSettlement(lane[x], [y \in {l} |-> target][x],
                                        LockedConsumed(x, [y \in {l} |-> target][x]))
                                 ELSE lane[x]]
    BY <1>3, Zenon DEF ApplySettlement
  <2>2. ASSUME NEW w \in Agents
        PROVE  /\ LaneTo(w) \in DOMAIN lane'
               /\ lane'[LaneTo(w)] = IF w = p
                                     THEN ApplyLaneSettlement(lane[LaneTo(w)], target, k)
                                     ELSE lane[LaneTo(w)]
    <3>1. LaneTo(w) \in Lanes /\ (LaneTo(w) = l <=> w = p)
      BY <1>2, LanesAre
    <3>. QED
      BY <1>5, <2>1, <3>1
  <2>. QED
    BY <2>2
<1>9. \A w \in Agents : w # p => ApplyDelta(slot[<<w, Tok>>], net[w]) = slot[<<w, Tok>>]
  BY <1>6 DEF ApplyDelta
<1>10. Cashes(p, target)
  BY <1>2, <1>5, <1>6, <1>7, <1>8, <1>9 DEF Cashes, d, k
<1>. QED
  BY <1>1, <1>10, CashesHasEffect

\* A step that touches no agent but p.
Touches(p) ==
  \A w \in Agents :
    /\ <<w, Tok>> \in DOMAIN slot' /\ LaneTo(w) \in DOMAIN lane'
    /\ w # p => /\ slot'[<<w, Tok>>] = slot[<<w, Tok>>]
                /\ lane'[LaneTo(w)] = lane[LaneTo(w)]

\* A step leaves agent w all it has.
SameAmounts(w) ==
  /\ Open(w)' = Open(w) /\ Locked(w)' = Locked(w) /\ Settled(w)' = Settled(w)
  /\ Free(w)' = Free(w) /\ Leaving(w)' = Leaving(w)

\* The amounts that agents hold are numbers.
LEMMA Numbers ==
  ASSUME Amounted, NEW w \in Agents
  PROVE  /\ Locked(w) \in Nat /\ Settled(w) \in Nat /\ Free(w) \in Nat /\ Leaving(w) \in Nat
         /\ Open(w) \in BOOLEAN
         /\ ~Open(w) => Locked(w) = 0 /\ Settled(w) = 0
BY DEF Amounted, EntryShape, LaneShape, Locked, Settled, Free, Leaving, Open

\* A handler that touches one agent's accounts leaves all others their amounts.
LEMMA TouchesOne ==
  ASSUME Amounted, NEW p \in Agents, Touches(p),
         EntryShape(slot'[<<p, Tok>>]), LaneShape(lane'[LaneTo(p)])
  PROVE  /\ Amounted'
         /\ \A w \in Agents \ {p} : SameAmounts(w)
<1>1. Amounted'
  BY DEF Amounted, Touches
<1>2. \A w \in Agents \ {p} : SameAmounts(w)
  BY DEF Touches, SameAmounts, Open, Locked, Settled, Free, Leaving
<1>. QED
  BY <1>1, <1>2

\* A step that leaves entries and lanes alone leaves all amounts.
LEMMA UntouchedAmounts ==
  ASSUME Amounted, UNCHANGED <<slot, lane>>
  PROVE  Amounted' /\ \A w \in Agents : SameAmounts(w)
BY DEF Amounted, SameAmounts, Open, Locked, Settled, Free, Leaving

\* deposit
LEMMA DepositEffect ==
  ASSUME Amounted, NEW p \in Agents, NEW n \in Nat, Deposit(p, Tok, n)
  PROVE  /\ Amounted'
         /\ \A w \in Agents \ {p} : SameAmounts(w)
         /\ Open(p)' = Open(p) /\ Locked(p)' = Locked(p) /\ Settled(p)' = Settled(p)
         /\ Free(p)' = Free(p) + n /\ Leaving(p)' = Leaving(p)
         /\ funded' = [funded EXCEPT ![<<p, Tok>>] = @ + n]
         /\ UNCHANGED bls
<1>1. /\ slot' = [slot EXCEPT ![<<p, Tok>>] = Credit(@, n)]
      /\ UNCHANGED <<lane, bls>>
      /\ funded' = [funded EXCEPT ![<<p, Tok>>] = @ + n]
  BY DEF Deposit, laneVars, memberVars
<1>2. EntryShape(slot[<<p, Tok>>]) /\ LaneShape(lane[LaneTo(p)]) /\ <<p, Tok>> \in DOMAIN slot
  BY DEF Amounted
<1>3. slot'[<<p, Tok>>] = Credit(slot[<<p, Tok>>], n) /\ lane'[LaneTo(p)] = lane[LaneTo(p)]
  BY <1>1, <1>2
<1>4. Touches(p)
  BY <1>1 DEF Touches, Amounted
<1>5. EntryShape(slot'[<<p, Tok>>]) /\ LaneShape(lane'[LaneTo(p)])
  BY <1>2, <1>3, CreditShape
<1>6. /\ Open(p)' = Open(p) /\ Locked(p)' = Locked(p) /\ Settled(p)' = Settled(p)
      /\ Free(p)' = Free(p) + n /\ Leaving(p)' = Leaving(p)
  BY <1>2, <1>3, CreditShape DEF Open, Locked, Settled, Free, Leaving
<1>. QED
  BY <1>1, <1>4, <1>5, <1>6, TouchesOne

\* create_channel
LEMMA CreateChannelEffect ==
  ASSUME Amounted, NEW p \in Agents, NEW signer, CreateChannel(LaneTo(p), TRUE, signer)
  PROVE  /\ Amounted'
         /\ \A w \in Agents \ {p} : SameAmounts(w)
         /\ Open(p)' /\ Locked(p)' = Locked(p) /\ Settled(p)' = Settled(p)
         /\ Free(p)' = Free(p) /\ Leaving(p)' = Leaving(p)
         /\ UNCHANGED <<bls, funded>>
<1>1. /\ ~lane[LaneTo(p)].initialized
      /\ lane' = [lane EXCEPT ![LaneTo(p)] = InitializeLane(signer)]
      /\ UNCHANGED <<slot, funded, bls>>
  BY DEF CreateChannel, balanceVars, memberVars
<1>2. /\ EntryShape(slot[<<p, Tok>>]) /\ LaneShape(lane[LaneTo(p)])
      /\ LaneTo(p) \in DOMAIN lane
  BY DEF Amounted
<1>3. slot'[<<p, Tok>>] = slot[<<p, Tok>>] /\ lane'[LaneTo(p)] = InitializeLane(signer)
  BY <1>1, <1>2
<1>4. Touches(p)
  BY <1>1, LanesAre DEF Touches, Amounted
<1>5. /\ LaneShape(InitializeLane(signer)) /\ InitializeLane(signer).initialized
      /\ InitializeLane(signer).locked_balance = 0
      /\ InitializeLane(signer).settled_cumulative = 0
  BY DEF InitializeLane, UninitializedLane, LaneShape
<1>6. /\ Open(p)' /\ Locked(p)' = Locked(p) /\ Settled(p)' = Settled(p)
      /\ Free(p)' = Free(p) /\ Leaving(p)' = Leaving(p)
  BY <1>1, <1>2, <1>3, <1>5 DEF Open, Locked, Settled, Free, Leaving, LaneShape
<1>. QED
  BY <1>1, <1>2, <1>3, <1>4, <1>5, <1>6, TouchesOne

\* lock_channel_funds
LEMMA LockEffect ==
  ASSUME Amounted, NEW p \in Agents, NEW n \in Nat, LockChannelFunds(LaneTo(p), n)
  PROVE  /\ Amounted'
         /\ \A w \in Agents \ {p} : SameAmounts(w)
         /\ Open(p) /\ Open(p)' /\ Locked(p)' = Locked(p) + n /\ Settled(p)' = Settled(p)
         /\ Free(p)' + n = Free(p) /\ Leaving(p)' = Leaving(p)
         /\ UNCHANGED <<bls, funded>>
<1>. DEFINE e == slot[<<p, Tok>>]
            ln == lane[LaneTo(p)]
            f == slot'[<<p, Tok>>]
            new == lane'[LaneTo(p)]
<1>1. /\ ln.initialized
      /\ CanDebitAvailable(e, n)
      /\ slot' = [slot EXCEPT ![<<p, Tok>>] = DebitAvailable(@, n)]
      /\ lane' = [lane EXCEPT ![LaneTo(p)] = AddLocked(@, n)]
      /\ UNCHANGED <<funded, bls>>
  BY LanesAre DEF LockChannelFunds, memberVars
<1>2. /\ EntryShape(e) /\ LaneShape(ln)
      /\ LaneTo(p) \in DOMAIN lane /\ <<p, Tok>> \in DOMAIN slot
  BY DEF Amounted
<1>3. f = DebitAvailable(e, n) /\ new = AddLocked(ln, n)
  BY <1>1, <1>2
<1>4. Touches(p)
  BY <1>1, LanesAre DEF Touches, Amounted
<1>. HIDE DEF e, ln, f, new
<1>5. /\ DOMAIN f = DOMAIN e /\ f.initialized = e.initialized
      /\ f.available_balance = e.available_balance - n
      /\ f.withdrawing_balance = e.withdrawing_balance
  BY <1>2, <1>3 DEF DebitAvailable, EntryShape
<1>6. /\ DOMAIN new = DOMAIN ln /\ new.initialized = ln.initialized
      /\ new.locked_balance = ln.locked_balance + n
      /\ new.settled_cumulative = ln.settled_cumulative
  BY <1>2, <1>3 DEF AddLocked, LaneShape
<1>7. e.initialized /\ e.available_balance >= n
  BY <1>1 DEF CanDebitAvailable
<1>8. EntryShape(f) /\ LaneShape(new)
  BY <1>1, <1>2, <1>5, <1>6, <1>7 DEF EntryShape, LaneShape
<1>9. /\ Open(p) /\ Open(p)' /\ Locked(p)' = Locked(p) + n /\ Settled(p)' = Settled(p)
      /\ Free(p)' + n = Free(p) /\ Leaving(p)' = Leaving(p)
  <2>1. e.available_balance \in Nat
    BY <1>2 DEF EntryShape
  <2>2. f.available_balance + n = e.available_balance
    BY <1>5, <2>1
  <2>. QED
    BY <1>1, <1>5, <1>6, <2>2 DEF e, ln, f, new, Open, Locked, Settled, Free, Leaving
<1>. QED
  BY <1>1, <1>4, <1>8, <1>9, TouchesOne DEF f, new
-----------------------------------------------------------------------------
(***************************************************************************)
(* The setup: the manifest is honoured.                                    *)
(***************************************************************************)
\* Keys, lanes and what was given to them are never lost again.
Kept ==
  /\ Amounted' /\ bls \subseteq bls'
  /\ \A w \in Agents :
       /\ Open(w) => Open(w)'
       /\ Locked(w) + Settled(w) <= Locked(w)' + Settled(w)'

\* What the setup has reached for an agent, an open lane with the promised collateral
\* locked or paid, is not lost in a step that keeps it.
LEMMA KeptHonour ==
  ASSUME Amounted, Kept, NEW w \in Agents
  PROVE  /\ Open(w) => Open(w)'
         /\ Honoured(w) => Honoured(w)'
         /\ Locked(w)' \in Nat /\ Settled(w)' \in Nat
<1>1. /\ Locked(w) \in Nat /\ Settled(w) \in Nat
      /\ Locked(w)' \in Nat /\ Settled(w)' \in Nat
  <2>1. LaneShape(lane[LaneTo(w)]) /\ LaneShape(lane'[LaneTo(w)])
    BY DEF Kept, Amounted
  <2>. QED
    BY <2>1 DEF Locked, Settled, LaneShape
<1>2. /\ Open(w) => Open(w)'
      /\ Locked(w) + Settled(w) <= Locked(w)' + Settled(w)'
  BY DEF Kept
<1>3. LockTarget \in Nat
  BY SetupAssumption
<1>. QED
  BY <1>1, <1>2, <1>3 DEF Honoured

\* Reading and sending change nothing on chain.
LEMMA ReadingKeeps ==
  ASSUME Amounted, UNCHANGED vars
  PROVE  Kept
<1>1. UNCHANGED <<slot, lane>> /\ UNCHANGED bls
  BY DEF vars, balanceVars, laneVars, memberVars
<1>2. Amounted' /\ \A w \in Agents : SameAmounts(w)
  BY <1>1, UntouchedAmounts
<1>3. ASSUME NEW w \in Agents
      PROVE  /\ Open(w) => Open(w)'
             /\ Locked(w) + Settled(w) <= Locked(w)' + Settled(w)'
  BY <1>2, Numbers DEF SameAmounts
<1>. QED
  BY <1>1, <1>2, <1>3 DEF Kept

\* So do the merchant's settlements, which only move collateral to what is
\* settled.
LEMMA CashKeeps ==
  ASSUME Amounted, Cash
  PROVE  Kept /\ CashEffect /\ UNCHANGED <<scriptVars, bls, funded>>
<1>1. PICK cm \in Commitments : SettleIndividual(cm, Merchant)
  BY DEF Cash
<1>2. CashEffect
  BY <1>1, SettleIndividualEffect
<1>3. UNCHANGED <<bls, funded>> /\ UNCHANGED scriptVars
  BY <1>1 DEF Cash, SettleIndividual, ApplySettlement, memberVars
<1>4. ASSUME NEW w \in Agents
      PROVE  /\ Open(w) => Open(w)'
             /\ Locked(w) + Settled(w) <= Locked(w)' + Settled(w)'
  <2>1. LaneShape(lane[LaneTo(w)]) /\ LaneShape(lane'[LaneTo(w)])
    BY <1>2 DEF CashEffect, Amounted
  <2>2. /\ Locked(w) \in Nat /\ Settled(w) \in Nat
        /\ Locked(w)' \in Nat /\ Settled(w)' \in Nat
    BY <2>1 DEF Locked, Settled, LaneShape
  <2>. QED
    BY <1>2, <2>2 DEF CashEffect
<1>. QED
  BY <1>2, <1>3, <1>4 DEF Kept, CashEffect

\* A transaction that lands does what it was sent for.
LEMMA ExecuteKeeps ==
  ASSUME Amounted, NEW tx, TxShape(tx), Execute(tx)
  PROVE  /\ Kept
         /\ tx.kind = "bls" => tx.owner \in bls'
         /\ tx.kind = "channel" => Open(tx.owner)'
         /\ tx.kind = "lock" =>
              /\ Open(tx.owner)'
              /\ Locked(tx.owner)' + Settled(tx.owner)'
                   = Locked(tx.owner) + Settled(tx.owner) + tx.amount
<1>. DEFINE p == tx.owner
<1>1. CASE tx.kind = "bls"
  <2>1. UNCHANGED <<slot, lane>> /\ bls' = bls \cup {tx.owner}
    BY <1>1 DEF Execute, RegisterBlsKey, balanceVars, laneVars
  <2>2. Amounted' /\ \A w \in Agents : SameAmounts(w)
    BY <2>1, UntouchedAmounts
  <2>3. ASSUME NEW w \in Agents
        PROVE  /\ Open(w) => Open(w)'
               /\ Locked(w) + Settled(w) <= Locked(w)' + Settled(w)'
    BY <2>2, Numbers DEF SameAmounts
  <2>. QED
    BY <1>1, <2>1, <2>2, <2>3 DEF Kept
<1>2. CASE tx.kind \in {"deposit", "channel", "lock"}
  <2>1. p \in Agents /\ tx.amount \in Nat
    BY <1>2 DEF TxShape
  <2>2. /\ tx.kind = "deposit" => Deposit(p, Tok, tx.amount)
        /\ tx.kind = "channel" => CreateChannel(LaneTo(p), TRUE, p)
        /\ tx.kind = "lock" => LockChannelFunds(LaneTo(p), tx.amount)
    BY <1>2 DEF Execute
  <2>3. /\ Amounted' /\ UNCHANGED bls
        /\ \A w \in Agents \ {p} : SameAmounts(w)
        /\ Open(p) => Open(p)'
        /\ Settled(p)' = Settled(p)
        /\ tx.kind # "lock" => Locked(p)' = Locked(p)
        /\ tx.kind = "lock" => Open(p)' /\ Locked(p)' = Locked(p) + tx.amount
        /\ tx.kind = "channel" => Open(p)'
    <3>1. CASE tx.kind = "deposit"
      BY <2>1, <2>2, <3>1, DepositEffect
    <3>2. CASE tx.kind = "channel"
      BY <2>1, <2>2, <3>2, CreateChannelEffect
    <3>3. CASE tx.kind = "lock"
      BY <2>1, <2>2, <3>3, LockEffect
    <3>. QED
      BY <1>2, <3>1, <3>2, <3>3
  <2>. HIDE DEF p
  <2>4. Locked(p) \in Nat /\ Settled(p) \in Nat
    BY <2>1, Numbers
  <2>5. ASSUME NEW w \in Agents
        PROVE  /\ Open(w) => Open(w)'
               /\ Locked(w) + Settled(w) <= Locked(w)' + Settled(w)'
    <3>1. CASE w = p
      BY <2>1, <2>3, <2>4, <3>1
    <3>2. CASE w # p
      BY <2>3, <3>2, Numbers DEF SameAmounts
    <3>. QED
      BY <3>1, <3>2
  <2>6. tx.kind = "lock" => Locked(p)' + Settled(p)' = Locked(p) + Settled(p) + tx.amount
    BY <2>1, <2>3, <2>4
  <2>. QED
    BY <1>2, <2>3, <2>5, <2>6 DEF Kept, p
<1>3. CASE tx.kind = "table"
  <2>1. UNCHANGED vars
    BY <1>3 DEF Execute
  <2>. QED
    BY <1>3, <2>1, ReadingKeeps
<1>. QED
  BY <1>1, <1>2, <1>3 DEF TxShape
\* Where a step leads: the next phase of the same agent, or the next one.
LEMMA AfterIs ==
  ASSUME NEW i \in Nat
  PROVE  /\ i \in DOMAIN Wallets /\ i # Len(Wallets) =>
              After("bls", i) = [phase |-> "bls", at |-> i + 1] /\ i + 1 \in DOMAIN Wallets
         /\ After("bls", Len(Wallets)) = [phase |-> "lane", at |-> 1]
         /\ After("lane", i) = [phase |-> "deposit", at |-> i]
         /\ After("deposit", i) = [phase |-> "channel", at |-> i]
         /\ After("channel", i) = [phase |-> "lock", at |-> i]
         /\ i \in DOMAIN Roster /\ i # Len(Roster) =>
              After("lock", i) = [phase |-> "lane", at |-> i + 1] /\ i + 1 \in DOMAIN Roster
         /\ After("lock", Len(Roster)) = [phase |-> "table", at |-> 1]
         /\ After("table", i) = [phase |-> "manifest", at |-> 1]
         /\ 1 \in DOMAIN Roster /\ 1 \in DOMAIN Wallets
<1>1. /\ i \in DOMAIN Wallets /\ i # Len(Wallets) => i < Len(Wallets) /\ i + 1 \in DOMAIN Wallets
      /\ i \in DOMAIN Roster /\ i # Len(Roster) => i < Len(Roster) /\ i + 1 \in DOMAIN Roster
      /\ ~(Len(Wallets) < Len(Wallets)) /\ ~(Len(Roster) < Len(Roster))
      /\ 1 \in DOMAIN Roster /\ 1 \in DOMAIN Wallets
  BY RosterShape
<1>2. /\ i < Len(Wallets) => After("bls", i) = [phase |-> "bls", at |-> i + 1]
      /\ After("bls", Len(Wallets)) = [phase |-> "lane", at |-> 1]
      /\ i < Len(Roster) => After("lock", i) = [phase |-> "lane", at |-> i + 1]
      /\ After("lock", Len(Roster)) = [phase |-> "table", at |-> 1]
  BY <1>1 DEF After
<1>3. /\ After("lane", i) = [phase |-> "deposit", at |-> i]
      /\ After("deposit", i) = [phase |-> "channel", at |-> i]
      /\ After("channel", i) = [phase |-> "lock", at |-> i]
      /\ After("table", i) = [phase |-> "manifest", at |-> 1]
  BY DEF After
<1>. QED
  BY <1>1, <1>2, <1>3

\* All members of a list, when those before a position and the one at it are.
LEMMA AllBefore ==
  ASSUME NEW n \in Nat, NEW i \in 1 .. n, NEW T, \A j \in 1 .. (i - 1) : j \in T, i \in T
  PROVE  /\ \A j \in 1 .. ((i + 1) - 1) : j \in T
         /\ i = n => \A j \in 1 .. n : j \in T
OBVIOUS

\* The process goes on: what it had to do at its position is done.
LEMMA MovesOn ==
  ASSUME SetupInvariant, Kept,
         pc.phase \in {"bls", "lane", "deposit", "channel", "lock", "table"},
         pc' = After(pc.phase, pc.at), sent' = {}, UNCHANGED <<late, table, manifest>>,
         pc.phase = "bls" => Wallets[pc.at] \in bls',
         NEW p, p = Agent,
         IF pc.phase = "lane"
         THEN (seen'.initialized => Open(p)') /\ seen'.locked \in Nat
         ELSE UNCHANGED seen,
         pc.phase = "channel" => Open(p)',
         pc.phase = "lock" => Honoured(p)',
         pc.phase = "table" => table.size = TableAddresses
  PROVE  SetupInvariant'
<1>1. Amounted' /\ bls \subseteq bls'
  BY DEF Kept
<1>2. /\ SetupPosition /\ SetupReached /\ Amounted
      /\ pc.at \in Nat /\ seen'.locked \in Nat
  BY DEF SetupInvariant, SetupPosition
<1>3. ~manifest.written /\ UNCHANGED manifest
  BY <1>2 DEF SetupReached
<1>4. SetupPosition' /\ SetupReached'
  <2>1. CASE pc.phase = "bls"
    <3>1. pc.at \in DOMAIN Wallets /\ pc.at \in 1 .. Len(Wallets)
      BY <1>2, <2>1, RosterShape DEF SetupPosition
    <3>. DEFINE T == {j \in DOMAIN Wallets : Wallets[j] \in bls'}
    <3>2. \A j \in 1 .. (pc.at - 1) : j \in T
      <4>1. \A j \in 1 .. (pc.at - 1) : Wallets[j] \in bls /\ j \in DOMAIN Wallets
        BY <1>2, <2>1, <3>1, RosterShape DEF SetupReached
      <4>. QED
        BY <1>1, <4>1
    <3>3. pc.at \in T
      BY <2>1, <3>1
    <3>4. /\ \A j \in 1 .. ((pc.at + 1) - 1) : j \in T
          /\ pc.at = Len(Wallets) => \A j \in DOMAIN Wallets : j \in T
      BY <3>1, <3>2, <3>3, AllBefore, RosterShape
    <3>5. CASE pc.at = Len(Wallets)
      <4>1. pc' = [phase |-> "lane", at |-> 1] /\ 1 \in DOMAIN Roster
        BY <1>2, <2>1, <3>5, AfterIs
      <4>2. Range(Wallets) \subseteq bls'
        BY <3>4, <3>5, WalletsAre
      <4>. QED
        BY <1>2, <1>3, <4>1, <4>2
        DEF SetupPosition, SetupReached, AgentPhases, Phases
    <3>6. CASE pc.at # Len(Wallets)
      <4>1. pc' = [phase |-> "bls", at |-> pc.at + 1] /\ pc.at + 1 \in DOMAIN Wallets
        BY <1>2, <2>1, <3>1, <3>6, AfterIs
      <4>. QED
        BY <1>2, <1>3, <3>4, <4>1
        DEF SetupPosition, SetupReached, AgentPhases, Phases
    <3>. QED
      BY <3>5, <3>6
  <2>2. CASE pc.phase \in AgentPhases
    <3>1. /\ pc.at \in DOMAIN Roster /\ pc.at \in 1 .. Len(Roster)
          /\ Roster[pc.at] = p /\ p \in Agents
      BY <1>2, <2>2, RosterShape, WalletsAre DEF SetupPosition, Agent
    <3>. DEFINE T == {j \in DOMAIN Roster : Honoured(Roster[j])'}
    <3>2. \A j \in 1 .. (pc.at - 1) : j \in T
      <4>1. \A j \in 1 .. (pc.at - 1) : Honoured(Roster[j])
        BY <1>2, <2>2 DEF SetupReached
      <4>2. \A j \in 1 .. (pc.at - 1) : j \in DOMAIN Roster
        BY <3>1, RosterShape
      <4>. QED
        BY <1>2, <4>1, <4>2, KeptHonour, WalletsAre
    <3>3. Range(Wallets) \subseteq bls'
      BY <1>1, <1>2, <2>2 DEF SetupReached
    <3>4. \A j \in 1 .. (pc.at - 1) : Honoured(Roster[j])'
      BY <3>2
    <3>5. CASE pc.phase = "lane"
      <4>1. pc' = [phase |-> "deposit", at |-> pc.at]
        BY <1>2, <3>5, AfterIs
      <4>. QED
        BY <1>2, <1>3, <3>1, <3>3, <3>4, <3>5, <4>1
        DEF SetupPosition, SetupReached, AgentPhases, Phases, Agent
    <3>6. CASE pc.phase = "deposit"
      <4>1. pc' = [phase |-> "channel", at |-> pc.at]
        BY <1>2, <3>6, AfterIs
      <4>2. seen'.initialized => Open(p)'
        BY <1>2, <3>1, <3>6, KeptHonour DEF SetupReached, Agent
      <4>. QED
        BY <1>2, <1>3, <3>1, <3>3, <3>4, <4>1, <4>2
        DEF SetupPosition, SetupReached, AgentPhases, Phases, Agent
    <3>7. CASE pc.phase = "channel"
      <4>1. pc' = [phase |-> "lock", at |-> pc.at]
        BY <1>2, <3>7, AfterIs
      <4>. QED
        BY <1>2, <1>3, <3>1, <3>3, <3>4, <3>7, <4>1
        DEF SetupPosition, SetupReached, AgentPhases, Phases, Agent
    <3>8. CASE pc.phase = "lock"
      <4>1. pc.at \in T
        BY <3>1, <3>8
      <4>2. /\ \A j \in 1 .. ((pc.at + 1) - 1) : j \in T
            /\ pc.at = Len(Roster) => \A j \in DOMAIN Roster : j \in T
        BY <3>1, <3>2, <4>1, AllBefore, RosterShape
      <4>3. CASE pc.at = Len(Roster)
        <5>1. pc' = [phase |-> "table", at |-> 1]
          BY <1>2, <3>8, <4>3, AfterIs
        <5>2. \A w \in Agents : Honoured(w)'
          BY <4>2, <4>3, WalletsAre
        <5>. QED
          BY <1>2, <1>3, <3>3, <5>1, <5>2
          DEF SetupPosition, SetupReached, AgentPhases, Phases
      <4>4. CASE pc.at # Len(Roster)
        <5>1. pc' = [phase |-> "lane", at |-> pc.at + 1] /\ pc.at + 1 \in DOMAIN Roster
          BY <1>2, <3>1, <3>8, <4>4, AfterIs
        <5>2. \A j \in 1 .. ((pc.at + 1) - 1) : Honoured(Roster[j])'
          BY <4>2
        <5>. QED
          BY <1>2, <1>3, <3>3, <5>1, <5>2
          DEF SetupPosition, SetupReached, AgentPhases, Phases
      <4>. QED
        BY <4>3, <4>4
    <3>. QED
      BY <2>2, <3>5, <3>6, <3>7, <3>8 DEF AgentPhases
  <2>3. CASE pc.phase = "table"
    <3>1. pc' = [phase |-> "manifest", at |-> 1]
      BY <1>2, <2>3, AfterIs
    <3>2. Range(Wallets) \subseteq bls' /\ \A w \in Agents : Honoured(w)'
      BY <1>1, <1>2, <2>3, KeptHonour DEF SetupReached
    <3>. QED
      BY <1>2, <1>3, <2>3, <3>1, <3>2
      DEF SetupPosition, SetupReached, AgentPhases, Phases
  <2>. QED
    BY <2>1, <2>2, <2>3 DEF AgentPhases
<1>5. SetupWaits'
  BY DEF SetupInvariant, SetupWaits, LateTxs
<1>6. ManifestIsHonoured'
  BY <1>3 DEF ManifestIsHonoured
<1>. QED
  BY <1>1, <1>4, <1>5, <1>6 DEF SetupInvariant
\* The process sends what its position asks for and waits.
LEMMA SendsOne ==
  ASSUME SetupInvariant, NEW kind, NEW owner, NEW amount, Send(kind, owner, amount),
         kind = pc.phase, TxShape([kind |-> kind, owner |-> owner, amount |-> amount]),
         kind = "bls" => owner = Wallets[pc.at],
         kind \in {"deposit", "channel", "lock"} => owner = Agent,
         kind = "lock" => amount + Locked(Agent) + Settled(Agent) >= LockTarget
  PROVE  SetupInvariant'
<1>. DEFINE tx == [kind |-> kind, owner |-> owner, amount |-> amount]
<1>1. /\ sent' = {tx}
      /\ UNCHANGED <<slot, lane, bls, pc, seen, late, table, manifest>>
  BY DEF Send, vars, balanceVars, laneVars, memberVars, lateVars
<1>2. /\ Amounted /\ SetupPosition /\ SetupWaits /\ SetupReached /\ ManifestIsHonoured
  BY DEF SetupInvariant
<1>3. Amounted' /\ SetupPosition' /\ SetupReached' /\ ManifestIsHonoured'
  BY <1>1, <1>2 DEF Amounted, SetupPosition, SetupReached, ManifestIsHonoured,
       Honoured, Open, Locked, Settled, Agent
<1>4. kind \in {"bls", "deposit", "channel", "lock", "table"}
  BY DEF TxShape
<1>5. TxShape(tx) /\ tx.kind = kind /\ tx.owner = owner /\ tx.amount = amount
  OBVIOUS
<1>. HIDE DEF tx
<1>6. Agent' = Agent /\ Locked(Agent)' = Locked(Agent) /\ Settled(Agent)' = Settled(Agent)
  BY <1>1 DEF Agent, Locked, Settled
<1>7. SetupWaits'
  BY <1>1, <1>2, <1>4, <1>5, <1>6 DEF SetupWaits, LateTxs
<1>. QED
  BY <1>3, <1>7 DEF SetupInvariant

\* A run ends, whatever it has reached.
LEMMA StopsAnywhere ==
  ASSUME SetupInvariant, Kept, Stop, sent' = {}, LateTxs' \subseteq LateTxs \cup sent,
         \A old \in late' : LateShape(old),
         UNCHANGED <<seen, table, manifest>>
  PROVE  SetupInvariant'
<1>1. /\ pc' = [phase |-> "stopped", at |-> 1]
      /\ Amounted /\ SetupPosition /\ SetupWaits /\ SetupReached /\ ManifestIsHonoured
      /\ Amounted' /\ bls \subseteq bls'
  BY DEF Stop, SetupInvariant, Kept
<1>2. SetupPosition' /\ SetupReached'
  BY <1>1 DEF SetupPosition, SetupReached, Phases, AgentPhases
<1>3. SetupWaits'
  BY <1>1 DEF SetupWaits
<1>4. ManifestIsHonoured'
  BY <1>1, KeptHonour DEF ManifestIsHonoured, Honoured, Open, Locked, Settled, Agents
<1>. QED
  BY <1>1, <1>2, <1>3, <1>4 DEF SetupInvariant

\* Meanwhile others act on chain, or what an earlier run sent lands or is lost.
LEMMA OthersAct ==
  ASSUME SetupInvariant, Kept, LateTxs' \subseteq LateTxs,
         \A old \in late' : LateShape(old),
         UNCHANGED <<pc, seen, sent, table, manifest>>
  PROVE  SetupInvariant'
<1>1. /\ Amounted /\ SetupPosition /\ SetupWaits /\ SetupReached /\ ManifestIsHonoured
      /\ Amounted' /\ bls \subseteq bls'
  BY DEF SetupInvariant, Kept
<1>2. SetupPosition'
  BY <1>1 DEF SetupPosition
<1>3. SetupReached'
  <2>1. /\ pc.phase = "bls" => \A j \in 1 .. (pc.at - 1) : Wallets[j] \in bls'
        /\ pc.phase \in AgentPhases \cup {"table", "manifest"} => Range(Wallets) \subseteq bls'
        /\ pc.phase = "manifest" => table.size = TableAddresses
        /\ manifest.written => pc.phase = "stopped"
    BY <1>1 DEF SetupReached
  <2>2. pc.phase \in AgentPhases => \A j \in 1 .. (pc.at - 1) : Honoured(Roster[j])'
    <3>1. ASSUME pc.phase \in AgentPhases, NEW j \in 1 .. (pc.at - 1)
          PROVE  Honoured(Roster[j])'
      <4>1. pc.at \in DOMAIN Roster
        BY <1>1, <3>1 DEF SetupPosition
      <4>2. j \in DOMAIN Roster
        BY <4>1, RosterShape
      <4>3. Honoured(Roster[j]) /\ Roster[j] \in Agents
        BY <1>1, <3>1, <4>2, WalletsAre DEF SetupReached
      <4>. QED
        BY <1>1, <4>3, KeptHonour
    <3>. QED
      BY <3>1
  <2>3. pc.phase \in {"table", "manifest"} => \A w \in Agents : Honoured(w)'
    BY <1>1, KeptHonour DEF SetupReached
  <2>4. PICK p : p = Agent
    OBVIOUS
  <2>5. pc.phase \in AgentPhases => p \in Agents /\ (Open(p) => Open(p)')
    BY <1>1, <2>4, WalletsAre, KeptHonour DEF SetupPosition, Agent
  <2>6. Agent' = p
    BY <2>4 DEF Agent
  <2>7. /\ pc.phase \in {"deposit", "channel"} => (seen.initialized => Open(p)')
        /\ pc.phase = "lock" => Open(p)'
    BY <1>1, <2>4, <2>5 DEF SetupReached, AgentPhases
  <2>. QED
    BY <2>1, <2>2, <2>3, <2>6, <2>7 DEF SetupReached
<1>4. SetupWaits'
  <2>1. PICK p : p = Agent
    OBVIOUS
  <2>2. Agent' = p
    BY <2>1 DEF Agent
  <2>3. ASSUME NEW tx \in sent, tx.kind = "lock"
        PROVE  tx.amount + Locked(p)' + Settled(p)' >= LockTarget
    <3>1. pc.phase = "lock" /\ p \in Agents /\ tx.amount \in Nat
      BY <1>1, <2>1, <2>3, WalletsAre
      DEF SetupPosition, SetupWaits, AgentPhases, Agent, TxShape
    <3>2. tx.amount + Locked(p) + Settled(p) >= LockTarget
      BY <1>1, <2>1, <2>3 DEF SetupWaits
    <3>3. /\ Locked(p) + Settled(p) <= Locked(p)' + Settled(p)'
          /\ Locked(p)' \in Nat /\ Settled(p)' \in Nat
          /\ Locked(p) \in Nat /\ Settled(p) \in Nat
      BY <1>1, <3>1, KeptHonour, Numbers DEF Kept
    <3>4. LockTarget \in Nat
      BY SetupAssumption
    <3>5. PICK x, y, u, v : /\ x = Locked(p) /\ y = Settled(p)
                            /\ u = Locked(p)' /\ v = Settled(p)'
      OBVIOUS
    <3>. QED
      BY <3>1, <3>2, <3>3, <3>4, <3>5
  <2>4. /\ \A tx \in sent \cup LateTxs' : TxShape(tx)
        /\ pc.phase \in {"stopped", "lane", "manifest"} => sent = {}
        /\ \A tx \in sent :
             /\ tx.kind = pc.phase
             /\ tx.kind = "bls" => tx.owner = Wallets[pc.at]
             /\ tx.kind \in {"deposit", "channel", "lock"} => tx.owner = p
    BY <1>1, <2>1 DEF SetupWaits
  <2>. QED
    BY <2>2, <2>3, <2>4 DEF SetupWaits
<1>5. ManifestIsHonoured'
  BY <1>1, KeptHonour DEF ManifestIsHonoured, Honoured, Open, Locked, Settled, Agents
<1>. QED
  BY <1>1, <1>2, <1>3, <1>4, <1>5 DEF SetupInvariant
\* A run that starts overtakes what earlier runs have sent, and changes none of it.
LEMMA Overtaking ==
  ASSUME \A old \in late : LateShape(old),
         late' = {[old EXCEPT !.overtaken = TRUE] : old \in late}
  PROVE  /\ LateTxs' = LateTxs
         /\ Fresh' = {}
         /\ \A old \in late' : LateShape(old)
<1>1. ASSUME NEW old \in late
      PROVE  /\ LateShape([old EXCEPT !.overtaken = TRUE])
             /\ [old EXCEPT !.overtaken = TRUE].tx = old.tx
             /\ [old EXCEPT !.overtaken = TRUE].overtaken = TRUE
  BY DEF LateShape
<1>2. \A new \in late' : \E old \in late : new = [old EXCEPT !.overtaken = TRUE]
  OBVIOUS
<1>3. \A new \in late' : LateShape(new) /\ new.overtaken = TRUE
  BY <1>1, <1>2
<1>4. Fresh' = {}
  BY <1>3 DEF Fresh
<1>5. LateTxs' = LateTxs
  <2>1. ASSUME NEW tx \in LateTxs PROVE tx \in LateTxs'
    <3>1. PICK old \in late : tx = old.tx
      BY DEF LateTxs
    <3>2. [old EXCEPT !.overtaken = TRUE] \in late'
      BY <3>1
    <3>. QED
      BY <1>1, <3>1, <3>2 DEF LateTxs
  <2>2. ASSUME NEW tx \in LateTxs' PROVE tx \in LateTxs
    <3>1. PICK new \in late' : tx = new.tx
      BY DEF LateTxs
    <3>. QED
      BY <1>1, <1>2, <3>1 DEF LateTxs
  <2>. QED
    BY <2>1, <2>2
<1>. QED
  BY <1>3, <1>4, <1>5

\* A process that is killed leaves behind what it waits for, but for tables.
LEMMA LeavingBehind ==
  ASSUME \A old \in late : LateShape(old), NEW S \in SUBSET sent, NEW n,
         late' = late \cup {[tx |-> tx, run |-> n, overtaken |-> FALSE] : tx \in S}
  PROVE  /\ LateTxs' = LateTxs \cup S
         /\ \A old \in late' : LateShape(old)
         /\ \A old \in Fresh' : old \in Fresh \/
              \E tx \in S : old = [tx |-> tx, run |-> n, overtaken |-> FALSE]
<1>1. ASSUME NEW tx
      PROVE  /\ LateShape([tx |-> tx, run |-> n, overtaken |-> FALSE])
             /\ [tx |-> tx, run |-> n, overtaken |-> FALSE].tx = tx
  BY DEF LateShape
<1>2. LateTxs' = LateTxs \cup S
  BY <1>1 DEF LateTxs
<1>. QED
  BY <1>1, <1>2 DEF Fresh

\* Every step of the setup, of the chain and of the operator.
LEMMA SetupStepInvariant ==
  ASSUME SetupInvariant, Step
  PROVE  SetupInvariant'
<1>1. /\ Amounted /\ SetupPosition /\ SetupWaits /\ SetupReached /\ ManifestIsHonoured
  BY DEF SetupInvariant
<1>2. PICK p : p = Agent
  OBVIOUS
<1>3. pc.phase \in AgentPhases => p \in Agents
  BY <1>1, <1>2, WalletsAre DEF SetupPosition, Agent
<1>. USE DEF At
<1>4. CASE Start
  <2>1. /\ pc' = [phase |-> "bls", at |-> 1] /\ ~manifest.written
        /\ UNCHANGED vars /\ UNCHANGED <<seen, sent, manifest>> /\ sent = {}
        /\ late' = {[old EXCEPT !.overtaken = TRUE] : old \in late}
    BY <1>4 DEF Start
  <2>4. LateTxs' = LateTxs /\ \A old \in late' : LateShape(old)
    BY <1>1, <2>1, Overtaking DEF SetupWaits
  <2>2. Amounted'
    BY <1>1, <2>1, ReadingKeeps DEF Kept
  <2>3. SetupPosition' /\ SetupReached' /\ SetupWaits' /\ ManifestIsHonoured'
    BY <1>1, <2>1, <2>4, RosterShape
    DEF SetupPosition, SetupReached, SetupWaits, ManifestIsHonoured, Phases, AgentPhases
  <2>. QED
    BY <2>2, <2>3 DEF SetupInvariant
<1>5. CASE RegisterKey
  <2>1. CASE Wallets[pc.at] \in bls /\ Advance
    <3>1. pc.phase = "bls" /\ sent = {} /\ UNCHANGED bls
      BY <1>5, <2>1 DEF RegisterKey, Advance, vars, memberVars
    <3>2. Kept
      BY <1>1, <2>1, ReadingKeeps DEF Advance
    <3>3. Wallets[pc.at] \in bls'
      BY <2>1, <3>1
    <3>. QED
      BY <1>2, <2>1, <3>1, <3>2, <3>3, MovesOn DEF Advance, lateVars
  <2>2. CASE Send("bls", Wallets[pc.at], 0)
    <3>1. pc.phase = "bls"
      BY <1>5 DEF RegisterKey
    <3>. QED
      BY <2>2, <3>1, SendsOne DEF TxShape
  <2>. QED
    BY <1>5, <2>1, <2>2 DEF RegisterKey
<1>6. CASE ReadLane
  <2>1. /\ pc.phase = "lane" /\ sent = {} /\ UNCHANGED vars /\ UNCHANGED lane
        /\ seen'.initialized = Open(p) /\ seen'.locked = Locked(p) /\ p \in Agents
        /\ pc' = After(pc.phase, pc.at) /\ UNCHANGED <<sent, late, table, manifest>>
    BY <1>2, <1>3, <1>6 DEF ReadLane, Open, Locked, vars, laneVars, lateVars, AgentPhases
  <2>2. Kept
    BY <1>1, <2>1, ReadingKeeps
  <2>3. (seen'.initialized => Open(p)') /\ seen'.locked \in Nat
    BY <1>1, <2>1, Numbers DEF Open
  <2>. QED
    BY <1>2, <2>1, <2>2, <2>3, MovesOn
<1>7. CASE TopUpDeposit
  <2>1. pc.phase = "deposit" /\ sent = {}
    BY <1>7 DEF TopUpDeposit
  <2>2. CASE Advance
    <3>1. Kept
      BY <1>1, <2>2, ReadingKeeps DEF Advance
    <3>. QED
      BY <1>2, <2>1, <2>2, <3>1, MovesOn DEF Advance, lateVars
  <2>3. ASSUME ~Advance PROVE SetupInvariant'
    <3>. DEFINE total == slot[<<Agent, Tok>>].available_balance + seen.locked
    <3>1. ~(total >= DepositTarget) /\ Send("deposit", Agent, DepositTarget - total)
      BY <1>7, <2>3, Zenon DEF TopUpDeposit
    <3>2. total \in Nat
      BY <1>1, <1>2, <1>3, <2>1, Numbers DEF Free, AgentPhases, SetupPosition
    <3>. HIDE DEF total
    <3>3. DepositTarget - total \in Nat
      BY <3>1, <3>2, SetupAssumption
    <3>. QED
      BY <1>2, <1>3, <2>1, <3>1, <3>3, SendsOne DEF TxShape, AgentPhases
  <2>. QED
    BY <2>2, <2>3
<1>8. CASE OpenLane
  <2>1. pc.phase = "channel" /\ sent = {}
    BY <1>8 DEF OpenLane
  <2>2. CASE seen.initialized /\ Advance
    <3>1. Kept
      BY <1>1, <2>2, ReadingKeeps DEF Advance
    <3>2. Open(p)
      BY <1>1, <1>2, <2>1, <2>2 DEF SetupReached
    <3>3. Open(p)'
      BY <1>1, <1>3, <2>1, <3>1, <3>2, KeptHonour DEF AgentPhases
    <3>. QED
      BY <1>2, <2>1, <2>2, <3>1, <3>3, MovesOn DEF Advance, lateVars
  <2>3. CASE Send("channel", Agent, 0)
    BY <1>2, <1>3, <2>1, <2>3, SendsOne DEF TxShape, AgentPhases
  <2>. QED
    BY <1>8, <2>2, <2>3 DEF OpenLane
<1>9. CASE LockCollateral
  <2>1. /\ pc.phase = "lock" /\ sent = {} /\ p \in Agents
    BY <1>3, <1>9 DEF LockCollateral, AgentPhases
  <2>2. /\ Locked(p) \in Nat /\ Settled(p) \in Nat /\ LockTarget \in Nat
        /\ Open(p)
    BY <1>1, <1>2, <2>1, Numbers, SetupAssumption DEF SetupReached
  <2>3. CASE Locked(p) >= LockTarget /\ Advance
    <3>1. Kept
      BY <1>1, <2>3, ReadingKeeps DEF Advance
    <3>2. Honoured(p)
      BY <2>2, <2>3 DEF Honoured
    <3>3. Honoured(p)'
      BY <1>1, <2>1, <3>1, <3>2, KeptHonour
    <3>. QED
      BY <1>2, <2>1, <2>3, <3>1, <3>3, MovesOn DEF Advance, lateVars
  <2>4. CASE ~(Locked(p) >= LockTarget) /\ Send("lock", p, LockTarget - Locked(p))
    <3>1. /\ LockTarget - Locked(p) \in Nat
          /\ LockTarget - Locked(p) + Locked(p) + Settled(p) >= LockTarget
      BY <2>2, <2>4
    <3>. QED
      BY <1>2, <2>1, <2>4, <3>1, SendsOne DEF TxShape
  <2>. QED
    BY <1>2, <1>9, <2>3, <2>4 DEF LockCollateral, Locked
<1>10. CASE FillTable
  <2>1. pc.phase = "table" /\ sent = {}
    BY <1>10 DEF FillTable
  <2>2. CASE table.size = TableAddresses /\ Advance
    <3>1. Kept
      BY <1>1, <2>2, ReadingKeeps DEF Advance
    <3>. QED
      BY <1>2, <2>1, <2>2, <3>1, MovesOn DEF Advance, lateVars
  <2>3. ASSUME NEW n, Send("table", Merchant, n) PROVE SetupInvariant'
    BY <2>1, <2>3, SendsOne DEF TxShape
  <2>. QED
    BY <1>10, <2>2, <2>3 DEF FillTable
<1>11. CASE WriteManifest
  <2>1. /\ pc.phase = "manifest" /\ sent = {} /\ UNCHANGED vars
        /\ manifest' = [written |-> TRUE, size |-> table.size]
        /\ pc' = [pc EXCEPT !.phase = "stopped"]
        /\ UNCHANGED <<seen, sent, late, table>> /\ UNCHANGED <<lane, bls>>
    BY <1>11 DEF WriteManifest, vars, laneVars, memberVars, lateVars
  <2>2. Amounted'
    BY <1>1, <2>1, ReadingKeeps DEF Kept
  <2>3. pc' \in [phase : Phases, at : Nat] /\ pc'.phase = "stopped"
    BY <1>1, <2>1 DEF SetupPosition, Phases
  <2>4. SetupPosition' /\ SetupReached' /\ SetupWaits'
    BY <1>1, <2>1, <2>3
    DEF SetupPosition, SetupReached, SetupWaits, LateTxs, AgentPhases
  <2>5. ManifestIsHonoured'
    BY <1>1, <2>1
    DEF SetupReached, ManifestIsHonoured, Honoured, Open, Locked, Settled, Agents, AgentPhases
  <2>. QED
    BY <2>2, <2>4, <2>5 DEF SetupInvariant
<1>. QED
  BY <1>4, <1>5, <1>6, <1>7, <1>8, <1>9, <1>10, <1>11 DEF Step
\* The rest of the setup's steps.
LEMMA SetupNextInvariant ==
  ASSUME SetupInvariant, SetupNext
  PROVE  SetupInvariant'
<1>1. /\ Amounted /\ SetupPosition /\ SetupWaits /\ SetupReached /\ ManifestIsHonoured
  BY DEF SetupInvariant
<1>2. CASE Step
  BY <1>2, SetupStepInvariant
<1>3. CASE Land
  <2>1. PICK tx \in sent :
          /\ Execute(tx)
          /\ IF tx.kind = "table"
             THEN /\ table' = [created |-> TRUE, size |-> table.size + tx.amount]
                  /\ UNCHANGED pc
             ELSE /\ pc' = After(pc.phase, pc.at)
                  /\ UNCHANGED table
    BY <1>3 DEF Land
  <2>2. sent' = {} /\ UNCHANGED <<seen, late, manifest>>
    BY <1>3 DEF Land, lateVars
  <2>3. /\ TxShape(tx) /\ tx.kind = pc.phase
        /\ tx.kind = "bls" => tx.owner = Wallets[pc.at]
        /\ tx.kind \in {"deposit", "channel", "lock"} => tx.owner = Agent
        /\ tx.kind = "lock" => tx.amount + Locked(Agent) + Settled(Agent) >= LockTarget
        /\ tx.kind \in {"bls", "deposit", "channel", "lock", "table"}
    BY <1>1, <2>1 DEF SetupWaits, TxShape
  <2>4. /\ Kept
        /\ tx.kind = "bls" => tx.owner \in bls'
        /\ tx.kind = "channel" => Open(tx.owner)'
        /\ tx.kind = "lock" =>
             /\ Open(tx.owner)'
             /\ Locked(tx.owner)' + Settled(tx.owner)'
                  = Locked(tx.owner) + Settled(tx.owner) + tx.amount
    BY <1>1, <2>1, <2>3, ExecuteKeeps
  <2>5. CASE tx.kind = "table"
    <3>1. /\ pc' = pc /\ pc.phase = "table" /\ bls \subseteq bls' /\ Amounted'
          /\ \A w \in Agents : Honoured(w)
      BY <1>1, <2>1, <2>3, <2>4, <2>5 DEF SetupReached, Kept
    <3>2. \A w \in Agents : Honoured(w)'
      BY <1>1, <2>4, <3>1, KeptHonour
    <3>3. SetupPosition' /\ SetupReached' /\ SetupWaits' /\ ManifestIsHonoured'
      BY <1>1, <2>2, <3>1, <3>2
      DEF SetupPosition, SetupReached, SetupWaits, LateTxs, ManifestIsHonoured, AgentPhases
    <3>. QED
      BY <3>1, <3>3 DEF SetupInvariant
  <2>6. CASE tx.kind # "table"
    <3>1. PICK p : p = Agent
      OBVIOUS
    <3>2. /\ pc' = After(pc.phase, pc.at) /\ UNCHANGED table
          /\ pc.phase \in {"bls", "lane", "deposit", "channel", "lock", "table"}
          /\ pc.phase # "lane" /\ pc.phase # "table"
      BY <2>1, <2>3, <2>6
    <3>3. pc.phase = "bls" => Wallets[pc.at] \in bls'
      BY <2>3, <2>4
    <3>4. PICK q : q = tx.owner
      OBVIOUS
    <3>5. pc.phase \in {"channel", "lock"} => q = p /\ p \in Agents
      BY <1>1, <2>3, <3>1, <3>4, WalletsAre DEF SetupPosition, AgentPhases, Agent
    <3>6. pc.phase = "channel" => Open(p)'
      BY <2>3, <2>4, <3>4, <3>5
    <3>7. pc.phase = "lock" => Honoured(p)'
      <4>1. ASSUME pc.phase = "lock" PROVE Honoured(p)'
        <5>1. /\ Open(p)' /\ Locked(p)' + Settled(p)' = Locked(p) + Settled(p) + tx.amount
              /\ tx.amount + Locked(p) + Settled(p) >= LockTarget
              /\ tx.amount \in Nat
          BY <2>3, <2>4, <3>1, <3>4, <3>5, <4>1 DEF TxShape
        <5>2. Locked(p) \in Nat /\ Settled(p) \in Nat /\ LockTarget \in Nat
          BY <1>1, <3>5, <4>1, Numbers, SetupAssumption
        <5>3. Locked(p)' + Settled(p)' >= LockTarget
          BY <5>1, <5>2
        <5>. QED
          BY <5>1, <5>3 DEF Honoured
      <4>. QED
        BY <4>1
    <3>. QED
      BY <2>2, <2>4, <3>1, <3>2, <3>3, <3>6, <3>7, MovesOn
  <2>. QED
    BY <2>5, <2>6
<1>4. CASE Refused \/ Expire
  <2>1. Stop /\ sent' = {} /\ UNCHANGED vars /\ UNCHANGED <<seen, late, table, manifest>>
    BY <1>4 DEF Refused, Expire, lateVars
  <2>2. LateTxs' = LateTxs /\ \A old \in late' : LateShape(old)
    BY <1>1, <2>1 DEF LateTxs, SetupWaits
  <2>. QED
    BY <1>1, <2>1, <2>2, ReadingKeeps, StopsAnywhere
<1>5. CASE Kill
  <2>. DEFINE S == {x \in sent : x.kind # "table"}
  <2>1. /\ Stop /\ sent' = {} /\ UNCHANGED vars /\ UNCHANGED <<seen, table, manifest>>
        /\ late' = late \cup {[tx |-> tx, run |-> faults, overtaken |-> FALSE] : tx \in S}
        /\ S \in SUBSET sent
    BY <1>5 DEF Kill
  <2>. HIDE DEF S
  <2>2. LateTxs' \subseteq LateTxs \cup sent /\ \A old \in late' : LateShape(old)
    BY <1>1, <2>1, LeavingBehind DEF SetupWaits
  <2>. QED
    BY <1>1, <2>1, <2>2, ReadingKeeps, StopsAnywhere
<1>6. CASE LandLate
  <2>1. PICK old \in late :
          Execute(old.tx) /\ late' = late \ {old} /\ UNCHANGED <<pc, seen, sent, table, manifest>>
    BY <1>6 DEF LandLate
  <2>2. PICK tx : tx = old.tx
    OBVIOUS
  <2>3. TxShape(tx) /\ Execute(tx)
    BY <1>1, <2>1, <2>2 DEF SetupWaits, LateTxs
  <2>4. Kept
    BY <1>1, <2>3, ExecuteKeeps
  <2>5. LateTxs' \subseteq LateTxs /\ \A x \in late' : LateShape(x)
    BY <1>1, <2>1 DEF LateTxs, SetupWaits
  <2>. QED
    BY <2>1, <2>4, <2>5, OthersAct
<1>7. CASE DropLate
  <2>1. /\ late' \subseteq late /\ UNCHANGED <<pc, seen, sent, table, manifest>>
        /\ UNCHANGED vars
    BY <1>7 DEF DropLate
  <2>2. LateTxs' \subseteq LateTxs /\ \A x \in late' : LateShape(x)
    BY <1>1, <2>1 DEF LateTxs, SetupWaits
  <2>. QED
    BY <1>1, <2>1, <2>2, ReadingKeeps, OthersAct
<1>8. CASE Cash
  <2>1. Kept /\ UNCHANGED <<pc, seen, sent, late, table, manifest>>
    BY <1>1, <1>8, CashKeeps DEF scriptVars, lateVars
  <2>2. LateTxs' \subseteq LateTxs /\ \A x \in late' : LateShape(x)
    BY <1>1, <2>1 DEF LateTxs, SetupWaits
  <2>. QED
    BY <2>1, <2>2, OthersAct
<1>. QED
  BY <1>2, <1>3, <1>4, <1>5, <1>6, <1>7, <1>8 DEF SetupNext
-----------------------------------------------------------------------------
(***************************************************************************)
(* The setup: no agent is charged beyond the target.                       *)
(***************************************************************************)
\* A step that leaves the program alone leaves the books alone.
LEMMA UntouchedBooks ==
  ASSUME Amounted, \A w \in Agents : Booked(w), UNCHANGED vars, UNCHANGED slack
  PROVE  \A w \in Agents : Booked(w)'
<1>1. UNCHANGED <<slot, lane>> /\ UNCHANGED funded
  BY DEF vars, balanceVars, laneVars
<1>. QED
  BY <1>1 DEF Booked, Free, Leaving, Locked, Settled

\* The merchant's settlements move what an agent owns to what it has paid.
LEMMA CashBooks ==
  ASSUME Amounted, \A w \in Agents : Booked(w), Cash
  PROVE  /\ \A w \in Agents : Booked(w)'
         /\ \A w \in Agents : /\ Locked(w)' <= Locked(w) /\ Locked(w)' \in Nat
                              /\ Free(w)' <= Free(w) /\ Free(w)' \in Nat
<1>1. CashEffect /\ UNCHANGED <<funded, slack>>
  BY CashKeeps DEF scriptVars, lateVars
<1>2. ASSUME NEW w \in Agents
      PROVE  /\ Booked(w)'
             /\ Locked(w)' <= Locked(w) /\ Locked(w)' \in Nat
             /\ Free(w)' <= Free(w) /\ Free(w)' \in Nat
  <2>1. /\ Locked(w) \in Nat /\ Settled(w) \in Nat /\ Free(w) \in Nat
        /\ Locked(w)' \in Nat /\ Settled(w)' \in Nat /\ Free(w)' \in Nat
        /\ Leaving(w)' \in Nat
    <3>1. Amounted'
      BY <1>1 DEF CashEffect
    <3>. QED
      BY <3>1, Numbers
      DEF Amounted, EntryShape, LaneShape, Locked, Settled, Free, Leaving
  <2>2. /\ Leaving(w) = 0 /\ <<w, Tok>> \in DOMAIN funded
        /\ w \in DOMAIN slack /\ slack[w] \in Nat
        /\ funded[<<w, Tok>>] = Free(w) + Locked(w) + Settled(w)
        /\ Free(w) + Locked(w) <= DepositTarget + slack[w]
    BY DEF Booked
  <2>3. /\ Locked(w)' <= Locked(w) /\ Free(w)' <= Free(w) /\ Leaving(w)' <= Leaving(w)
        /\ Free(w)' + Leaving(w)' + Locked(w)' + Settled(w)'
             = Free(w) + Leaving(w) + Locked(w) + Settled(w)
    BY <1>1 DEF CashEffect
  <2>4. DepositTarget \in Nat
    BY SetupAssumption
  <2>5. /\ Leaving(w)' = 0
        /\ Free(w)' + Locked(w)' + Settled(w)' = Free(w) + Locked(w) + Settled(w)
        /\ Free(w)' + Locked(w)' <= DepositTarget + slack[w]
    BY <2>1, <2>2, <2>3, <2>4
  <2>. QED
    BY <1>1, <2>1, <2>2, <2>3, <2>5 DEF Booked
<1>. QED
  BY <1>2

\* What a transaction adds to an agent's tokens in the program, and to its lane.
Deposited(tx, w) == IF tx.kind = "deposit" /\ tx.owner = w THEN tx.amount ELSE 0
Pledged(tx, w) == IF tx.kind = "lock" /\ tx.owner = w THEN tx.amount ELSE 0

\* A transaction that lands deposits, or moves to the lane, what it says.
LEMMA ExecuteMoves ==
  ASSUME Amounted, NEW tx, TxShape(tx), Execute(tx), NEW w \in Agents,
         <<w, Tok>> \in DOMAIN funded, funded[<<w, Tok>>] \in Nat
  PROVE  /\ Free(w)' \in Nat /\ Locked(w)' \in Nat
         /\ Deposited(tx, w) \in Nat /\ Pledged(tx, w) \in Nat
         /\ Settled(w)' = Settled(w) /\ Leaving(w)' = Leaving(w)
         /\ Locked(w)' = Locked(w) + Pledged(tx, w)
         /\ Free(w)' + Locked(w)' = Free(w) + Locked(w) + Deposited(tx, w)
         /\ <<w, Tok>> \in DOMAIN funded'
         /\ funded'[<<w, Tok>>] = funded[<<w, Tok>>] + Deposited(tx, w)
<1>. DEFINE d == Deposited(tx, w)
            k == Pledged(tx, w)
<1>1. /\ d \in Nat /\ k \in Nat
      /\ ~(tx.kind = "deposit" /\ tx.owner = w) => d = 0
      /\ ~(tx.kind = "lock" /\ tx.owner = w) => k = 0
      /\ tx.kind = "deposit" /\ tx.owner = w => d = tx.amount /\ k = 0
      /\ tx.kind = "lock" /\ tx.owner = w => k = tx.amount /\ d = 0
  BY DEF TxShape, Deposited, Pledged
<1>. HIDE DEF d, k
<1>2. /\ Locked(w) \in Nat /\ Settled(w) \in Nat /\ Free(w) \in Nat /\ Leaving(w) \in Nat
  BY Numbers
<1>3. ASSUME SameAmounts(w), d = 0, k = 0,
             <<w, Tok>> \in DOMAIN funded', funded'[<<w, Tok>>] = funded[<<w, Tok>>]
      PROVE  /\ Free(w)' \in Nat /\ Locked(w)' \in Nat
             /\ Settled(w)' = Settled(w) /\ Leaving(w)' = Leaving(w)
             /\ Locked(w)' = Locked(w) + k
             /\ Free(w)' + Locked(w)' = Free(w) + Locked(w) + d
             /\ <<w, Tok>> \in DOMAIN funded'
             /\ funded'[<<w, Tok>>] = funded[<<w, Tok>>] + d
  BY <1>2, <1>3 DEF SameAmounts
<1>4. /\ Free(w)' \in Nat /\ Locked(w)' \in Nat
      /\ Settled(w)' = Settled(w) /\ Leaving(w)' = Leaving(w)
      /\ Locked(w)' = Locked(w) + k
      /\ Free(w)' + Locked(w)' = Free(w) + Locked(w) + d
      /\ <<w, Tok>> \in DOMAIN funded'
      /\ funded'[<<w, Tok>>] = funded[<<w, Tok>>] + d
  <2>1. CASE tx.kind \in {"bls", "table"}
    <3>1. UNCHANGED <<slot, lane>> /\ UNCHANGED funded
      BY <2>1 DEF Execute, RegisterBlsKey, vars, balanceVars, laneVars
    <3>2. SameAmounts(w)
      BY <3>1, UntouchedAmounts
    <3>. QED
      BY <1>1, <1>3, <2>1, <3>1, <3>2
  <2>2. CASE tx.kind = "deposit"
    <3>1. PICK p \in Agents, n \in Nat : p = tx.owner /\ n = tx.amount
      BY <2>2 DEF TxShape
    <3>2. Deposit(p, Tok, n)
      BY <2>2, <3>1 DEF Execute
    <3>3. /\ \A v \in Agents \ {p} : SameAmounts(v)
          /\ Locked(p)' = Locked(p) /\ Settled(p)' = Settled(p)
          /\ Free(p)' = Free(p) + n /\ Leaving(p)' = Leaving(p)
          /\ funded' = [funded EXCEPT ![<<p, Tok>>] = @ + n]
      BY <3>2, DepositEffect
    <3>4. CASE w = p
      BY <1>1, <1>2, <2>2, <3>1, <3>3, <3>4
    <3>5. CASE w # p
      <4>1. funded'[<<w, Tok>>] = funded[<<w, Tok>>] /\ <<w, Tok>> \in DOMAIN funded'
        BY <3>3, <3>5
      <4>. QED
        BY <1>1, <1>3, <2>2, <3>1, <3>3, <3>5, <4>1
    <3>. QED
      BY <3>4, <3>5
  <2>3. CASE tx.kind = "channel"
    <3>1. PICK p \in Agents : p = tx.owner
      BY <2>3 DEF TxShape
    <3>2. CreateChannel(LaneTo(p), TRUE, p)
      BY <2>3, <3>1 DEF Execute
    <3>3. /\ \A v \in Agents \ {p} : SameAmounts(v)
          /\ Locked(p)' = Locked(p) /\ Settled(p)' = Settled(p)
          /\ Free(p)' = Free(p) /\ Leaving(p)' = Leaving(p)
          /\ UNCHANGED funded
      BY <3>2, CreateChannelEffect
    <3>4. CASE w = p
      BY <1>1, <1>2, <2>3, <3>3, <3>4
    <3>5. CASE w # p
      BY <1>1, <1>3, <2>3, <3>3, <3>5
    <3>. QED
      BY <3>4, <3>5
  <2>4. CASE tx.kind = "lock"
    <3>1. PICK p \in Agents, n \in Nat : p = tx.owner /\ n = tx.amount
      BY <2>4 DEF TxShape
    <3>2. LockChannelFunds(LaneTo(p), n)
      BY <2>4, <3>1 DEF Execute
    <3>3. /\ \A v \in Agents \ {p} : SameAmounts(v)
          /\ Locked(p)' = Locked(p) + n /\ Settled(p)' = Settled(p)
          /\ Free(p)' + n = Free(p) /\ Leaving(p)' = Leaving(p) /\ Amounted'
          /\ UNCHANGED funded
      BY <3>2, LockEffect
    <3>4. CASE w = p
      <4>1. Free(w)' \in Nat
        BY <3>3 DEF Amounted, EntryShape, Free
      <4>. QED
        BY <1>1, <1>2, <2>4, <3>1, <3>3, <3>4, <4>1
    <3>5. CASE w # p
      BY <1>1, <1>3, <2>4, <3>1, <3>3, <3>5
    <3>. QED
      BY <3>4, <3>5
  <2>. QED
    BY <2>1, <2>2, <2>3, <2>4 DEF TxShape
<1>. QED
  BY <1>1, <1>4 DEF d, k

\* It keeps the books, if they have room for what it deposits.
LEMMA ExecuteBooks ==
  ASSUME Amounted, \A w \in Agents : Booked(w), NEW tx, TxShape(tx), Execute(tx),
         \A w \in Agents :
           /\ w \in DOMAIN slack' /\ slack'[w] \in Nat
           /\ Free(w) + Locked(w) + Deposited(tx, w) <= DepositTarget + slack'[w]
  PROVE  \A w \in Agents : Booked(w)'
<1>1. ASSUME NEW w \in Agents PROVE Booked(w)'
  <2>1. /\ Locked(w) \in Nat /\ Settled(w) \in Nat /\ Free(w) \in Nat
    BY Numbers
  <2>2. /\ <<w, Tok>> \in DOMAIN funded /\ Leaving(w) = 0
        /\ funded[<<w, Tok>>] = Free(w) + Locked(w) + Settled(w)
    BY DEF Booked
  <2>3. funded[<<w, Tok>>] \in Nat
    BY <2>1, <2>2
  <2>4. PICK d : d = Deposited(tx, w)
    OBVIOUS
  <2>5. /\ Free(w)' \in Nat /\ Locked(w)' \in Nat /\ d \in Nat
        /\ Settled(w)' = Settled(w) /\ Leaving(w)' = Leaving(w)
        /\ Free(w)' + Locked(w)' = Free(w) + Locked(w) + d
        /\ <<w, Tok>> \in DOMAIN funded'
        /\ funded'[<<w, Tok>>] = funded[<<w, Tok>>] + d
    BY <2>2, <2>3, <2>4, ExecuteMoves
  <2>6. funded'[<<w, Tok>>] = Free(w)' + Locked(w)' + Settled(w)'
    BY <2>1, <2>2, <2>5
  <2>7. Free(w)' + Locked(w)' <= DepositTarget + slack'[w]
    BY <2>4, <2>5
  <2>. QED
    BY <2>2, <2>5, <2>6, <2>7 DEF Booked
<1>. QED
  BY <1>1

\* What an overtaken transaction moves is counted.
LEMMA CountedMoves ==
  ASSUME \A w \in Agents : Booked(w), NEW old, LateShape(old), TxShape(old.tx), Counted(old)
  PROVE  /\ old.overtaken = FALSE => UNCHANGED slack
         /\ old.overtaken = TRUE =>
              \A w \in Agents :
                /\ w \in DOMAIN slack'
                /\ slack'[w] = slack[w] + Deposited(old.tx, w) + Pledged(old.tx, w)
<1>1. CASE old.overtaken = FALSE
  BY <1>1 DEF Counted
<1>2. CASE old.overtaken = TRUE
  <2>1. slack' = IF old.tx.kind \in {"deposit", "lock"}
                 THEN [slack EXCEPT ![old.tx.owner] = @ + old.tx.amount]
                 ELSE slack
    BY <1>2 DEF Counted
  <2>2. ASSUME NEW w \in Agents
        PROVE  /\ w \in DOMAIN slack'
               /\ slack'[w] = slack[w] + Deposited(old.tx, w) + Pledged(old.tx, w)
    <3>1. w \in DOMAIN slack /\ slack[w] \in Nat
      BY DEF Booked
    <3>2. CASE old.tx.kind \in {"deposit", "lock"} /\ old.tx.owner = w
      <4>1. old.tx.amount \in Nat /\ slack'[w] = slack[w] + old.tx.amount
        BY <2>1, <3>1, <3>2 DEF TxShape
      <4>. QED
        BY <2>1, <3>1, <3>2, <4>1 DEF Deposited, Pledged
    <3>3. CASE ~(old.tx.kind \in {"deposit", "lock"} /\ old.tx.owner = w)
      <4>1. slack'[w] = slack[w] /\ w \in DOMAIN slack'
        BY <2>1, <3>1, <3>3
      <4>2. Deposited(old.tx, w) = 0 /\ Pledged(old.tx, w) = 0
        BY <3>3 DEF Deposited, Pledged
      <4>. QED
        BY <3>1, <4>1, <4>2
    <3>. QED
      BY <3>2, <3>3
  <2>. QED
    BY <1>2, <2>2
<1>. QED
  BY <1>1, <1>2 DEF LateShape

\* Only from the read of the lane does the process come to the deposit.
LEMMA DepositAfterLane ==
  ASSUME SetupPosition, pc.phase \in {"bls", "deposit", "channel", "lock", "table"}
  PROVE  After(pc.phase, pc.at).phase # "deposit"
<1>1. pc.at \in Nat
  BY DEF SetupPosition
<1>2. CASE pc.phase = "bls"
  <2>1. pc.at \in DOMAIN Wallets
    BY <1>2 DEF SetupPosition
  <2>. QED
    BY <1>1, <1>2, <2>1, AfterIs
<1>3. CASE pc.phase = "lock"
  <2>1. pc.at \in DOMAIN Roster
    BY <1>3 DEF SetupPosition, AgentPhases
  <2>. QED
    BY <1>1, <1>3, <2>1, AfterIs
<1>4. CASE pc.phase \in {"deposit", "channel", "table"}
  BY <1>1, <1>4, AfterIs
<1>. QED
  BY <1>2, <1>3, <1>4

\* Nothing but overtaken transactions is on its way, so the books are all that counts.
LEMMA NothingOnItsWay ==
  ASSUME \A w \in Agents : Booked(w)', sent' = {}, Fresh' = {},
         \A old \in late' : LateShape(old),
         pc'.phase = "deposit" => Locked(Agent)' <= seen'.locked + slack'[Agent']
  PROVE  DepositInvariant'
BY DEF DepositInvariant, OneInFlight

\* What others move, and what overtaken transactions do, the books have room for.
LEMMA MovedBehindItsBack ==
  ASSUME SetupInvariant, DepositInvariant, UNCHANGED <<pc, seen, sent>>,
         Fresh' \subseteq Fresh, \A old \in late' : LateShape(old),
         \A w \in Agents :
           /\ Booked(w)' /\ Free(w)' \in Nat /\ Locked(w)' \in Nat
           /\ Free(w)' + Locked(w)' + slack[w] <= Free(w) + Locked(w) + slack'[w]
           /\ Locked(w)' + slack[w] <= Locked(w) + slack'[w]
  PROVE  DepositInvariant'
<1>1. /\ Amounted /\ SetupPosition /\ SetupWaits /\ DepositTarget \in Nat
      /\ \A w \in Agents : slack[w] \in Nat /\ slack'[w] \in Nat
  BY SetupAssumption DEF SetupInvariant, DepositInvariant, Booked
<1>2. ASSUME NEW tx, TxShape(tx), Within(tx) PROVE Within(tx)'
  <2>1. ASSUME tx.kind = "deposit"
        PROVE  Free(tx.owner)' + Locked(tx.owner)' + tx.amount
                 <= DepositTarget + slack'[tx.owner]
    <3>1. PICK w \in Agents, n \in Nat : w = tx.owner /\ n = tx.amount
      BY <1>2, <2>1 DEF TxShape
    <3>2. /\ Free(w) + Locked(w) + n <= DepositTarget + slack[w]
          /\ Free(w) \in Nat /\ Locked(w) \in Nat
      BY <1>1, <1>2, <2>1, <3>1, Numbers DEF Within
    <3>3. Free(w)' + Locked(w)' + n <= DepositTarget + slack'[w]
      BY <1>1, <3>2
    <3>. QED
      BY <3>1, <3>3
  <2>. QED
    BY <2>1 DEF Within
<1>3. \A tx \in sent' : Within(tx)'
  BY <1>1, <1>2 DEF DepositInvariant, SetupWaits
<1>4. \A old \in Fresh' : Within(old.tx)'
  <2>1. ASSUME NEW old \in Fresh' PROVE Within(old.tx)'
    <3>1. PICK tx : tx = old.tx
      OBVIOUS
    <3>2. TxShape(tx) /\ Within(tx)
      BY <1>1, <3>1 DEF DepositInvariant, SetupWaits, LateTxs, Fresh
    <3>. QED
      BY <1>2, <3>1, <3>2
  <2>. QED
    BY <2>1
<1>5. pc'.phase = "deposit" => Locked(Agent)' <= seen'.locked + slack'[Agent']
  <2>1. PICK p : p = Agent
    OBVIOUS
  <2>2. Agent' = p
    BY <2>1 DEF Agent
  <2>3. ASSUME pc.phase = "deposit" PROVE Locked(p)' <= seen.locked + slack'[p]
    <3>1. p \in Agents /\ seen.locked \in Nat
      BY <1>1, <2>1, <2>3, WalletsAre DEF SetupPosition, AgentPhases, Agent
    <3>2. Locked(p) <= seen.locked + slack[p] /\ Locked(p) \in Nat
      BY <1>1, <2>1, <2>3, <3>1, Numbers DEF DepositInvariant
    <3>. QED
      BY <1>1, <3>1, <3>2
  <2>. QED
    BY <2>2, <2>3
<1>6. OneInFlight(pc.phase = "stopped")'
  BY DEF DepositInvariant, OneInFlight
<1>. QED
  BY <1>3, <1>4, <1>5, <1>6 DEF DepositInvariant

\* Every step of the setup, of the chain and of the operator.
LEMMA SetupNextDeposits ==
  ASSUME SetupInvariant, DepositInvariant, SetupNext
  PROVE  DepositInvariant'
<1>1. /\ Amounted /\ SetupPosition /\ SetupWaits
      /\ \A w \in Agents : Booked(w)
      /\ \A tx \in sent : TxShape(tx) /\ Within(tx)
      /\ \A old \in late : LateShape(old) /\ TxShape(old.tx)
      /\ \A old \in Fresh : Within(old.tx)
      /\ \A x, y \in sent : x = y
      /\ \A x, y \in Fresh : x = y
      /\ IF pc.phase = "stopped" THEN sent = {} ELSE Fresh = {}
  BY DEF SetupInvariant, DepositInvariant, SetupWaits, OneInFlight, LateTxs
<1>2. UNCHANGED vars /\ UNCHANGED slack => \A w \in Agents : Booked(w)'
  BY <1>1, UntouchedBooks
<1>3. PICK p : p = Agent
  OBVIOUS
<1>4. pc.phase \in AgentPhases => p \in Agents /\ Agent \in Agents
  BY <1>1, <1>3, WalletsAre DEF SetupPosition, Agent
<1>5. pc.at \in Nat
  BY <1>1 DEF SetupPosition
<1>6. ASSUME NEW kind, NEW owner, NEW amount, Send(kind, owner, amount),
             pc.phase # "stopped",
             kind = "deposit" =>
               Free(owner) + Locked(owner) + amount <= DepositTarget + slack[owner]
      PROVE  DepositInvariant'
  <2>1. /\ sent' = {[kind |-> kind, owner |-> owner, amount |-> amount]}
        /\ UNCHANGED vars /\ UNCHANGED <<slot, lane, pc, seen, late, slack>>
    BY <1>1, <1>6 DEF Send, vars, balanceVars, laneVars, lateVars
  <2>2. Fresh' = {} /\ \A old \in late' : LateShape(old)
    BY <1>1, <1>6, <2>1 DEF Fresh
  <2>3. \A tx \in sent' : Within(tx)'
    BY <1>6, <2>1 DEF Within, Free, Locked
  <2>4. pc'.phase = "deposit" => Locked(Agent)' <= seen'.locked + slack'[Agent']
    BY <2>1 DEF DepositInvariant, Agent, Locked
  <2>5. OneInFlight(pc.phase = "stopped")'
    BY <1>6, <2>1, <2>2 DEF OneInFlight
  <2>. QED
    BY <1>2, <2>1, <2>2, <2>3, <2>4, <2>5 DEF DepositInvariant
<1>7. ASSUME sent' = {}, pc.phase # "stopped", UNCHANGED <<late, slack>>, UNCHANGED vars,
             pc'.phase # "deposit"
      PROVE  DepositInvariant'
  <2>1. Fresh' = {} /\ \A old \in late' : LateShape(old)
    BY <1>1, <1>7 DEF Fresh
  <2>. QED
    BY <1>2, <1>7, <2>1, NothingOnItsWay
<1>8. CASE Advance /\ sent = {} /\ pc.phase \in {"bls", "deposit", "channel", "lock", "table"}
  <2>1. sent' = {} /\ UNCHANGED <<late, slack>> /\ UNCHANGED vars /\ pc' = After(pc.phase, pc.at)
    BY <1>8 DEF Advance, lateVars
  <2>2. pc'.phase # "deposit"
    BY <1>1, <1>8, <2>1, DepositAfterLane
  <2>. QED
    BY <1>7, <1>8, <2>1, <2>2
<1>. USE DEF At
<1>9. CASE Step
  <2>1. CASE Start
    <3>1. /\ sent' = {} /\ UNCHANGED vars /\ UNCHANGED slack /\ pc'.phase # "deposit"
          /\ late' = {[old EXCEPT !.overtaken = TRUE] : old \in late}
      BY <2>1 DEF Start
    <3>2. Fresh' = {} /\ \A old \in late' : LateShape(old)
      BY <1>1, <3>1, Overtaking
    <3>. QED
      BY <1>2, <3>1, <3>2, NothingOnItsWay
  <2>2. CASE RegisterKey
    BY <1>6, <1>8, <2>2 DEF RegisterKey
  <2>3. CASE ReadLane
    <3>1. /\ pc.phase = "lane" /\ sent' = {} /\ UNCHANGED <<late, slack>>
          /\ UNCHANGED vars /\ UNCHANGED lane
          /\ seen'.locked = Locked(p) /\ pc' = After(pc.phase, pc.at)
      BY <1>1, <1>3, <2>3 DEF ReadLane, Locked, vars, laneVars, lateVars
    <3>2. pc' = [phase |-> "deposit", at |-> pc.at]
      BY <1>5, <3>1, AfterIs
    <3>3. Agent' = p /\ p \in Agents
      BY <1>3, <1>4, <3>1, <3>2 DEF Agent, AgentPhases
    <3>4. /\ Locked(Agent)' = Locked(p) /\ Locked(p) \in Nat
          /\ slack'[Agent'] \in Nat
      BY <1>1, <3>1, <3>3, Numbers DEF Locked, Booked
    <3>5. Fresh' = {} /\ \A old \in late' : LateShape(old)
      BY <1>1, <3>1 DEF Fresh
    <3>6. Locked(Agent)' <= seen'.locked + slack'[Agent']
      BY <3>1, <3>4
    <3>. QED
      BY <1>2, <3>1, <3>5, <3>6, NothingOnItsWay
  <2>4. CASE TopUpDeposit
    <3>1. pc.phase = "deposit" /\ sent = {}
      BY <2>4 DEF TopUpDeposit
    <3>2. CASE Advance
      BY <1>8, <3>1, <3>2
    <3>3. ASSUME ~Advance PROVE DepositInvariant'
      <4>. DEFINE total == slot[<<Agent, Tok>>].available_balance + seen.locked
      <4>1. Send("deposit", Agent, DepositTarget - total)
        BY <2>4, <3>3, Zenon DEF TopUpDeposit
      <4>2. /\ Locked(Agent) <= seen.locked + slack[Agent]
            /\ Locked(Agent) \in Nat /\ seen.locked \in Nat /\ slack[Agent] \in Nat
            /\ total = Free(Agent) + seen.locked /\ Free(Agent) \in Nat
            /\ DepositTarget \in Nat
        BY <1>1, <1>4, <3>1, Numbers, SetupAssumption
        DEF DepositInvariant, SetupPosition, Free, Booked, AgentPhases
      <4>3. Free(Agent) + Locked(Agent) + (DepositTarget - total)
              <= DepositTarget + slack[Agent]
        BY <4>2
      <4>. QED
        BY <1>6, <3>1, <4>1, <4>3
    <3>. QED
      BY <3>2, <3>3
  <2>5. CASE OpenLane
    BY <1>6, <1>8, <2>5 DEF OpenLane
  <2>6. CASE LockCollateral
    BY <1>6, <1>8, <2>6, Zenon DEF LockCollateral
  <2>7. CASE FillTable
    BY <1>6, <1>8, <2>7 DEF FillTable
  <2>8. CASE WriteManifest
    <3>1. /\ pc.phase = "manifest" /\ sent' = {} /\ UNCHANGED <<late, slack>> /\ UNCHANGED vars
          /\ pc' = [pc EXCEPT !.phase = "stopped"]
      BY <1>1, <2>8 DEF WriteManifest, lateVars
    <3>2. pc'.phase # "deposit"
      BY <1>1, <3>1 DEF SetupPosition
    <3>. QED
      BY <1>7, <3>1, <3>2
  <2>. QED
    BY <1>9, <2>1, <2>2, <2>3, <2>4, <2>5, <2>6, <2>7, <2>8 DEF Step
<1>10. CASE Land
  <2>1. PICK tx \in sent :
          /\ Execute(tx)
          /\ IF tx.kind = "table" THEN UNCHANGED pc ELSE pc' = After(pc.phase, pc.at)
    BY <1>10 DEF Land
  <2>2. /\ sent' = {} /\ UNCHANGED <<late, slack>> /\ tx.kind = pc.phase
        /\ tx.kind \in {"bls", "deposit", "channel", "lock", "table"}
    BY <1>1, <1>10, <2>1 DEF Land, SetupWaits, TxShape, lateVars
  <2>3. Fresh' = {} /\ \A old \in late' : LateShape(old)
    BY <1>1, <2>2 DEF Fresh
  <2>4. ASSUME NEW w \in Agents
        PROVE  /\ w \in DOMAIN slack' /\ slack'[w] \in Nat
               /\ Free(w) + Locked(w) + Deposited(tx, w) <= DepositTarget + slack'[w]
    <3>1. Booked(w) /\ Free(w) \in Nat /\ Locked(w) \in Nat /\ slack' = slack /\ Within(tx)
      BY <1>1, <2>1, <2>2, Numbers
    <3>2. /\ w \in DOMAIN slack' /\ slack'[w] \in Nat
          /\ Free(w) + Locked(w) <= DepositTarget + slack'[w]
      BY <3>1 DEF Booked
    <3>3. CASE tx.kind = "deposit" /\ tx.owner = w
      BY <3>1, <3>2, <3>3 DEF Within, Deposited
    <3>4. CASE ~(tx.kind = "deposit" /\ tx.owner = w)
      <4>1. Deposited(tx, w) = 0
        BY <3>4 DEF Deposited
      <4>. QED
        BY <3>1, <3>2, <4>1, SetupAssumption
    <3>. QED
      BY <3>3, <3>4
  <2>5. \A w \in Agents : Booked(w)'
    BY <1>1, <2>1, <2>4, ExecuteBooks
  <2>6. pc'.phase # "deposit"
    BY <1>1, <2>1, <2>2, DepositAfterLane
  <2>. QED
    BY <2>2, <2>3, <2>5, <2>6, NothingOnItsWay
<1>11. CASE Refused \/ Expire
  <2>1. /\ sent' = {} /\ sent # {} /\ UNCHANGED <<late, slack>> /\ UNCHANGED vars
        /\ pc'.phase # "deposit"
    BY <1>11 DEF Refused, Expire, Stop, lateVars
  <2>. QED
    BY <1>1, <1>7, <2>1
<1>12. CASE Kill
  <2>. DEFINE S == {x \in sent : x.kind # "table"}
  <2>1. /\ sent' = {} /\ UNCHANGED vars /\ UNCHANGED <<slot, lane, slack>>
        /\ pc'.phase = "stopped" /\ Fresh = {}
        /\ late' = late \cup {[tx |-> tx, run |-> faults, overtaken |-> FALSE] : tx \in S}
        /\ S \in SUBSET sent
    BY <1>1, <1>12 DEF Kill, Stop, vars, balanceVars, laneVars
  <2>. HIDE DEF S
  <2>2. /\ \A old \in late' : LateShape(old)
        /\ \A old \in Fresh' :
             \E tx \in S : old = [tx |-> tx, run |-> faults, overtaken |-> FALSE]
    BY <1>1, <2>1, LeavingBehind
  <2>3. \A old \in Fresh' : Within(old.tx)'
    <3>1. \A tx \in sent : Within(tx)'
      BY <1>1, <2>1 DEF Within, Free, Locked
    <3>. QED
      BY <2>1, <2>2, <3>1
  <2>4. OneInFlight(pc.phase = "stopped")'
    BY <1>1, <2>1, <2>2 DEF OneInFlight
  <2>. QED
    BY <1>2, <2>1, <2>3, <2>4 DEF DepositInvariant
<1>13. CASE LandLate
  <2>1. PICK old \in late :
          Execute(old.tx) /\ Counted(old) /\ late' = late \ {old} /\ UNCHANGED <<pc, seen, sent>>
    BY <1>13 DEF LandLate
  <2>2. PICK tx : tx = old.tx
    OBVIOUS
  <2>3. TxShape(tx) /\ Execute(tx) /\ LateShape(old) /\ \A x \in late' : LateShape(x)
    BY <1>1, <2>1, <2>2
  <2>4. /\ old.overtaken = FALSE => UNCHANGED slack
        /\ old.overtaken = TRUE =>
             \A w \in Agents :
               /\ w \in DOMAIN slack'
               /\ slack'[w] = slack[w] + Deposited(tx, w) + Pledged(tx, w)
    BY <1>1, <2>1, <2>2, <2>3, CountedMoves
  <2>5. CASE old.overtaken = FALSE
    <3>1. old \in Fresh /\ pc.phase = "stopped" /\ sent = {} /\ Within(tx)
      BY <1>1, <2>1, <2>2, <2>5 DEF Fresh
    <3>2. sent' = {} /\ Fresh' = {} /\ pc'.phase # "deposit"
      BY <1>1, <2>1, <3>1 DEF Fresh
    <3>3. ASSUME NEW w \in Agents
          PROVE  /\ w \in DOMAIN slack' /\ slack'[w] \in Nat
                 /\ Free(w) + Locked(w) + Deposited(tx, w) <= DepositTarget + slack'[w]
      <4>1. Booked(w) /\ Free(w) \in Nat /\ Locked(w) \in Nat /\ slack' = slack
        BY <1>1, <2>4, <2>5, Numbers
      <4>2. /\ w \in DOMAIN slack' /\ slack'[w] \in Nat
            /\ Free(w) + Locked(w) <= DepositTarget + slack'[w]
        BY <4>1 DEF Booked
      <4>3. CASE tx.kind = "deposit" /\ tx.owner = w
        BY <3>1, <4>1, <4>2, <4>3 DEF Within, Deposited
      <4>4. CASE ~(tx.kind = "deposit" /\ tx.owner = w)
        <5>1. Deposited(tx, w) = 0
          BY <4>4 DEF Deposited
        <5>. QED
          BY <4>1, <4>2, <5>1, SetupAssumption
      <4>. QED
        BY <4>3, <4>4
    <3>4. \A w \in Agents : Booked(w)'
      BY <1>1, <2>3, <3>3, ExecuteBooks
    <3>. QED
      BY <2>3, <3>2, <3>4, NothingOnItsWay
  <2>6. CASE old.overtaken = TRUE
    <3>1. Fresh' \subseteq Fresh
      BY <2>1 DEF Fresh
    <3>2. ASSUME NEW w \in Agents
          PROVE  /\ w \in DOMAIN slack' /\ slack'[w] \in Nat
                 /\ Free(w) + Locked(w) + Deposited(tx, w) <= DepositTarget + slack'[w]
                 /\ Free(w)' \in Nat /\ Locked(w)' \in Nat
                 /\ Free(w)' + Locked(w)' + slack[w] <= Free(w) + Locked(w) + slack'[w]
                 /\ Locked(w)' + slack[w] <= Locked(w) + slack'[w]
      <4>1. /\ Free(w) \in Nat /\ Locked(w) \in Nat /\ Settled(w) \in Nat
            /\ DepositTarget \in Nat
        BY <1>1, Numbers, SetupAssumption
      <4>2. /\ slack[w] \in Nat /\ Free(w) + Locked(w) <= DepositTarget + slack[w]
            /\ <<w, Tok>> \in DOMAIN funded
            /\ funded[<<w, Tok>>] = Free(w) + Locked(w) + Settled(w)
        BY <1>1 DEF Booked
      <4>3. PICK d, k : d = Deposited(tx, w) /\ k = Pledged(tx, w)
        OBVIOUS
      <4>4. funded[<<w, Tok>>] \in Nat
        BY <4>1, <4>2
      <4>5. /\ Free(w)' \in Nat /\ Locked(w)' \in Nat /\ d \in Nat /\ k \in Nat
            /\ Locked(w)' = Locked(w) + k
            /\ Free(w)' + Locked(w)' = Free(w) + Locked(w) + d
        BY <1>1, <2>3, <4>2, <4>3, <4>4, ExecuteMoves
      <4>6. w \in DOMAIN slack' /\ slack'[w] = slack[w] + d + k
        BY <2>4, <2>6, <4>3
      <4>. QED
        BY <4>1, <4>2, <4>3, <4>5, <4>6
    <3>3. \A w \in Agents : Booked(w)'
      BY <1>1, <2>3, <3>2, ExecuteBooks
    <3>. QED
      BY <2>1, <2>3, <3>1, <3>2, <3>3, MovedBehindItsBack
  <2>. QED
    BY <2>3, <2>5, <2>6 DEF LateShape
<1>14. CASE DropLate \/ Cash
  <2>1. /\ UNCHANGED <<pc, seen, sent, slack>> /\ late' \subseteq late
        /\ DropLate => UNCHANGED <<slot, lane>> /\ UNCHANGED vars
    BY <1>14 DEF DropLate, Cash, scriptVars, lateVars, vars, balanceVars, laneVars
  <2>2. Fresh' \subseteq Fresh /\ \A old \in late' : LateShape(old)
    BY <1>1, <2>1 DEF Fresh
  <2>3. ASSUME NEW w \in Agents
        PROVE  /\ Booked(w)' /\ Free(w)' \in Nat /\ Locked(w)' \in Nat
               /\ Free(w)' <= Free(w) /\ Locked(w)' <= Locked(w)
    <3>1. CASE Cash
      BY <1>1, <3>1, CashBooks
    <3>2. CASE DropLate
      <4>1. Free(w)' = Free(w) /\ Locked(w)' = Locked(w) /\ Booked(w)'
        BY <1>2, <2>1, <3>2 DEF Free, Locked
      <4>. QED
        BY <1>1, <4>1, Numbers
    <3>. QED
      BY <1>14, <3>1, <3>2
  <2>4. \A w \in Agents :
          /\ Free(w)' + Locked(w)' + slack[w] <= Free(w) + Locked(w) + slack'[w]
          /\ Locked(w)' + slack[w] <= Locked(w) + slack'[w]
    <3>1. \A w \in Agents : slack'[w] = slack[w] /\ slack[w] \in Nat
                            /\ Free(w) \in Nat /\ Locked(w) \in Nat
      BY <1>1, <2>1, Numbers DEF Booked
    <3>. QED
      BY <2>3, <3>1
  <2>. QED
    BY <2>1, <2>2, <2>3, <2>4, MovedBehindItsBack
<1>. QED
  BY <1>9, <1>10, <1>11, <1>12, <1>13, <1>14 DEF SetupNext

\* An agent's deposits are what it owns, which the target bounds but for what
\* overtaken transactions moved, and what it has paid out.
LEMMA DepositsBounded ==
  ASSUME SetupInvariant, DepositInvariant
  PROVE  DepositsStayWithinTarget
<1>1. ASSUME NEW w \in Agents
      PROVE  funded[<<w, Tok>>] <= DepositTarget + lane[LaneTo(w)].settled_cumulative + slack[w]
  <2>1. /\ Locked(w) \in Nat /\ Settled(w) \in Nat /\ Free(w) \in Nat
        /\ DepositTarget \in Nat
    BY Numbers, SetupAssumption DEF SetupInvariant
  <2>2. /\ funded[<<w, Tok>>] = Free(w) + Locked(w) + Settled(w)
        /\ Free(w) + Locked(w) <= DepositTarget + slack[w] /\ slack[w] \in Nat
    BY DEF DepositInvariant, Booked
  <2>3. funded[<<w, Tok>>] <= DepositTarget + Settled(w) + slack[w]
    BY <2>1, <2>2
  <2>. QED
    BY <2>3 DEF Settled
<1>. QED
  BY <1>1 DEF DepositsStayWithinTarget, Agents
-----------------------------------------------------------------------------
(***************************************************************************)
(* The funding.                                                            *)
(***************************************************************************)
\* The wallets to fund, and what the deployer's transfer to one adds to it.
LEMMA FundedWallets ==
  /\ Range(<<m, a, b, c>>) = {m, a, b, c}
  /\ Len(<<m, a, b, c>>) = 4
  /\ \A i \in 1 .. 4 : <<m, a, b, c>>[i] \in {m, a, b, c}
  /\ Target \in Nat /\ AtStart \in [{m, a, b, c} -> Nat]
<1>. DEFINE s == <<m, a, b, c>>
<1>1. /\ Len(s) = 4 /\ DOMAIN s = 1 .. 4
      /\ s[1] = m /\ s[2] = a /\ s[3] = b /\ s[4] = c
  OBVIOUS
<1>. HIDE DEF s
<1>2. ASSUME NEW i \in 1 .. 4 PROVE s[i] \in {m, a, b, c}
  <2>1. i = 1 \/ i = 2 \/ i = 3 \/ i = 4
    OBVIOUS
  <2>. QED
    BY <1>1, <2>1
<1>3. Range(s) = {m, a, b, c}
  <2>1. 1 \in DOMAIN s /\ 2 \in DOMAIN s /\ 3 \in DOMAIN s /\ 4 \in DOMAIN s
    BY <1>1
  <2>2. \A i \in DOMAIN s : s[i] \in {m, a, b, c}
    BY <1>1, <1>2
  <2>. QED
    BY <1>1, <2>1, <2>2 DEF Range
<1>4. Target \in Nat /\ AtStart \in [Range(s) -> Nat]
  BY FundWalletsAssumption DEF Funding!FundAssumption, Funding!Range, Range, s
<1>. QED
  BY <1>1, <1>2, <1>3, <1>4 DEF s

\* Whatever was overtaken, a transfer decided on the present state fills its wallet.
LEMMA FundNextInvariant ==
  ASSUME FundInvariant, Funding!FundNext
  PROVE  FundInvariant'
<1>. DEFINE W == {m, a, b, c}
<1>1. /\ DOMAIN balance = W /\ DOMAIN brought = W
      /\ \A w \in W : Filled(w)
      /\ fundPc \in {"stopped", "check", "fund", "done"}
      /\ fundPc # "fund" => sent = {}
      /\ at \in 1 .. 4
      /\ \A tx \in sent : Transfer(tx) /\ Fills(tx)
      /\ \A old \in late : LateShape(old) /\ Transfer(old.tx)
      /\ \A old \in Fresh : Fills(old.tx)
      /\ \A x, y \in sent : x = y
      /\ \A x, y \in Fresh : x = y
      /\ IF fundPc = "stopped" THEN sent = {} ELSE Fresh = {}
  BY FundedWallets DEF FundInvariant, OneInFlight, LateTxs
<1>2. /\ Target \in Nat /\ AtStart \in [W -> Nat] /\ Range(<<m, a, b, c>>) = W
      /\ \A tx : Transfer(tx) => tx.to \in W /\ tx.amount \in Nat
      /\ \A tx : Transfer(tx)' = Transfer(tx)
  BY FundedWallets DEF Transfer
<1>3. ASSUME DOMAIN balance' = W, DOMAIN brought' = W,
             \A w \in W : Filled(w)',
             fundPc' \in {"stopped", "check", "fund", "done"},
             fundPc' # "fund" => sent' = {}, at' \in 1 .. 4,
             \A tx \in sent' : Transfer(tx) /\ Fills(tx)',
             \A old \in late' : LateShape(old) /\ Transfer(old.tx),
             \A old \in Fresh' : Fills(old.tx)',
             \A x, y \in sent' : x = y,
             \A x, y \in Fresh' : x = y,
             IF fundPc' = "stopped" THEN sent' = {} ELSE Fresh' = {}
      PROVE  FundInvariant'
  BY <1>2, <1>3 DEF FundInvariant, OneInFlight, LateTxs
<1>4. \A name, following \in {"check", "fund", "done"} :
        Funding!Next(name, following) => at' \in 1 .. 4 /\ fundPc' \in {"check", "fund", "done"}
  BY <1>1, FundedWallets DEF Funding!Next
<1>5. Funding!Stop => at' \in 1 .. 4 /\ fundPc' = "stopped"
  BY DEF Funding!Stop
<1>6. ASSUME UNCHANGED <<balance, brought>>
      PROVE  /\ DOMAIN balance' = W /\ DOMAIN brought' = W
             /\ \A w \in W : Filled(w)'
             /\ \A tx : Fills(tx)' = Fills(tx)
  BY <1>1, <1>6 DEF Filled, Fills
<1>7. /\ UNCHANGED Funding!chain => UNCHANGED balance
      /\ UNCHANGED Funding!lateVars => UNCHANGED <<late, brought>>
      /\ UNCHANGED late => UNCHANGED Fresh
  BY DEF Funding!chain, Funding!lateVars, Fresh
<1>8. ASSUME NEW tx, Transfer(tx), Funding!Effect(tx)
      PROVE  /\ DOMAIN balance' = W
             /\ \A w \in W : balance'[w] = balance[w] + (IF w = tx.to THEN tx.amount ELSE 0)
  <2>1. balance' = [balance EXCEPT ![tx.to] = @ + tx.amount]
    BY <1>8 DEF Funding!Effect
  <2>. QED
    BY <1>1, <2>1 DEF Filled
<1>9. ASSUME NEW tx, Transfer(tx), Fills(tx), Funding!Effect(tx), UNCHANGED brought
      PROVE  \A w \in W : Filled(w)'
  <2>1. ASSUME NEW w \in W PROVE Filled(w)'
    <3>1. PICK n \in Nat : n = tx.amount
      BY <1>2, <1>9
    <3>2. /\ Filled(w) /\ AtStart[w] \in Nat
          /\ w # tx.to => balance'[w] = balance[w] + 0
          /\ w = tx.to => balance'[w] = balance[w] + n
      BY <1>1, <1>2, <1>8, <1>9, <3>1
    <3>3. w = tx.to => n = 0 \/ balance[w] + n <= Target + brought[w]
      BY <1>9, <3>1 DEF Fills
    <3>. QED
      BY <1>2, <1>9, <3>2, <3>3 DEF Filled
  <2>. QED
    BY <2>1
<1>. HIDE DEF W
<1>10. ASSUME fundPc # "stopped", sent' = {}, UNCHANGED late,
              DOMAIN balance' = W, DOMAIN brought' = W, \A w \in W : Filled(w)',
              fundPc' \in {"stopped", "check", "fund", "done"}, at' \in 1 .. 4
       PROVE  FundInvariant'
  BY <1>1, <1>3, <1>7, <1>10
<1>11. CASE Funding!Start
  <2>1. /\ fundPc' = "check" /\ UNCHANGED <<at, sent, brought, balance>> /\ sent = {}
        /\ late' = {[old EXCEPT !.overtaken = TRUE] : old \in late}
    BY <1>1, <1>7, <1>11 DEF Funding!Start
  <2>2. LateTxs' = LateTxs /\ Fresh' = {} /\ \A old \in late' : LateShape(old)
    BY <1>1, <2>1, Overtaking
  <2>3. \A old \in late' : Transfer(old.tx)
    BY <1>1, <2>2 DEF LateTxs
  <2>. QED
    BY <1>1, <1>3, <1>6, <2>1, <2>2, <2>3
<1>12. CASE Funding!Precheck
  <2>1. /\ fundPc = "check" /\ sent' = {} /\ UNCHANGED <<balance, late, brought>>
        /\ fundPc' \in {"stopped", "check", "fund", "done"} /\ at' \in 1 .. 4
    BY <1>1, <1>4, <1>5, <1>7, <1>12 DEF Funding!Precheck
  <2>. QED
    BY <1>6, <1>10, <2>1
<1>13. CASE Funding!FundWallet
  <2>1. /\ fundPc = "fund" /\ sent = {} /\ Fresh = {}
        /\ UNCHANGED <<balance, late, brought>> /\ Fresh' = {}
    BY <1>1, <1>7, <1>13 DEF Funding!FundWallet
  <2>2. CASE Funding!Next("fund", "done") /\ UNCHANGED sent
    BY <1>4, <1>6, <1>10, <2>1, <2>2
  <2>3. ASSUME ~(Funding!Next("fund", "done") /\ UNCHANGED sent) PROVE FundInvariant'
    <3>. DEFINE p == Funding!Wallet
                n == Funding!TopUp(p)
                tx == [to |-> p, creates |-> p \notin accounts, amount |-> n]
    <3>1. sent' = {tx} /\ UNCHANGED <<fundPc, at>>
      BY <1>13, <2>3 DEF Funding!FundWallet
    <3>2. p \in W
      BY <1>1, FundedWallets DEF Funding!Wallet, W
    <3>3. n = IF balance[p] < Target THEN Target - balance[p] ELSE 0
      BY DEF Funding!TopUp, Funding!Lacks
    <3>4. tx.to = p /\ tx.amount = n
      OBVIOUS
    <3>. HIDE DEF p, n, tx
    <3>5. /\ n \in Nat
          /\ n = 0 \/ (AtStart[p] <= Target /\ balance[p] + n <= Target + brought[p])
      <4>1. /\ balance[p] \in Nat /\ brought[p] \in Nat /\ AtStart[p] <= balance[p]
            /\ AtStart[p] \in Nat
        BY <1>1, <1>2, <3>2 DEF Filled
      <4>. QED
        BY <1>2, <3>3, <4>1
    <3>6. Transfer(tx) /\ Fills(tx)
      BY <1>2, <3>2, <3>4, <3>5 DEF Transfer, Fills
    <3>7. \A x \in sent' : Transfer(x) /\ Fills(x)'
      BY <1>6, <2>1, <3>1, <3>6
    <3>. QED
      BY <1>1, <1>3, <1>6, <2>1, <3>1, <3>7
  <2>. QED
    BY <2>2, <2>3
<1>14. CASE Funding!Land
  <2>1. PICK tx \in sent : Funding!Effect(tx)
    BY <1>14 DEF Funding!Land
  <2>2. /\ sent' = {} /\ Funding!Next("fund", "done") /\ UNCHANGED <<late, brought>>
    BY <1>7, <1>14 DEF Funding!Land
  <2>3. Transfer(tx) /\ Fills(tx) /\ fundPc # "stopped"
    BY <1>1, <2>1
  <2>4. DOMAIN balance' = W /\ DOMAIN brought' = W /\ \A w \in W : Filled(w)'
    BY <1>1, <1>8, <1>9, <2>1, <2>2, <2>3
  <2>. QED
    BY <1>4, <1>10, <2>2, <2>3, <2>4
<1>15. CASE Funding!Refused \/ Funding!Expire
  <2>1. /\ sent # {} /\ sent' = {} /\ Funding!Stop /\ UNCHANGED <<balance, late, brought>>
    BY <1>7, <1>15 DEF Funding!Refused, Funding!Expire
  <2>. QED
    BY <1>1, <1>5, <1>6, <1>10, <2>1
<1>16. CASE Funding!Kill
  <2>1. /\ fundPc # "stopped" /\ sent' = {} /\ Funding!Stop /\ UNCHANGED <<balance, brought>>
        /\ late' = late \cup {[tx |-> tx, run |-> faults, overtaken |-> FALSE] : tx \in sent}
    BY <1>7, <1>16 DEF Funding!Kill
  <2>2. /\ LateTxs' = LateTxs \cup sent
        /\ \A old \in late' : LateShape(old)
        /\ \A old \in Fresh' : old \in Fresh \/
             \E tx \in sent : old = [tx |-> tx, run |-> faults, overtaken |-> FALSE]
    BY <1>1, <2>1, LeavingBehind
  <2>3. \A old \in late' : Transfer(old.tx)
    BY <1>1, <2>2 DEF LateTxs
  <2>4. Fresh = {} /\ \A x, y \in Fresh' : x = y
    BY <1>1, <2>1, <2>2
  <2>5. \A old \in Fresh' : Fills(old.tx)'
    BY <1>1, <1>6, <2>1, <2>2, <2>4
  <2>. QED
    BY <1>3, <1>5, <1>6, <2>1, <2>2, <2>3, <2>4, <2>5
<1>17. CASE Funding!LandLate
  <2>1. PICK old \in late :
          /\ Funding!Effect(old.tx) /\ late' = late \ {old} /\ UNCHANGED <<fundPc, at, sent>>
          /\ brought' = IF old.overtaken
                        THEN [brought EXCEPT ![old.tx.to] = @ + old.tx.amount]
                        ELSE brought
    BY <1>17 DEF Funding!LandLate
  <2>2. PICK tx : tx = old.tx
    OBVIOUS
  <2>3. /\ LateShape(old) /\ Transfer(tx) /\ Funding!Effect(tx)
        /\ \A x \in late' : LateShape(x) /\ Transfer(x.tx)
    BY <1>1, <2>1, <2>2
  <2>4. PICK p \in W, n \in Nat : p = tx.to /\ n = tx.amount
    BY <1>2, <2>3
  <2>5. CASE old.overtaken = FALSE
    <3>1. old \in Fresh /\ fundPc = "stopped" /\ sent' = {} /\ Fills(tx)
      BY <1>1, <2>1, <2>2, <2>5 DEF Fresh
    <3>2. Fresh' = {} /\ UNCHANGED brought
      BY <1>1, <2>1, <2>5, <3>1 DEF Fresh
    <3>3. DOMAIN balance' = W /\ DOMAIN brought' = W /\ \A w \in W : Filled(w)'
      BY <1>1, <1>8, <1>9, <2>3, <3>1, <3>2
    <3>. QED
      BY <1>1, <1>3, <2>1, <2>3, <3>1, <3>2, <3>3
  <2>6. CASE old.overtaken = TRUE
    <3>1. /\ brought' = [brought EXCEPT ![p] = @ + n] /\ DOMAIN brought' = W
          /\ Fresh' \subseteq Fresh /\ DOMAIN balance' = W
      BY <1>1, <1>8, <2>1, <2>2, <2>3, <2>4, <2>6 DEF Fresh
    <3>2. ASSUME NEW w \in W
          PROVE  \E k \in Nat : /\ balance'[w] = balance[w] + k
                                /\ brought'[w] = brought[w] + k
                                /\ k = 0 \/ AtStart[w] <= Target
      <4>1. CASE w = p
        <5>1. balance'[w] = balance[w] + n /\ brought'[w] = brought[w] + n
          BY <1>1, <1>8, <2>3, <2>4, <3>1, <4>1
        <5>2. n = 0 \/ AtStart[w] <= Target
          BY <2>3, <2>4, <4>1 DEF Transfer
        <5>. QED
          BY <5>1, <5>2
      <4>2. CASE w # p
        <5>1. balance'[w] = balance[w] + 0 /\ brought'[w] = brought[w] + 0
          <6>1. brought[w] \in Nat /\ brought'[w] = brought[w]
            BY <1>1, <3>1, <4>2 DEF Filled
          <6>. QED
            BY <1>8, <2>3, <2>4, <4>2, <6>1
        <5>. QED
          BY <5>1
      <4>. QED
        BY <4>1, <4>2
    <3>3. ASSUME NEW w \in W PROVE Filled(w)'
      <4>1. PICK k \in Nat : /\ balance'[w] = balance[w] + k
                             /\ brought'[w] = brought[w] + k
                             /\ k = 0 \/ AtStart[w] <= Target
        BY <3>2
      <4>2. Filled(w) /\ AtStart[w] \in Nat
        BY <1>1, <1>2
      <4>. QED
        BY <1>2, <4>1, <4>2 DEF Filled
    <3>4. ASSUME NEW x, Transfer(x), Fills(x) PROVE Fills(x)'
      <4>1. PICK w \in W, i \in Nat : w = x.to /\ i = x.amount
        BY <1>2, <3>4
      <4>2. PICK k \in Nat : /\ balance'[w] = balance[w] + k
                             /\ brought'[w] = brought[w] + k
        BY <3>2
      <4>3. /\ balance[w] \in Nat /\ brought[w] \in Nat
            /\ i = 0 \/ balance[w] + i <= Target + brought[w]
        BY <1>1, <3>4, <4>1 DEF Filled, Fills
      <4>4. i = 0 \/ balance'[w] + i <= Target + brought'[w]
        BY <1>2, <4>2, <4>3
      <4>. QED
        BY <4>1, <4>4 DEF Fills
    <3>5. \A x \in sent' : Transfer(x) /\ Fills(x)'
      BY <1>1, <2>1, <3>4
    <3>6. \A y \in Fresh' : Fills(y.tx)'
      <4>1. ASSUME NEW y \in Fresh' PROVE Fills(y.tx)'
        <5>1. PICK x : x = y.tx
          OBVIOUS
        <5>2. Transfer(x) /\ Fills(x)
          BY <1>1, <3>1, <5>1 DEF Fresh
        <5>. QED
          BY <3>4, <5>1, <5>2
      <4>. QED
        BY <4>1
    <3>. QED
      BY <1>1, <1>3, <2>1, <2>3, <3>1, <3>3, <3>5, <3>6
  <2>. QED
    BY <2>3, <2>5, <2>6 DEF LateShape
<1>18. CASE Funding!DropLate
  <2>1. /\ late' \subseteq late /\ UNCHANGED <<fundPc, at, sent, balance, brought>>
        /\ Fresh' \subseteq Fresh
    BY <1>7, <1>18 DEF Funding!DropLate, Fresh
  <2>2. /\ \A x \in sent' : Transfer(x) /\ Fills(x)'
        /\ \A y \in Fresh' : Fills(y.tx)'
    BY <1>1, <1>6, <2>1
  <2>. QED
    BY <1>1, <1>3, <1>6, <2>1, <2>2
<1>. QED
  BY <1>11, <1>12, <1>13, <1>14, <1>15, <1>16, <1>17, <1>18
  DEF Funding!FundNext, Funding!FundStep

\* A wallet that has more than at the start has the target at most, but for what
\* overtaken transfers brought.
LEMMA FundedOnce ==
  ASSUME FundInvariant
  PROVE  Funding!NobodyIsPaidTwice
<1>. DEFINE W == Range(<<m, a, b, c>>)
<1>1. \A w \in W : Filled(w) /\ AtStart[w] \in Nat
  BY FundedWallets DEF FundInvariant
<1>. HIDE DEF W
<1>2. \A w \in W : balance[w] > AtStart[w] => balance[w] <= Target + brought[w]
  BY <1>1 DEF Filled
<1>. QED
  BY <1>2 DEF Funding!NobodyIsPaidTwice, Funding!Range, Range, W

-----------------------------------------------------------------------------
(***************************************************************************)
(* What an instruction does to an agent, as the drain submits it.          *)
(***************************************************************************)
\* The drain names wallets, lanes and entries as the setup does.
LEMMA DrainNames ==
  /\ Draining!Wallets = Wallets /\ Draining!Range(Wallets) = Range(Wallets)
  /\ Draining!Range(Roster) = Agents
  /\ \A w : Draining!LaneTo(w) = LaneTo(w) /\ Draining!Entry(w) = slot[<<w, Tok>>]
  /\ \A l : Draining!Payer(l) = Payer(l)
  /\ Draining!Accounts = Accounts
  /\ \A w : <<w, Tok>>[1] = w /\ <<w, Tok>>[2] = Tok
BY DEF Draining!Wallets, Wallets, Draining!Range, Range, Agents, Draining!LaneTo, LaneTo,
       Draining!Entry, Draining!Payer, Payer, Draining!Accounts, Accounts

\* It uses the same helpers of the program.
LEMMA DrainHelpers ==
  /\ \A e, n : Draining!CanApplyDelta(e, n) = CanApplyDelta(e, n)
  /\ \A e, n : Draining!ApplyDelta(e, n) = ApplyDelta(e, n)
  /\ \A e, n : Draining!Credit(e, n) = Credit(e, n)
  /\ \A ln, n, k : Draining!ApplyLaneSettlement(ln, n, k) = ApplyLaneSettlement(ln, n, k)
  /\ \A ln, n : Draining!CapPendingUnlock(ln, n) = CapPendingUnlock(ln, n)
<1>1. \A i, j : Draining!Lesser(i, j) = Lesser(i, j)
  BY DEF Draining!Lesser, Lesser
<1>2. \A e : Draining!FindOrCreate(e) = FindOrCreate(e) /\ Draining!Total(e) = Total(e)
  BY DEF Draining!FindOrCreate, FindOrCreate, Draining!EmptyEntry, EmptyEntry,
         Draining!Total, Total
<1>3. \A e, n : Draining!Credit(e, n) = Credit(e, n)
  BY <1>2, Zenon DEF Draining!Credit, Credit
<1>4. \A e, n : Draining!Drain(e, n) = Drain(e, n)
  BY <1>1, Zenon DEF Draining!Drain, Drain
<1>5. \A e, n : Draining!ApplyDelta(e, n) = ApplyDelta(e, n)
  BY <1>3, <1>4, Zenon DEF Draining!ApplyDelta, ApplyDelta
<1>6. \A e, n : Draining!CanApplyDelta(e, n) = CanApplyDelta(e, n)
  BY <1>2, Zenon DEF Draining!CanApplyDelta, CanApplyDelta, Draining!Fits, Fits
<1>7. \A ln, n : Draining!CapPendingUnlock(ln, n) = CapPendingUnlock(ln, n)
  BY <1>1, Zenon DEF Draining!CapPendingUnlock, CapPendingUnlock
<1>8. \A ln, n, k : Draining!ApplyLaneSettlement(ln, n, k) = ApplyLaneSettlement(ln, n, k)
  BY <1>7, Zenon DEF Draining!ApplyLaneSettlement, ApplyLaneSettlement
<1>. QED
  BY <1>3, <1>5, <1>6, <1>7, <1>8

\* Nothing of an agent grows.
Lessened(w) == Locked(w)' <= Locked(w) /\ Free(w)' <= Free(w) /\ Leaving(w)' <= Leaving(w)

\* settle_individual, submitted by the merchant while the drain runs.
LEMMA DrainCashEffect ==
  ASSUME Amounted, NEW cm \in Commitments, Draining!SettleIndividual(cm, Merchant)
  PROVE  CashEffect
<1>. DEFINE l == cm.lane
            target == cm.amount
<1>1. l \in Lanes /\ target \in Nat
  BY CommitmentsAssumption
<1>2. PICK p \in Agents : l = LaneTo(p)
  BY <1>1, LanesAre
<1>. DEFINE net == Draining!IndividualNet(cm)
            d == Debit(lane[l], target)
            k == Taken(lane[l], target)
<1>3. /\ Draining!Increases(l, target)
      /\ Draining!ApplySettlement(l.token, [x \in {l} |-> target], net)
  BY Zenon DEF Draining!SettleIndividual, Draining!CommitmentAccepted
<1>4. l.payer = p /\ l.payee = Merchant /\ l.token = Tok
  BY <1>2, LanesAre
<1>5. /\ lane[l].initialized /\ target > lane[l].settled_cumulative
      /\ Draining!LockedConsumed(l, target) = k
      /\ Draining!SharedDebit(l, target) = d
  BY <1>3 DEF Draining!Increases, Draining!Owed, Draining!LockedConsumed, Draining!SharedDebit,
              Draining!Lesser, Lesser, Taken, Debit
<1>6. \A w \in Agents : net[w] = IF w = p THEN -d ELSE 0
  BY <1>4, <1>5, RosterShape DEF Draining!IndividualNet
<1>. HIDE DEF net, l, target, d, k
<1>7. \A w \in Agents :
        /\ CanApplyDelta(slot[<<w, Tok>>], net[w])
        /\ <<w, Tok>> \in DOMAIN slot'
        /\ slot'[<<w, Tok>>] = ApplyDelta(slot[<<w, Tok>>], net[w])
  <2>1. /\ \A w \in Participants : Draining!CanApplyDelta(slot[<<w, Tok>>], net[w])
        /\ slot' = [x \in Draining!Accounts |->
                      IF x[2] = Tok THEN Draining!ApplyDelta(slot[x], net[x[1]]) ELSE slot[x]]
    BY <1>3, <1>4, Zenon DEF Draining!ApplySettlement, Draining!CanApplySettlement
  <2>. QED
    BY <2>1, LanesAre, RosterShape, DrainNames, DrainHelpers
<1>8. \A w \in Agents :
        /\ LaneTo(w) \in DOMAIN lane'
        /\ lane'[LaneTo(w)] = IF w = p THEN ApplyLaneSettlement(lane[LaneTo(w)], target, k)
                                       ELSE lane[LaneTo(w)]
  <2>1. lane' = [x \in Lanes |-> IF x \in DOMAIN [y \in {l} |-> target]
                                 THEN Draining!ApplyLaneSettlement(lane[x],
                                        [y \in {l} |-> target][x],
                                        Draining!LockedConsumed(x, [y \in {l} |-> target][x]))
                                 ELSE lane[x]]
    BY <1>3, Zenon DEF Draining!ApplySettlement
  <2>2. ASSUME NEW w \in Agents
        PROVE  /\ LaneTo(w) \in DOMAIN lane'
               /\ lane'[LaneTo(w)] = IF w = p
                                     THEN ApplyLaneSettlement(lane[LaneTo(w)], target, k)
                                     ELSE lane[LaneTo(w)]
    <3>1. LaneTo(w) \in Lanes /\ (LaneTo(w) = l <=> w = p)
      BY <1>2, LanesAre
    <3>2. Draining!ApplyLaneSettlement(lane[l], target, k)
            = ApplyLaneSettlement(lane[l], target, k)
      BY DrainHelpers
    <3>. QED
      BY <1>5, <2>1, <3>1, <3>2
  <2>. QED
    BY <2>2
<1>9. \A w \in Agents : w # p => ApplyDelta(slot[<<w, Tok>>], net[w]) = slot[<<w, Tok>>]
  BY <1>6 DEF ApplyDelta
<1>10. Cashes(p, target)
  BY <1>2, <1>5, <1>6, <1>7, <1>8, <1>9 DEF Cashes, d, k
<1>. QED
  BY <1>1, <1>10, CashesHasEffect
\* An instruction that rewrites the entry of one wallet, an agent's or not.
LEMMA EntryWritten ==
  ASSUME Amounted, NEW w, NEW f, w \in Agents => EntryShape(f),
         slot' = [slot EXCEPT ![<<w, Tok>>] = f], UNCHANGED lane
  PROVE  /\ Amounted'
         /\ \A v \in Agents \ {w} : SameAmounts(v)
         /\ w \in Agents => /\ Locked(w)' = Locked(w)
                            /\ Free(w)' = f.available_balance
                            /\ Leaving(w)' = f.withdrawing_balance
<1>1. CASE w \in Agents
  <2>1. slot'[<<w, Tok>>] = f
    BY <1>1 DEF Amounted
  <2>2. Touches(w)
    BY DEF Touches, Amounted
  <2>3. LaneShape(lane'[LaneTo(w)])
    BY <1>1 DEF Amounted
  <2>. QED
    BY <1>1, <2>1, <2>2, <2>3, TouchesOne DEF Locked, Free, Leaving
<1>2. CASE w \notin Agents
  <2>1. \A v \in Agents : <<v, Tok>> \in DOMAIN slot' /\ slot'[<<v, Tok>>] = slot[<<v, Tok>>]
    BY <1>2 DEF Amounted
  <2>. QED
    BY <1>2, <2>1 DEF Amounted, SameAmounts, Open, Locked, Settled, Free, Leaving
<1>. QED
  BY <1>1, <1>2

\* cooperative_unlock_channel_funds
LEMMA DrainUnlockEffect ==
  ASSUME Amounted, NEW p \in Agents, NEW n \in Nat,
         Draining!CooperativeUnlock(Draining!LaneTo(p), n)
  PROVE  /\ Amounted'
         /\ \A w \in Agents \ {p} : SameAmounts(w)
         /\ n <= Locked(p) /\ Locked(p)' + n = Locked(p)
         /\ Free(p)' = Free(p) + n /\ Leaving(p)' = Leaving(p)
<1>. DEFINE e == slot[<<p, Tok>>]
            ln == lane[LaneTo(p)]
            f == slot'[<<p, Tok>>]
            new == lane'[LaneTo(p)]
            less == [ln EXCEPT !.locked_balance = ln.locked_balance - n]
<1>1. /\ ln.initialized /\ n <= ln.locked_balance
      /\ slot' = [slot EXCEPT ![<<p, Tok>>] = Credit(e, n)]
      /\ lane' = [lane EXCEPT ![LaneTo(p)] = CapPendingUnlock(less, ln.locked_balance - n)]
  <2>1. Draining!LaneTo(p) = LaneTo(p) /\ Draining!Payer(LaneTo(p)) = <<p, Tok>>
    BY DrainNames, LanesAre
  <2>2. /\ Draining!Credit(e, n) = Credit(e, n)
        /\ Draining!CooperativeUnlockLane(ln, n) = CapPendingUnlock(less, ln.locked_balance - n)
    BY DrainHelpers, Zenon DEF Draining!CooperativeUnlockLane
  <2>3. /\ ln.initialized /\ n <= ln.locked_balance
        /\ slot' = [slot EXCEPT ![<<p, Tok>>] = Draining!Credit(e, n)]
        /\ lane' = [lane EXCEPT ![LaneTo(p)] = Draining!CooperativeUnlockLane(ln, n)]
    BY <2>1 DEF Draining!CooperativeUnlock
  <2>. QED
    BY <2>2, <2>3
<1>2. /\ EntryShape(e) /\ LaneShape(ln)
      /\ LaneTo(p) \in DOMAIN lane /\ <<p, Tok>> \in DOMAIN slot
  BY DEF Amounted
<1>3. f = Credit(e, n) /\ new = CapPendingUnlock(less, ln.locked_balance - n)
  BY <1>1, <1>2
<1>4. Touches(p)
  BY <1>1, LanesAre DEF Touches, Amounted
<1>5. /\ DOMAIN less = DOMAIN ln /\ less.initialized = ln.initialized
      /\ less.locked_balance = ln.locked_balance - n
      /\ less.settled_cumulative = ln.settled_cumulative
  BY <1>2 DEF LaneShape
<1>. HIDE DEF e, ln, f, new, less
<1>6. /\ DOMAIN new = DOMAIN ln /\ new.initialized = ln.initialized
      /\ new.locked_balance = ln.locked_balance - n
      /\ new.settled_cumulative = ln.settled_cumulative
  BY <1>3, <1>5, CapShape
<1>7. /\ EntryShape(f) /\ f.available_balance = e.available_balance + n
      /\ f.withdrawing_balance = e.withdrawing_balance
  BY <1>2, <1>3, CreditShape
<1>8. LaneShape(new) /\ new.locked_balance + n = ln.locked_balance
  BY <1>1, <1>2, <1>6 DEF LaneShape
<1>. QED
  BY <1>1, <1>4, <1>7, <1>8, TouchesOne DEF e, f, new, ln, Locked, Free, Leaving

\* request_withdrawal
LEMMA DrainRequestEffect ==
  ASSUME Amounted, NEW w, NEW n, w \in Agents => n \in Nat, NEW d,
         Draining!RequestWithdrawal(<<w, Tok>>, n, d)
  PROVE  /\ Amounted'
         /\ \A v \in Agents \ {w} : SameAmounts(v)
         /\ w \in Agents => /\ Locked(w)' = Locked(w)
                            /\ n > 0 /\ n <= Free(w) /\ Free(w)' + n = Free(w)
<1>. DEFINE e == slot[<<w, Tok>>]
            f == Draining!InitiateWithdrawal(e, n, d, now + WithdrawalTimelock)
<1>1. /\ n > 0 /\ e.initialized /\ e.available_balance >= n
      /\ slot' = [slot EXCEPT ![<<w, Tok>>] = f] /\ UNCHANGED lane
  BY DEF Draining!RequestWithdrawal, Draining!CanInitiateWithdrawal, Draining!laneVars
<1>2. w \in Agents => EntryShape(e)
  BY DEF Amounted
<1>3. w \in Agents =>
        /\ DOMAIN f = DOMAIN e /\ f.initialized = e.initialized
        /\ f.available_balance = e.available_balance - n
        /\ f.withdrawing_balance = e.withdrawing_balance + n
  BY <1>2 DEF Draining!InitiateWithdrawal, EntryShape
<1>. HIDE DEF e, f
<1>4. w \in Agents => EntryShape(f) /\ f.available_balance + n = e.available_balance
  <2>1. ASSUME w \in Agents
        PROVE  EntryShape(f) /\ f.available_balance + n = e.available_balance
    <3>1. e.available_balance \in Nat /\ e.withdrawing_balance \in Nat
      BY <1>2, <2>1 DEF EntryShape
    <3>2. /\ e.available_balance - n \in Nat /\ e.withdrawing_balance + n \in Nat
          /\ f.available_balance + n = e.available_balance
      BY <1>1, <1>3, <2>1, <3>1
    <3>. QED
      BY <1>1, <1>2, <1>3, <2>1, <3>2 DEF EntryShape
  <2>. QED
    BY <2>1
<1>5. /\ Amounted'
      /\ \A v \in Agents \ {w} : SameAmounts(v)
      /\ w \in Agents => Locked(w)' = Locked(w) /\ Free(w)' = f.available_balance
  BY <1>1, <1>4, EntryWritten
<1>. QED
  BY <1>1, <1>4, <1>5 DEF e, Free

\* execute_withdrawal, and what it pays into the destination's token account.
LEMMA DrainPayOutEffect ==
  ASSUME Amounted, NEW w, Draining!PayOut(w)
  PROVE  /\ Amounted'
         /\ \A v \in Agents : Lessened(v)
         /\ w \in Agents => Leaving(w)' = 0
         /\ DOMAIN ata' = DOMAIN ata
         /\ \A v \in DOMAIN ata : ata[v] = Draining!Closed => ata'[v] = Draining!Closed
<1>. DEFINE e == slot[<<w, Tok>>]
            f == Draining!ClearWithdrawal(e)
<1>1. slot' = [slot EXCEPT ![<<w, Tok>>] = f] /\ UNCHANGED lane
  BY DEF Draining!PayOut, Draining!ExecuteWithdrawal, Draining!laneVars
<1>2. w \in Agents => EntryShape(e)
  BY DEF Amounted
<1>3. w \in Agents =>
        /\ DOMAIN f = DOMAIN e /\ f.initialized = e.initialized
        /\ f.available_balance = e.available_balance
        /\ f.withdrawing_balance = 0
  BY <1>2 DEF Draining!ClearWithdrawal, EntryShape
<1>. HIDE DEF e, f
<1>4. w \in Agents => EntryShape(f)
  BY <1>2, <1>3 DEF EntryShape
<1>5. /\ Amounted'
      /\ \A v \in Agents \ {w} : SameAmounts(v)
      /\ w \in Agents => /\ Locked(w)' = Locked(w)
                         /\ Free(w)' = f.available_balance
                         /\ Leaving(w)' = f.withdrawing_balance
  BY <1>1, <1>4, EntryWritten
<1>6. ASSUME NEW v \in Agents PROVE Lessened(v)
  <2>1. Locked(v) \in Nat /\ Free(v) \in Nat /\ Leaving(v) \in Nat
    BY Numbers
  <2>2. CASE v = w
    BY <1>3, <1>5, <2>1, <2>2 DEF Lessened, e, Free
  <2>3. CASE v # w
    BY <1>5, <2>1, <2>3 DEF Lessened, SameAmounts
  <2>. QED
    BY <2>2, <2>3
<1>7. /\ DOMAIN ata' = DOMAIN ata
      /\ \A v \in DOMAIN ata : ata[v] = Draining!Closed => ata'[v] = Draining!Closed
  <2>1. PICK to : \E x : /\ ata[to] # Draining!Closed
                         /\ ata' = [ata EXCEPT ![to] = x]
    BY DEF Draining!PayOut
  <2>. QED
    BY <2>1
<1>. QED
  BY <1>3, <1>5, <1>6, <1>7

\* A settlement or a step off chain lets nothing of an agent grow either.
LEMMA DrainQuietEffect ==
  ASSUME Amounted, CashEffect \/ UNCHANGED Draining!vars
  PROVE  Amounted' /\ \A w \in Agents : Lessened(w)
<1>1. CASE CashEffect
  BY <1>1 DEF CashEffect, Lessened
<1>2. CASE UNCHANGED Draining!vars
  <2>1. UNCHANGED <<slot, lane>>
    BY <1>2 DEF Draining!vars, Draining!balanceVars, Draining!laneVars
  <2>2. Amounted' /\ \A w \in Agents : SameAmounts(w)
    BY <2>1, UntouchedAmounts
  <2>3. ASSUME NEW w \in Agents PROVE Lessened(w)
    BY <2>2, Numbers DEF SameAmounts, Lessened
  <2>. QED
    BY <2>2, <2>3
<1>. QED
  BY <1>1, <1>2

\* What was taken from an agent stays taken while nothing grows.
LEMMA LessenedStays ==
  ASSUME Amounted, Amounted', NEW w \in Agents, Lessened(w), crossed \subseteq crossed'
  PROVE  /\ Locked(w) = 0 => Locked(w)' = 0
         /\ Free(w) = 0 => Free(w)' = 0
         /\ Left(w) => Left(w)'
         /\ Drained(w) => Drained(w)'
<1>1. /\ Locked(w) \in Nat /\ Free(w) \in Nat /\ Leaving(w) \in Nat
      /\ Locked(w)' \in Nat /\ Free(w)' \in Nat /\ Leaving(w)' \in Nat
  BY Numbers DEF Amounted, EntryShape, LaneShape, Locked, Free, Leaving
<1>2. /\ Locked(w) = 0 => Locked(w)' = 0
      /\ Free(w) = 0 => Free(w)' = 0
      /\ Leaving(w) = 0 => Leaving(w)' = 0
  BY <1>1 DEF Lessened
<1>. QED
  BY <1>2 DEF Drained, Left

\* Behind the back of a process that has unlocked everything, or has reported,
\* nothing becomes free, and only what is noted in the history becomes pending.
Calm(w) ==
  /\ Locked(w)' <= Locked(w)
  /\ Free(w)' <= Free(w) \/ (pc.phase \in {"stopped", "unlock"} /\ ~done)
  /\ Left(w) => Left(w)'

LEMMA LessenedIsCalm ==
  ASSUME Amounted, Amounted', \A w \in Agents : Lessened(w), crossed \subseteq crossed'
  PROVE  \A w \in Agents : Calm(w)
BY LessenedStays DEF Calm, Lessened
-----------------------------------------------------------------------------
(***************************************************************************)
(* The drain: what it reports is so.                                       *)
(***************************************************************************)
\* Where a step leads: the next phase of the same wallet, or the next one.
LEMMA DrainAfterIs ==
  ASSUME NEW i \in Nat
  PROVE  /\ i \in DOMAIN Roster /\ i # Len(Roster) =>
              /\ Draining!After("unlock", i) = [phase |-> "unlock", at |-> i + 1]
              /\ i + 1 \in DOMAIN Roster
         /\ Draining!After("unlock", Len(Roster)) = [phase |-> "account", at |-> 1]
         /\ Draining!After("account", i) = [phase |-> "existing", at |-> i]
         /\ Draining!After("existing", i) = [phase |-> "request", at |-> i]
         /\ Draining!After("request", i) = [phase |-> "execute", at |-> i]
         /\ i \in DOMAIN Wallets /\ i # Len(Wallets) =>
              /\ Draining!After("execute", i) = [phase |-> "account", at |-> i + 1]
              /\ Draining!After("sweep", i) = [phase |-> "sweep", at |-> i + 1]
              /\ i + 1 \in DOMAIN Wallets
         /\ Draining!After("execute", Len(Wallets)) = [phase |-> "sweep", at |-> 1]
         /\ Draining!After("sweep", Len(Wallets)) = [phase |-> "report", at |-> 1]
         /\ 1 \in DOMAIN Roster /\ 1 \in DOMAIN Wallets
<1>1. /\ i \in DOMAIN Wallets /\ i # Len(Wallets) => i < Len(Wallets) /\ i + 1 \in DOMAIN Wallets
      /\ i \in DOMAIN Roster /\ i # Len(Roster) => i < Len(Roster) /\ i + 1 \in DOMAIN Roster
      /\ ~(Len(Wallets) < Len(Wallets)) /\ ~(Len(Roster) < Len(Roster))
      /\ 1 \in DOMAIN Roster /\ 1 \in DOMAIN Wallets
  BY RosterShape
<1>2. /\ i < Len(Roster) => Draining!After("unlock", i) = [phase |-> "unlock", at |-> i + 1]
      /\ Draining!After("unlock", Len(Roster)) = [phase |-> "account", at |-> 1]
  BY <1>1 DEF Draining!After
<1>3. /\ i < Len(Wallets) => Draining!After("execute", i) = [phase |-> "account", at |-> i + 1]
      /\ Draining!After("execute", Len(Wallets)) = [phase |-> "sweep", at |-> 1]
  BY <1>1, DrainNames DEF Draining!After
<1>4. /\ i < Len(Wallets) => Draining!After("sweep", i) = [phase |-> "sweep", at |-> i + 1]
      /\ Draining!After("sweep", Len(Wallets)) = [phase |-> "report", at |-> 1]
  BY <1>1, DrainNames DEF Draining!After
<1>5. /\ Draining!After("account", i) = [phase |-> "existing", at |-> i]
      /\ Draining!After("existing", i) = [phase |-> "request", at |-> i]
      /\ Draining!After("request", i) = [phase |-> "execute", at |-> i]
  BY DEF Draining!After
<1>. QED
  BY <1>1, <1>2, <1>3, <1>4, <1>5

\* The process goes on: what it had to do at its position is done.
LEMMA DrainMovesOn ==
  ASSUME DrainInvariant, Amounted', sent' = {}, UNCHANGED <<late, crossed, done>>,
         NEW phase,
         phase = pc.phase \/ (pc.phase = "request" /\ phase = "execute"),
         pc.phase \notin {"stopped", "report"},
         pc' = Draining!After(phase, pc.at),
         \A w \in Agents : Locked(w) = 0 => Locked(w)' = 0,
         \A w \in Agents : pc.phase # "unlock" /\ Drained(w) => Drained(w)',
         \A v \in DOMAIN ata :
           /\ v \in DOMAIN ata'
           /\ pc.phase = "sweep" /\ Shut(v) => Shut(v)',
         NEW p, p = Roster[pc.at], NEW q, q = Wallets[pc.at],
         pc.phase = "unlock" => Locked(p)' = 0,
         pc.phase = "existing" /\ q \in Agents => Left(q)',
         phase = "request" /\ q \in Agents => Free(q)' = 0,
         phase = "execute" /\ q \in Agents => Drained(q)',
         pc.phase = "sweep" => Shut(q)'
  PROVE  DrainInvariant'
<1>1. /\ DrainPosition /\ DrainReached /\ DrainReport
      /\ pc.at \in Nat /\ pc.phase \in DrainPhases /\ ~done /\ ~done'
  BY DEF DrainInvariant, DrainPosition, DrainReport
<1>2. DrainWaits'
  BY DEF DrainInvariant, DrainWaits, LateTxs
<1>3. DrainReport'
  BY <1>1 DEF DrainReport
<1>4. \A w \in Range(Wallets) : w \in DOMAIN ata'
  BY <1>1 DEF DrainPosition
<1>5. DrainPosition' /\ DrainReached'
  <2>1. CASE pc.phase = "unlock"
    <3>1. /\ pc.at \in DOMAIN Roster /\ pc.at \in 1 .. Len(Roster) /\ Len(Roster) \in Nat
          /\ ChannelsKnown
      BY <1>1, <2>1, RosterShape DEF DrainPosition
    <3>. DEFINE T == {j \in DOMAIN Roster : Locked(Roster[j])' = 0}
    <3>2. \A j \in 1 .. (pc.at - 1) : j \in T
      <4>1. \A j \in 1 .. (pc.at - 1) : Locked(Roster[j]) = 0 /\ j \in DOMAIN Roster
        BY <1>1, <2>1, <3>1, RosterShape DEF DrainReached
      <4>. QED
        BY <4>1, WalletsAre
    <3>3. pc.at \in T
      BY <2>1, <3>1
    <3>4. /\ \A j \in 1 .. ((pc.at + 1) - 1) : j \in T
          /\ pc.at = Len(Roster) => \A j \in DOMAIN Roster : j \in T
      BY <3>1, <3>2, <3>3, AllBefore, RosterShape
    <3>5. CASE pc.at = Len(Roster)
      <4>1. pc' = [phase |-> "account", at |-> 1] /\ 1 \in DOMAIN Wallets
        BY <1>1, <2>1, <3>5, DrainAfterIs
      <4>2. \A w \in Agents : Locked(w)' = 0
        BY <3>4, <3>5, WalletsAre
      <4>. QED
        BY <1>4, <4>1, <4>2
        DEF DrainPosition, DrainReached, WalletPhases, DrainPhases
    <3>6. CASE pc.at # Len(Roster)
      <4>1. pc' = [phase |-> "unlock", at |-> pc.at + 1] /\ pc.at + 1 \in DOMAIN Roster
        BY <1>1, <2>1, <3>1, <3>6, DrainAfterIs
      <4>2. \A j \in 1 .. ((pc.at + 1) - 1) : Locked(Roster[j])' = 0
        BY <3>4
      <4>. QED
        BY <1>1, <1>4, <3>1, <4>1, <4>2
        DEF DrainPosition, DrainReached, WalletPhases, DrainPhases
    <3>. QED
      BY <3>5, <3>6
  <2>2. CASE pc.phase \in WalletPhases
    <3>1. /\ pc.at \in DOMAIN Wallets /\ pc.at \in 1 .. Len(Wallets) /\ Len(Wallets) \in Nat
          /\ pc.phase # "unlock"
      BY <1>1, <2>2, RosterShape DEF DrainPosition, WalletPhases
    <3>2. ChannelsKnown => \A w \in Agents : Locked(w)' = 0
      BY <1>1, <2>2 DEF DrainReached, WalletPhases
    <3>. DEFINE T == {j \in DOMAIN Wallets : Wallets[j] \in Agents => Drained(Wallets[j])'}
    <3>3. \A j \in 1 .. (pc.at - 1) : j \in T
      <4>1. \A j \in 1 .. (pc.at - 1) :
              (Wallets[j] \in Agents => Drained(Wallets[j])) /\ j \in DOMAIN Wallets
        BY <1>1, <2>2, <3>1, RosterShape DEF DrainReached
      <4>. QED
        BY <3>1, <4>1
    <3>4. \A j \in 1 .. (pc.at - 1) : Wallets[j] \in Agents => Drained(Wallets[j])'
      BY <3>3
    <3>5. CASE phase = "account"
      <4>1. pc' = [phase |-> "existing", at |-> pc.at]
        BY <1>1, <3>5, DrainAfterIs
      <4>. QED
        BY <1>1, <1>4, <3>1, <3>2, <3>4, <4>1
        DEF DrainPosition, DrainReached, WalletPhases, DrainPhases
    <3>6. CASE phase = "existing"
      <4>1. pc' = [phase |-> "request", at |-> pc.at]
        BY <1>1, <3>6, DrainAfterIs
      <4>. QED
        BY <1>1, <1>4, <3>1, <3>2, <3>4, <3>6, <4>1
        DEF DrainPosition, DrainReached, WalletPhases, DrainPhases
    <3>7. CASE phase = "request"
      <4>1. pc' = [phase |-> "execute", at |-> pc.at]
        BY <1>1, <3>7, DrainAfterIs
      <4>. QED
        BY <1>1, <1>4, <3>1, <3>2, <3>4, <3>7, <4>1
        DEF DrainPosition, DrainReached, WalletPhases, DrainPhases
    <3>8. CASE phase = "execute"
      <4>1. pc.at \in T
        BY <3>1, <3>8
      <4>2. /\ \A j \in 1 .. ((pc.at + 1) - 1) : j \in T
            /\ pc.at = Len(Wallets) => \A j \in DOMAIN Wallets : j \in T
        BY <3>1, <3>3, <4>1, AllBefore, RosterShape
      <4>3. CASE pc.at = Len(Wallets)
        <5>1. pc' = [phase |-> "sweep", at |-> 1] /\ 1 \in DOMAIN Wallets
          BY <1>1, <3>8, <4>3, DrainAfterIs
        <5>2. \A w \in Agents : Drained(w)'
          BY <4>2, <4>3, WalletsAre
        <5>. QED
          BY <1>4, <3>2, <5>1, <5>2
          DEF DrainPosition, DrainReached, WalletPhases, DrainPhases
      <4>4. CASE pc.at # Len(Wallets)
        <5>1. pc' = [phase |-> "account", at |-> pc.at + 1] /\ pc.at + 1 \in DOMAIN Wallets
          BY <1>1, <3>1, <3>8, <4>4, DrainAfterIs
        <5>2. \A j \in 1 .. ((pc.at + 1) - 1) : Wallets[j] \in Agents => Drained(Wallets[j])'
          BY <4>2
        <5>. QED
          BY <1>1, <1>4, <3>2, <5>1, <5>2
          DEF DrainPosition, DrainReached, WalletPhases, DrainPhases
      <4>. QED
        BY <4>3, <4>4
    <3>. QED
      BY <2>2, <3>5, <3>6, <3>7, <3>8 DEF WalletPhases
  <2>3. CASE pc.phase = "sweep"
    <3>1. /\ pc.at \in DOMAIN Wallets /\ pc.at \in 1 .. Len(Wallets) /\ Len(Wallets) \in Nat
          /\ phase = "sweep"
      BY <1>1, <2>3, RosterShape DEF DrainPosition
    <3>2. /\ ChannelsKnown => \A w \in Agents : Locked(w)' = 0
          /\ \A w \in Agents : Drained(w)'
      BY <1>1, <2>3 DEF DrainReached
    <3>. DEFINE T == {j \in DOMAIN Wallets : Shut(Wallets[j])'}
    <3>3. \A j \in 1 .. (pc.at - 1) : j \in T
      <4>1. \A j \in 1 .. (pc.at - 1) :
              Shut(Wallets[j]) /\ j \in DOMAIN Wallets
        BY <1>1, <2>3, <3>1, RosterShape DEF DrainReached
      <4>2. \A j \in DOMAIN Wallets : Wallets[j] \in DOMAIN ata
        BY <1>1, WalletsAre DEF DrainPosition
      <4>. QED
        BY <2>3, <4>1, <4>2
    <3>4. pc.at \in T
      BY <2>3, <3>1
    <3>5. /\ \A j \in 1 .. ((pc.at + 1) - 1) : j \in T
          /\ pc.at = Len(Wallets) => \A j \in DOMAIN Wallets : j \in T
      BY <3>1, <3>3, <3>4, AllBefore, RosterShape
    <3>6. CASE pc.at = Len(Wallets)
      <4>1. pc' = [phase |-> "report", at |-> 1]
        BY <1>1, <3>1, <3>6, DrainAfterIs
      <4>2. \A w \in Range(Wallets) : Shut(w)'
        BY <3>5, <3>6, WalletsAre
      <4>. QED
        BY <1>4, <3>2, <4>1, <4>2
        DEF DrainPosition, DrainReached, WalletPhases, DrainPhases
    <3>7. CASE pc.at # Len(Wallets)
      <4>1. pc' = [phase |-> "sweep", at |-> pc.at + 1] /\ pc.at + 1 \in DOMAIN Wallets
        BY <1>1, <3>1, <3>7, DrainAfterIs
      <4>2. \A j \in 1 .. ((pc.at + 1) - 1) : Shut(Wallets[j])'
        BY <3>5
      <4>. QED
        BY <1>1, <1>4, <3>2, <4>1, <4>2
        DEF DrainPosition, DrainReached, WalletPhases, DrainPhases
    <3>. QED
      BY <3>6, <3>7
  <2>. QED
    BY <1>1, <2>1, <2>2, <2>3 DEF DrainPhases, WalletPhases
<1>. QED
  BY <1>2, <1>3, <1>5 DEF DrainInvariant
\* The process sends what its position asks for and waits.
LEMMA DrainSendsOne ==
  ASSUME DrainInvariant, NEW kind, NEW owner, NEW amount, Draining!Send(kind, owner, amount),
         pc.phase \notin {"stopped", "report"},
         kind = IF pc.phase = "existing" THEN "execute" ELSE pc.phase,
         owner = IF pc.phase = "unlock" THEN Roster[pc.at] ELSE Wallets[pc.at],
         kind = "unlock" => amount \in Nat /\ amount >= Locked(owner),
         kind = "request" /\ owner \in Agents => amount \in Nat /\ amount >= Free(owner)
  PROVE  DrainInvariant'
<1>1. /\ sent' = {[kind |-> kind, owner |-> owner, amount |-> amount]}
      /\ UNCHANGED <<slot, lane, pc, late, crossed, ata, done>>
  BY DEF Draining!Send, Draining!vars, Draining!balanceVars, Draining!laneVars, Draining!lateVars
<1>2. Amounted /\ DrainPosition /\ DrainWaits /\ DrainReached /\ DrainReport
  BY DEF DrainInvariant
<1>3. Amounted' /\ DrainPosition'
  BY <1>1, <1>2 DEF Amounted, DrainPosition
<1>4. DrainReached' /\ DrainReport'
  BY <1>1, <1>2 DEF DrainReached, DrainReport, Drained, Left, Shut, Free, Leaving, Locked
<1>5. DrainWaits'
  BY <1>1, <1>2 DEF DrainWaits, LateTxs, Free, Locked
<1>. QED
  BY <1>3, <1>4, <1>5 DEF DrainInvariant

\* A run ends, whatever it has reached.
LEMMA DrainStopsAnywhere ==
  ASSUME DrainInvariant, pc.phase # "stopped", Draining!Stop, \A tx \in LateTxs' : DrainTx(tx),
         UNCHANGED Draining!vars, UNCHANGED <<ata, done>>
  PROVE  DrainInvariant'
<1>1. /\ pc' = [phase |-> "stopped", at |-> 1] /\ sent' = {}
      /\ DrainPosition /\ ~done /\ Amounted
  BY DEF Draining!Stop, DrainInvariant, DrainReport
<1>2. Amounted'
  BY <1>1, DrainQuietEffect
<1>3. DrainPosition' /\ DrainWaits' /\ DrainReached' /\ DrainReport'
  BY <1>1 DEF DrainPosition, DrainWaits, DrainReached, DrainReport, DrainPhases, WalletPhases
<1>. QED
  BY <1>2, <1>3 DEF DrainInvariant

\* Meanwhile others cash, execute withdrawals or wait, and what ended runs have
\* sent lands.
LEMMA DrainOthersAct ==
  ASSUME DrainInvariant, Amounted', \A w \in Agents : Calm(w), UNCHANGED <<pc, sent, done>>,
         LateTxs' \subseteq LateTxs,
         \A v \in DOMAIN ata : v \in DOMAIN ata' /\ (Shut(v) => Shut(v)')
  PROVE  DrainInvariant'
<1>1. /\ Amounted /\ DrainPosition /\ DrainWaits /\ DrainReached /\ DrainReport
      /\ \A w \in Range(Wallets) : w \in DOMAIN ata
  BY DEF DrainInvariant, DrainPosition
<1>2. ASSUME NEW w \in Agents
      PROVE  /\ Locked(w) = 0 => Locked(w)' = 0
             /\ Left(w) => Left(w)'
             /\ \A n \in Nat : n >= Locked(w) => n >= Locked(w)'
             /\ pc.phase \notin {"stopped", "unlock"} \/ done =>
                  /\ Free(w) = 0 => Free(w)' = 0
                  /\ Drained(w) => Drained(w)'
                  /\ \A n \in Nat : n >= Free(w) => n >= Free(w)'
  <2>1. /\ Locked(w) \in Nat /\ Free(w) \in Nat
        /\ Locked(w)' \in Nat /\ Free(w)' \in Nat
    BY <1>1, Numbers DEF Amounted, EntryShape, LaneShape, Locked, Free
  <2>2. /\ Locked(w)' <= Locked(w) /\ (Left(w) => Left(w)')
        /\ pc.phase \notin {"stopped", "unlock"} \/ done => Free(w)' <= Free(w)
    BY DEF Calm
  <2>3. /\ Locked(w) = 0 => Locked(w)' = 0
        /\ \A n \in Nat : n >= Locked(w) => n >= Locked(w)'
    BY <2>1, <2>2
  <2>4. ASSUME pc.phase \notin {"stopped", "unlock"} \/ done
        PROVE  /\ Free(w) = 0 => Free(w)' = 0
               /\ \A n \in Nat : n >= Free(w) => n >= Free(w)'
    BY <2>1, <2>2, <2>4
  <2>. QED
    BY <2>2, <2>3, <2>4 DEF Drained
<1>3. DrainPosition'
  BY <1>1 DEF DrainPosition
<1>4. DrainReport'
  BY <1>1, <1>2 DEF DrainReport
<1>5. DrainWaits'
  <2>1. ASSUME NEW tx \in sent
        PROVE  /\ tx.kind = "unlock" => tx.amount >= Locked(tx.owner)'
               /\ tx.kind = "request" /\ tx.owner \in Agents => tx.amount >= Free(tx.owner)'
    <3>1. PICK w : w = tx.owner
      OBVIOUS
    <3>2. tx.kind = "unlock" => w \in Agents /\ tx.amount \in Nat
      BY <1>1, <3>1, WalletsAre DEF DrainWaits, DrainPosition
    <3>3. tx.kind = "request" /\ w \in Agents => tx.amount \in Nat
      BY <1>1, <3>1 DEF DrainWaits
    <3>4. /\ tx.kind = "unlock" => tx.amount >= Locked(w)
          /\ tx.kind = "request" /\ w \in Agents => tx.amount >= Free(w)
      BY <1>1, <3>1 DEF DrainWaits
    <3>5. tx.kind = "request" => pc.phase = "request"
      BY <1>1 DEF DrainWaits
    <3>6. /\ tx.kind = "unlock" => tx.amount >= Locked(w)'
          /\ tx.kind = "request" /\ w \in Agents => tx.amount >= Free(w)'
      BY <1>2, <3>2, <3>3, <3>4, <3>5
    <3>. QED
      BY <3>1, <3>6
  <2>. QED
    BY <1>1, <1>2, <2>1 DEF DrainWaits
<1>6. DrainReached'
  <2>1. PICK q : q = Wallets[pc.at]
    OBVIOUS
  <2>2. pc.phase = "unlock" => \A j \in 1 .. (pc.at - 1) : Locked(Roster[j])' = 0
    <3>1. ASSUME pc.phase = "unlock", NEW j \in 1 .. (pc.at - 1) PROVE Locked(Roster[j])' = 0
      <4>1. pc.at \in DOMAIN Roster /\ Locked(Roster[j]) = 0
        BY <1>1, <3>1 DEF DrainPosition, DrainReached
      <4>2. Roster[j] \in Agents
        BY <4>1, RosterShape, WalletsAre
      <4>. QED
        BY <1>2, <4>1, <4>2
    <3>. QED
      BY <3>1
  <2>3. /\ ChannelsKnown /\ pc.phase \notin {"stopped", "unlock"} =>
             \A w \in Agents : Locked(w)' = 0
        /\ pc.phase \in WalletPhases =>
             \A j \in 1 .. (pc.at - 1) : Wallets[j] \in Agents => Drained(Wallets[j])'
        /\ pc.phase \in {"sweep", "report"} => \A w \in Agents : Drained(w)'
    BY <1>1, <1>2, WalletsAre DEF DrainReached, WalletPhases
  <2>4. /\ pc.phase = "request" => (q \in Agents => Left(q)')
        /\ pc.phase = "execute" => (q \in Agents => Free(q)' = 0)
    BY <1>1, <1>2, <2>1 DEF DrainReached
  <2>5. pc.phase = "sweep" => \A j \in 1 .. (pc.at - 1) : Shut(Wallets[j])'
    <3>1. ASSUME pc.phase = "sweep", NEW j \in 1 .. (pc.at - 1)
          PROVE  Shut(Wallets[j])'
      <4>1. pc.at \in DOMAIN Wallets /\ Shut(Wallets[j])
        BY <1>1, <3>1 DEF DrainPosition, DrainReached
      <4>2. Wallets[j] \in DOMAIN ata
        BY <1>1, <4>1, RosterShape, WalletsAre
      <4>. QED
        BY <4>1, <4>2
    <3>. QED
      BY <3>1
  <2>6. pc.phase = "report" => \A w \in Range(Wallets) : Shut(w)'
    BY <1>1 DEF DrainReached
  <2>. QED
    BY <2>1, <2>2, <2>3, <2>4, <2>5, <2>6 DEF DrainReached
<1>. QED
  BY <1>3, <1>4, <1>5, <1>6 DEF DrainInvariant
\* Every step of the drain's process.
LEMMA DrainStepInvariant ==
  ASSUME DrainInvariant, Draining!Step
  PROVE  DrainInvariant'
<1>1. /\ Amounted /\ DrainPosition /\ DrainWaits /\ DrainReached /\ DrainReport
      /\ \A w \in Range(Wallets) : w \in DOMAIN ata
      /\ pc.at \in Nat
  BY DEF DrainInvariant, DrainPosition
<1>2. PICK p, q : p = Roster[pc.at] /\ q = Wallets[pc.at]
  OBVIOUS
<1>3. /\ pc.phase = "unlock" => p \in Agents
      /\ pc.phase \in WalletPhases \cup {"sweep"} => q \in Range(Wallets)
  BY <1>1, <1>2, WalletsAre DEF DrainPosition
<1>4. Draining!Wallet = q /\ Draining!Entry(q) = slot[<<q, Tok>>]
  BY <1>2, DrainNames DEF Draining!Wallet
<1>5. UNCHANGED Draining!vars => UNCHANGED <<slot, lane>>
  BY DEF Draining!vars, Draining!balanceVars, Draining!laneVars
<1>6. ASSUME UNCHANGED Draining!vars, UNCHANGED <<late, crossed, ata, done>>, sent' = {},
             NEW phase,
             phase = pc.phase \/ (pc.phase = "request" /\ phase = "execute"),
             pc.phase \notin {"stopped", "report"},
             pc' = Draining!After(phase, pc.at),
             pc.phase = "unlock" => Locked(p) = 0,
             pc.phase = "existing" /\ q \in Agents => Left(q),
             phase = "request" /\ q \in Agents => Free(q) = 0,
             phase = "execute" /\ q \in Agents => Drained(q),
             pc.phase = "sweep" => Shut(q)
      PROVE  DrainInvariant'
  <2>1. /\ Amounted'
        /\ \A w : /\ Locked(w)' = Locked(w) /\ Free(w)' = Free(w) /\ Left(w)' = Left(w)
                  /\ Drained(w)' = Drained(w) /\ Shut(w)' = Shut(w)
    BY <1>1, <1>5, <1>6, DrainQuietEffect DEF Locked, Free, Leaving, Left, Drained, Shut
  <2>. QED
    BY <1>2, <1>6, <2>1, DrainMovesOn
<1>. USE DEF Draining!At
<1>7. CASE Draining!Start
  <2>1. /\ pc.phase = "stopped" /\ sent' = {} /\ ~done /\ UNCHANGED <<late, ata, done>>
        /\ UNCHANGED Draining!vars
        /\ pc' = [phase |-> IF ChannelsKnown THEN "unlock" ELSE "account", at |-> 1]
    BY <1>7 DEF Draining!Start
  <2>2. Amounted'
    BY <1>1, <2>1, DrainQuietEffect
  <2>3. CASE ChannelsKnown
    <3>1. pc' = [phase |-> "unlock", at |-> 1]
      BY <2>1, <2>3
    <3>2. DrainPosition' /\ DrainWaits' /\ DrainReached' /\ DrainReport'
      BY <1>1, <2>1, <3>1, RosterShape
      DEF DrainPosition, DrainWaits, LateTxs, DrainReached, DrainReport, DrainPhases, WalletPhases
    <3>. QED
      BY <2>2, <3>2 DEF DrainInvariant
  <2>4. CASE ~ChannelsKnown
    <3>1. pc' = [phase |-> "account", at |-> 1]
      BY <2>1, <2>4
    <3>2. DrainPosition' /\ DrainWaits' /\ DrainReached' /\ DrainReport'
      BY <1>1, <2>1, <2>4, <3>1, RosterShape
      DEF DrainPosition, DrainWaits, LateTxs, DrainReached, DrainReport, DrainPhases, WalletPhases
    <3>. QED
      BY <2>2, <3>2 DEF DrainInvariant
  <2>. QED
    BY <2>3, <2>4
<1>8. CASE Draining!Unlock
  <2>1. /\ pc.phase = "unlock" /\ sent = {} /\ p \in Agents
        /\ Draining!LaneTo(p) = LaneTo(p)
    BY <1>3, <1>8, DrainNames DEF Draining!Unlock
  <2>2. Locked(p) \in Nat
    BY <1>1, <2>1, Numbers
  <2>3. CASE Locked(p) = 0 /\ Draining!Advance
    BY <1>6, <2>1, <2>3 DEF Draining!Advance, Draining!GoTo, Draining!lateVars, Left, Shut
  <2>4. CASE Draining!Send("unlock", p, Locked(p))
    BY <1>2, <2>1, <2>2, <2>4, DrainSendsOne
  <2>. QED
    BY <1>2, <1>8, <2>1, <2>3, <2>4 DEF Draining!Unlock, Locked
<1>9. CASE Draining!EnsureAccount
  <2>1. pc.phase = "account" /\ sent = {}
    BY <1>9 DEF Draining!EnsureAccount
  <2>2. CASE Draining!Advance
    BY <1>6, <2>1, <2>2 DEF Draining!Advance, Draining!GoTo, Draining!lateVars, Left, Shut
  <2>3. CASE Draining!Send("account", q, 0)
    BY <1>2, <2>1, <2>3, DrainSendsOne
  <2>. QED
    BY <1>4, <1>9, <2>2, <2>3 DEF Draining!EnsureAccount
<1>10. CASE Draining!ExecuteExisting
  <2>1. pc.phase = "existing" /\ sent = {}
    BY <1>10 DEF Draining!ExecuteExisting
  <2>2. CASE Leaving(q) = 0 /\ Draining!Advance
    BY <1>6, <2>1, <2>2 DEF Draining!Advance, Draining!GoTo, Draining!lateVars, Left, Shut
  <2>3. CASE Draining!Send("execute", q, 0)
    BY <1>2, <2>1, <2>3, DrainSendsOne
  <2>. QED
    BY <1>4, <1>10, <2>2, <2>3 DEF Draining!ExecuteExisting, Leaving
<1>11. CASE Draining!RequestAll
  <2>1. pc.phase = "request" /\ sent = {} /\ (q \in Agents => Left(q))
    BY <1>1, <1>2, <1>11 DEF Draining!RequestAll, DrainReached
  <2>2. CASE Free(q) = 0 /\ Draining!GoTo(Draining!After("execute", pc.at))
    <3>1. /\ pc' = Draining!After("execute", pc.at) /\ sent' = {}
          /\ UNCHANGED Draining!vars /\ UNCHANGED <<late, crossed, ata, done>>
      BY <2>1, <2>2 DEF Draining!GoTo, Draining!lateVars
    <3>. QED
      BY <1>6, <2>1, <2>2, <3>1 DEF Drained
  <2>3. CASE Draining!Send("request", q, Free(q))
    <3>1. q \in Agents => Free(q) \in Nat /\ Free(q) >= Free(q)
      BY <1>1, Numbers
    <3>. QED
      BY <1>2, <2>1, <2>3, <3>1, DrainSendsOne
  <2>. QED
    BY <1>4, <1>11, <2>2, <2>3 DEF Draining!RequestAll, Free
<1>12. CASE Draining!ExecuteRequested
  <2>1. pc.phase = "execute" /\ Draining!Send("execute", q, 0)
    BY <1>4, <1>12 DEF Draining!ExecuteRequested
  <2>. QED
    BY <1>2, <2>1, DrainSendsOne
<1>13. CASE Draining!Sweep
  <2>1. pc.phase = "sweep" /\ sent = {}
    BY <1>13 DEF Draining!Sweep
  <2>2. CASE ata[q] = Draining!Closed /\ Draining!Advance
    BY <1>6, <2>1, <2>2 DEF Draining!Advance, Draining!GoTo, Draining!lateVars, Left, Shut
  <2>3. CASE Draining!Send("sweep", q, ata[q])
    BY <1>2, <2>1, <2>3, DrainSendsOne
  <2>. QED
    BY <1>4, <1>13, <2>2, <2>3 DEF Draining!Sweep
<1>14. CASE Draining!Report
  <2>1. /\ pc.phase = "report" /\ sent' = {} /\ UNCHANGED <<late, crossed, ata>>
        /\ UNCHANGED Draining!vars /\ UNCHANGED <<slot, lane>>
        /\ pc' = [phase |-> "stopped", at |-> 1]
    BY <1>5, <1>14 DEF Draining!Report, Draining!lateVars
  <2>2. Amounted'
    BY <1>1, <2>1, DrainQuietEffect
  <2>3. DrainPosition' /\ DrainWaits' /\ DrainReached'
    BY <1>1, <2>1
    DEF DrainPosition, DrainWaits, LateTxs, DrainReached, DrainPhases, WalletPhases
  <2>4. DrainReport'
    BY <1>1, <2>1 DEF DrainReport, DrainReached, Drained, Left, Shut, Free, Leaving, Locked
  <2>. QED
    BY <2>2, <2>3, <2>4 DEF DrainInvariant
<1>. QED
  BY <1>7, <1>8, <1>9, <1>10, <1>11, <1>12, <1>13, <1>14 DEF Draining!Step

\* What a transaction of the drain leaves of the agents when it lands.
LEMMA DrainLands ==
  ASSUME DrainInvariant, Draining!Land
  PROVE  DrainInvariant'
<1>1. /\ Amounted /\ DrainPosition /\ DrainWaits /\ DrainReached /\ DrainReport
      /\ \A w \in Range(Wallets) : w \in DOMAIN ata
  BY DEF DrainInvariant, DrainPosition
<1>2. PICK p, q : p = Roster[pc.at] /\ q = Wallets[pc.at]
  OBVIOUS
<1>3. PICK tx \in sent : Draining!Execute(tx)
  BY DEF Draining!Land
<1>4. /\ sent' = {} /\ UNCHANGED <<late, crossed, done>> /\ pc' = Draining!After(pc.phase, pc.at)
      /\ pc.phase \notin {"stopped", "report"}
  BY <1>1, <1>3 DEF Draining!Land, Draining!lateVars, DrainWaits
<1>5. /\ tx.kind = IF pc.phase = "existing" THEN "execute" ELSE pc.phase
      /\ pc.phase = "unlock" => tx.owner = p /\ p \in Agents
      /\ pc.phase # "unlock" => tx.owner = q
      /\ pc.phase \in WalletPhases \cup {"sweep"} => q \in Range(Wallets)
      /\ tx.kind = "unlock" => tx.amount \in Nat /\ tx.amount >= Locked(p)
      /\ tx.kind = "request" /\ q \in Agents => tx.amount \in Nat /\ tx.amount >= Free(q)
      /\ pc.phase \in DrainPhases
  BY <1>1, <1>2, <1>3, WalletsAre DEF DrainWaits, DrainPosition
<1>6. /\ Draining!LaneTo(p) = LaneTo(p)
      /\ \A w \in Agents : Locked(w) \in Nat /\ Free(w) \in Nat /\ Leaving(w) \in Nat
  BY <1>1, DrainNames, Numbers
<1>7. ASSUME Amounted',
             \A w \in Agents : Locked(w) = 0 => Locked(w)' = 0,
             \A w \in Agents : pc.phase # "unlock" /\ Drained(w) => Drained(w)',
             \A v \in DOMAIN ata :
               /\ v \in DOMAIN ata'
               /\ pc.phase = "sweep" /\ Shut(v) => Shut(v)',
             pc.phase = "unlock" => Locked(p)' = 0,
             pc.phase = "existing" /\ q \in Agents => Left(q)',
             pc.phase = "request" /\ q \in Agents => Free(q)' = 0,
             pc.phase = "execute" /\ q \in Agents => Drained(q)',
             pc.phase = "sweep" => Shut(q)'
      PROVE  DrainInvariant'
  BY <1>2, <1>4, <1>7, DrainMovesOn
<1>8. CASE tx.kind = "unlock"
  <2>1. /\ pc.phase = "unlock" /\ tx.amount \in Nat /\ p \in Agents /\ UNCHANGED ata
        /\ Draining!CooperativeUnlock(Draining!LaneTo(p), tx.amount)
    BY <1>3, <1>5, <1>8 DEF Draining!Execute
  <2>2. /\ Amounted'
        /\ \A w \in Agents \ {p} : SameAmounts(w)
        /\ tx.amount <= Locked(p) /\ Locked(p)' + tx.amount = Locked(p)
    BY <1>1, <2>1, DrainUnlockEffect
  <2>3. Locked(p)' \in Nat
    BY <2>1, <2>2 DEF Amounted, LaneShape, Locked
  <2>4. Locked(p)' = 0
    BY <1>5, <1>6, <1>8, <2>1, <2>2, <2>3
  <2>5. \A w \in Agents : Locked(w) = 0 => Locked(w)' = 0
    BY <2>2, <2>4 DEF SameAmounts
  <2>. QED
    BY <1>4, <1>7, <2>1, <2>2, <2>4, <2>5
<1>9. CASE tx.kind \in {"account", "sweep"}
  <2>1. /\ pc.phase = tx.kind /\ UNCHANGED Draining!vars
        /\ tx.kind = "account" => ata' = [ata EXCEPT ![q] = 0]
        /\ tx.kind = "sweep" => ata' = [ata EXCEPT ![q] = Draining!Closed]
        /\ q \in DOMAIN ata
    BY <1>1, <1>3, <1>5, <1>9 DEF Draining!Execute, WalletPhases
  <2>2. Amounted' /\ \A w \in Agents : Lessened(w)
    BY <1>1, <2>1, DrainQuietEffect
  <2>3. \A w \in Agents : /\ Locked(w) = 0 => Locked(w)' = 0
                          /\ Drained(w) => Drained(w)'
    BY <1>1, <1>4, <2>2, LessenedStays
  <2>. QED
    BY <1>4, <1>7, <1>9, <2>1, <2>2, <2>3 DEF Shut
<1>10. CASE tx.kind = "request"
  <2>1. /\ pc.phase = "request" /\ UNCHANGED ata
        /\ q \in Agents => tx.amount \in Nat
        /\ Draining!RequestWithdrawal(<<q, Tok>>, tx.amount, q)
    BY <1>3, <1>5, <1>10 DEF Draining!Execute
  <2>2. /\ Amounted'
        /\ \A w \in Agents \ {q} : SameAmounts(w)
        /\ q \in Agents => /\ Locked(q)' = Locked(q)
                           /\ tx.amount > 0 /\ tx.amount <= Free(q)
                           /\ Free(q)' + tx.amount = Free(q)
    BY <1>1, <2>1, DrainRequestEffect
  <2>3. q \in Agents => Free(q)' \in Nat
    BY <2>2 DEF Amounted, EntryShape, Free
  <2>4. q \in Agents => Free(q)' = 0 /\ ~Drained(q)
    BY <1>5, <1>6, <1>10, <2>1, <2>2, <2>3 DEF Drained
  <2>5. \A w \in Agents : /\ Locked(w) = 0 => Locked(w)' = 0
                          /\ Drained(w) => Drained(w)'
    BY <1>4, <2>2, <2>4 DEF SameAmounts, Drained, Left
  <2>. QED
    BY <1>4, <1>7, <2>1, <2>2, <2>4, <2>5
<1>11. CASE tx.kind = "execute"
  <2>1. pc.phase \in {"existing", "execute"} /\ Draining!PayOut(q)
    BY <1>3, <1>5, <1>11 DEF Draining!Execute
  <2>2. /\ Amounted'
        /\ \A w \in Agents : Lessened(w)
        /\ q \in Agents => Leaving(q)' = 0
        /\ DOMAIN ata' = DOMAIN ata
    BY <1>1, <2>1, DrainPayOutEffect
  <2>3. \A w \in Agents : /\ Locked(w) = 0 => Locked(w)' = 0
                          /\ Free(w) = 0 => Free(w)' = 0
                          /\ Drained(w) => Drained(w)'
    BY <1>1, <1>4, <2>2, LessenedStays
  <2>4. pc.phase = "execute" /\ q \in Agents => Drained(q)'
    BY <1>1, <1>2, <2>2, <2>3 DEF DrainReached, Drained, Left
  <2>. QED
    BY <1>4, <1>7, <2>1, <2>2, <2>3, <2>4 DEF Left, Shut
<1>. QED
  BY <1>3, <1>8, <1>9, <1>10, <1>11 DEF Draining!Execute

\* What an ended run has sent lands behind the back of the process: a request that
\* leaves something pending, or a creation that opens an account, is noted.
LEMMA DrainLandsLate ==
  ASSUME DrainInvariant, Draining!LandLate
  PROVE  DrainInvariant'
<1>1. /\ Amounted /\ DrainPosition /\ DrainWaits /\ DrainReached /\ DrainReport
  BY DEF DrainInvariant
<1>2. PICK old \in late :
        /\ Draining!Execute(old.tx)
        /\ late' = late \ {old}
        /\ crossed' = crossed \cup {<<old.tx.kind, old.tx.owner>>}
        /\ UNCHANGED <<pc, sent, done>>
  BY DEF Draining!LandLate
<1>3. PICK tx : tx = old.tx
  OBVIOUS
<1>4. PICK w : w = tx.owner
  OBVIOUS
<1>5. /\ DrainTx(tx) /\ Draining!Execute(tx) /\ LateTxs' \subseteq LateTxs
      /\ crossed' = crossed \cup {<<tx.kind, w>>} /\ crossed \subseteq crossed'
  BY <1>1, <1>2, <1>3, <1>4 DEF DrainWaits, LateTxs
<1>6. ASSUME Amounted', \A v \in Agents : Calm(v),
             \A v \in DOMAIN ata : v \in DOMAIN ata' /\ (Shut(v) => Shut(v)')
      PROVE  DrainInvariant'
  BY <1>2, <1>5, <1>6, DrainOthersAct
<1>7. UNCHANGED ata => \A v \in DOMAIN ata : v \in DOMAIN ata' /\ (Shut(v) => Shut(v)')
  BY <1>5 DEF Shut
<1>8. \A v \in Agents : SameAmounts(v) => Calm(v)
  BY <1>1, <1>5, Numbers DEF SameAmounts, Calm, Left
<1>9. CASE tx.kind = "unlock"
  <2>1. w \in Agents /\ ChannelsKnown
    BY <1>4, <1>5, <1>9 DEF DrainTx
  <2>2. PICK n \in Nat : n = tx.amount
    BY <1>5, <1>9 DEF DrainTx
  <2>3. Draining!CooperativeUnlock(Draining!LaneTo(w), n) /\ UNCHANGED ata
    BY <1>4, <1>5, <1>9, <2>2 DEF Draining!Execute
  <2>4. /\ Amounted'
        /\ \A v \in Agents \ {w} : SameAmounts(v)
        /\ n <= Locked(w) /\ Locked(w)' + n = Locked(w)
        /\ Free(w)' = Free(w) + n /\ Leaving(w)' = Leaving(w)
    BY <1>1, <2>1, <2>3, DrainUnlockEffect
  <2>5. /\ Locked(w) \in Nat /\ Free(w) \in Nat /\ Locked(w)' \in Nat
    BY <1>1, <2>1, <2>4, Numbers DEF Amounted, LaneShape, Locked
  <2>6. ~(pc.phase \in {"stopped", "unlock"} /\ ~done) => Locked(w) = 0
    BY <1>1, <2>1 DEF DrainReached, DrainReport
  <2>7. ~(pc.phase \in {"stopped", "unlock"} /\ ~done) => Free(w)' <= Free(w)
    BY <2>4, <2>5, <2>6
  <2>8. Locked(w)' <= Locked(w) /\ (Left(w) => Left(w)')
    BY <1>5, <2>4, <2>5 DEF Left
  <2>9. \A v \in Agents : Calm(v)
    BY <1>8, <2>4, <2>7, <2>8 DEF Calm
  <2>. QED
    BY <1>6, <1>7, <2>3, <2>4, <2>9
<1>10. CASE tx.kind \in {"account", "sweep"}
  <2>1. /\ UNCHANGED Draining!vars
        /\ tx.kind = "account" => ata' = [ata EXCEPT ![w] = 0]
        /\ tx.kind = "sweep" => ata' = [ata EXCEPT ![w] = Draining!Closed]
    BY <1>4, <1>5, <1>10 DEF Draining!Execute
  <2>2. Amounted' /\ \A v \in Agents : Calm(v)
    BY <1>1, <1>5, <2>1, DrainQuietEffect, LessenedIsCalm
  <2>3. \A v \in DOMAIN ata : v \in DOMAIN ata' /\ (Shut(v) => Shut(v)')
    BY <1>5, <1>10, <2>1 DEF Shut
  <2>. QED
    BY <1>6, <2>2, <2>3
<1>11. CASE tx.kind = "request"
  <2>1. PICK n : n = tx.amount
    OBVIOUS
  <2>2. /\ UNCHANGED ata /\ (w \in Agents => n \in Nat)
        /\ Draining!RequestWithdrawal(<<w, Tok>>, n, w)
    BY <1>4, <1>5, <1>11, <2>1 DEF Draining!Execute, DrainTx
  <2>3. /\ Amounted'
        /\ \A v \in Agents \ {w} : SameAmounts(v)
        /\ w \in Agents => /\ Locked(w)' = Locked(w)
                           /\ n > 0 /\ n <= Free(w) /\ Free(w)' + n = Free(w)
    BY <1>1, <2>2, DrainRequestEffect
  <2>4. w \in Agents => Calm(w)
    <3>1. w \in Agents => /\ Locked(w) \in Nat /\ Free(w) \in Nat /\ Free(w)' \in Nat
      BY <1>1, <2>3, Numbers DEF Amounted, EntryShape, Free
    <3>2. w \in Agents => Locked(w)' <= Locked(w) /\ Free(w)' <= Free(w)
      BY <2>2, <2>3, <3>1
    <3>3. Left(w)'
      BY <1>5, <1>11 DEF Left
    <3>. QED
      BY <3>2, <3>3 DEF Calm
  <2>. QED
    BY <1>6, <1>7, <1>8, <2>2, <2>3, <2>4
<1>12. CASE tx.kind = "execute"
  <2>1. Draining!PayOut(w)
    BY <1>4, <1>5, <1>12 DEF Draining!Execute
  <2>2. /\ Amounted'
        /\ \A v \in Agents : Lessened(v)
        /\ DOMAIN ata' = DOMAIN ata
        /\ \A v \in DOMAIN ata : ata[v] = Draining!Closed => ata'[v] = Draining!Closed
    BY <1>1, <2>1, DrainPayOutEffect
  <2>3. \A v \in Agents : Calm(v)
    BY <1>1, <1>5, <2>2, LessenedIsCalm
  <2>. QED
    BY <1>5, <1>6, <2>2, <2>3 DEF Shut
<1>. QED
  BY <1>5, <1>9, <1>10, <1>11, <1>12 DEF Draining!Execute

\* The rest of the drain's steps.
LEMMA DrainNextInvariant ==
  ASSUME DrainInvariant, Draining!DrainNext
  PROVE  DrainInvariant'
<1>1. /\ Amounted /\ DrainPosition /\ DrainWaits /\ DrainReached /\ DrainReport
      /\ \A w \in Range(Wallets) : w \in DOMAIN ata
  BY DEF DrainInvariant, DrainPosition
<1>2. CASE Draining!Step
  BY <1>2, DrainStepInvariant
<1>3. CASE Draining!Land
  BY <1>3, DrainLands
<1>4. CASE Draining!Refused
  <2>1. UNCHANGED late /\ sent # {}
    BY <1>4 DEF Draining!Refused, Draining!lateVars
  <2>2. \A tx \in LateTxs' : DrainTx(tx)
    BY <1>1, <2>1 DEF DrainWaits, LateTxs
  <2>. QED
    BY <1>1, <1>4, <2>1, <2>2, DrainStopsAnywhere DEF Draining!Refused, DrainWaits
<1>5. CASE Draining!Lost
  <2>1. late' = late \cup {[tx |-> tx, run |-> faults] : tx \in sent}
    BY <1>5 DEF Draining!Lost
  <2>2. ASSUME NEW tx \in sent PROVE DrainTx(tx)
    <3>1. tx.kind = "unlock" => pc.phase = "unlock"
      BY <1>1 DEF DrainWaits
    <3>. QED
      BY <1>1, <3>1, WalletsAre DEF DrainWaits, DrainPosition, DrainTx
  <2>3. ASSUME NEW tx \in LateTxs' PROVE tx \in LateTxs \/ tx \in sent
    <3>1. PICK old \in late' : tx = old.tx
      BY DEF LateTxs
    <3>2. CASE old \in late
      BY <3>1, <3>2 DEF LateTxs
    <3>3. CASE old \in {[tx |-> x, run |-> faults] : x \in sent}
      BY <3>1, <3>3
    <3>. QED
      BY <2>1, <3>2, <3>3
  <2>4. \A tx \in LateTxs' : DrainTx(tx)
    BY <1>1, <2>2, <2>3 DEF DrainWaits
  <2>. QED
    BY <1>1, <1>5, <2>4, DrainStopsAnywhere DEF Draining!Lost
<1>6. ASSUME Amounted', \A w \in Agents : Lessened(w), UNCHANGED <<pc, sent, done>>,
             late' \subseteq late, crossed \subseteq crossed',
             \A v \in DOMAIN ata : v \in DOMAIN ata' /\ (Shut(v) => Shut(v)')
      PROVE  DrainInvariant'
  <2>1. \A w \in Agents : Calm(w)
    BY <1>1, <1>6, LessenedIsCalm
  <2>2. LateTxs' \subseteq LateTxs
    BY <1>6 DEF LateTxs
  <2>. QED
    BY <1>6, <2>1, <2>2, DrainOthersAct
<1>7. CASE Draining!LandLate
  BY <1>7, DrainLandsLate
<1>8. CASE Draining!DropLate
  <2>1. /\ UNCHANGED Draining!vars /\ UNCHANGED <<pc, sent, crossed, ata, done>>
        /\ late' \subseteq late
    BY <1>8 DEF Draining!DropLate
  <2>. QED
    BY <1>1, <1>6, <2>1, DrainQuietEffect DEF Shut
<1>9. CASE Draining!Cash
  <2>1. CashEffect /\ UNCHANGED <<pc, sent, late, crossed, ata, done>>
    BY <1>1, <1>9, DrainCashEffect DEF Draining!Cash, Draining!lateVars
  <2>. QED
    BY <1>1, <1>6, <2>1, DrainQuietEffect DEF Shut
<1>10. CASE Draining!Crank
  <2>1. PICK w : Draining!PayOut(w)
    BY <1>10 DEF Draining!Crank
  <2>2. UNCHANGED <<pc, sent, late, crossed, done>>
    BY <1>10 DEF Draining!Crank, Draining!lateVars
  <2>. QED
    BY <1>1, <1>6, <2>1, <2>2, DrainPayOutEffect DEF Shut
<1>11. CASE Draining!TopUp
  <2>1. PICK w \in Draining!Range(Roster), n \in Amounts :
          /\ Draining!Deposit(w, Tok, n)
          /\ ata' = [ata EXCEPT ![w] = @ - n]
    BY <1>11 DEF Draining!TopUp
  <2>2. w \in Agents /\ n \in Nat
    BY <2>1, DrainNames, AmountsAssumption
  <2>3. /\ pc.phase = "stopped" /\ sent = {} /\ ~done
        /\ UNCHANGED <<pc, sent, late, crossed, done>>
    BY <1>1, <1>11 DEF Draining!TopUp, Draining!lateVars, DrainWaits
  <2>4. Amounted'
    <3>1. /\ slot' = [slot EXCEPT ![<<w, Tok>>] = Credit(slot[<<w, Tok>>], n)]
          /\ UNCHANGED lane
      BY <2>1, DrainHelpers DEF Draining!Deposit, Draining!laneVars
    <3>2. EntryShape(slot[<<w, Tok>>])
      BY <1>1, <2>2 DEF Amounted
    <3>3. EntryShape(Credit(slot[<<w, Tok>>], n))
      BY <2>2, <3>2, CreditShape
    <3>. QED
      BY <1>1, <3>1, <3>3, EntryWritten
  <2>5. DrainPosition' /\ DrainWaits' /\ DrainReached' /\ DrainReport'
    BY <1>1, <2>1, <2>3
    DEF DrainPosition, DrainWaits, LateTxs, DrainReached, DrainReport, DrainPhases, WalletPhases
  <2>. QED
    BY <2>4, <2>5 DEF DrainInvariant
<1>12. CASE Draining!PassTime
  <2>1. UNCHANGED <<slot, lane>> /\ UNCHANGED <<pc, sent, late, crossed, ata, done>>
    BY <1>12
    DEF Draining!PassTime, Draining!Tick, Draining!balanceVars, Draining!laneVars, Draining!lateVars
  <2>2. Amounted' /\ \A w \in Agents : SameAmounts(w)
    BY <1>1, <2>1, UntouchedAmounts
  <2>3. \A w \in Agents : Lessened(w)
    BY <1>1, <2>2, Numbers DEF SameAmounts, Lessened
  <2>. QED
    BY <1>6, <2>1, <2>2, <2>3 DEF Shut
<1>. QED
  BY <1>2, <1>3, <1>4, <1>5, <1>7, <1>8, <1>9, <1>10, <1>11, <1>12 DEF Draining!DrainNext
-----------------------------------------------------------------------------
(***************************************************************************)
(* The scripts together.                                                   *)
(***************************************************************************)
\* Before the setup nobody owns anything; before the drain the agents own what
\* their entries hold and what their lanes lock.
LEMMA InitAmounted ==
  ASSUME ColosseumInit
  PROVE  /\ Amounted
         /\ script # "drain" =>
              \A w \in Agents : /\ Free(w) = 0 /\ Leaving(w) = 0
                                /\ Locked(w) = 0 /\ Settled(w) = 0
                                /\ <<w, Tok>> \in DOMAIN funded /\ funded[<<w, Tok>>] = 0
<1>1. CASE script = "drain"
  <2>1. InUse
    BY <1>1 DEF ColosseumInit
  <2>. DEFINE leaving == InitiateWithdrawal(Holds(1), 1, a, 1 + WithdrawalTimelock)
  <2>2. EntryShape(EmptyEntry) /\ EntryShape(Holds(2)) /\ EntryShape(leaving)
    BY DEF EntryShape, EmptyEntry, Holds, InitiateWithdrawal
  <2>. HIDE DEF leaving
  <2>3. \A x \in Accounts : x \in DOMAIN slot /\ EntryShape(slot[x])
    <3>1. slot = [x \in Accounts |-> CASE x[1] = a -> leaving
                                      [] x[1] = b -> Holds(2)
                                      [] OTHER -> EmptyEntry]
      BY <2>1, Zenon DEF InUse, leaving
    <3>. DEFINE f(x) == CASE x[1] = a -> leaving [] x[1] = b -> Holds(2) [] OTHER -> EmptyEntry
    <3>2. \A x : f(x) \in {leaving, Holds(2), EmptyEntry}
      OBVIOUS
    <3>3. \A x : EntryShape(f(x))
      BY <2>2, <3>2
    <3>. HIDE DEF f
    <3>4. slot = [x \in Accounts |-> f(x)]
      BY <3>1 DEF f
    <3>. QED
      BY <3>3, <3>4
  <2>4. \A k : LaneShape([InitializeLane(k) EXCEPT !.locked_balance = 2])
    BY DEF LaneShape, InitializeLane, UninitializedLane
  <2>5. \A l \in Lanes : l \in DOMAIN lane /\ LaneShape(lane[l])
    BY <2>1, <2>4, Zenon DEF InUse
  <2>. QED
    BY <1>1, <2>3, <2>5, LanesAre DEF Amounted
<1>2. CASE script # "drain"
  <2>1. /\ slot = [x \in Accounts |-> EmptyEntry]
        /\ lane = [l \in Lanes |-> UninitializedLane]
        /\ funded = [x \in Accounts |-> 0]
    BY <1>2 DEF ColosseumInit, NothingYet
  <2>2. EntryShape(EmptyEntry) /\ LaneShape(UninitializedLane)
    BY DEF EntryShape, EmptyEntry, LaneShape, UninitializedLane
  <2>3. \A w \in Agents : /\ <<w, Tok>> \in DOMAIN slot /\ slot[<<w, Tok>>] = EmptyEntry
                          /\ LaneTo(w) \in DOMAIN lane /\ lane[LaneTo(w)] = UninitializedLane
                          /\ <<w, Tok>> \in DOMAIN funded /\ funded[<<w, Tok>>] = 0
    BY <2>1, LanesAre
  <2>4. Amounted
    BY <2>2, <2>3 DEF Amounted
  <2>5. \A w \in Agents : /\ Free(w) = 0 /\ Leaving(w) = 0 /\ Locked(w) = 0 /\ Settled(w) = 0
    BY <2>3 DEF Free, Leaving, Locked, Settled, EmptyEntry, UninitializedLane
  <2>. QED
    BY <2>3, <2>4, <2>5
<1>. QED
  BY <1>1, <1>2

\* The scripts begin in the invariants.
LEMMA InitInvariant ==
  ASSUME ColosseumInit
  PROVE  ColosseumInvariant /\ OverchargeInvariant
<1>1. /\ script \in {"fund", "setup", "drain"}
      /\ pc = [phase |-> "stopped", at |-> 1]
      /\ seen = [initialized |-> FALSE, locked |-> 0]
      /\ sent = {} /\ late = {} /\ ~manifest.written /\ ~done
      /\ ata = [w \in Range(Wallets) |-> IF w = a THEN 1 ELSE Draining!Closed]
      /\ balance = AtStart /\ fundPc = "stopped" /\ at = 1
      /\ slack = [w \in Agents |-> 0]
      /\ brought = [w \in Funding!Range(<<m, a, b, c>>) |-> 0]
  BY DEF ColosseumInit, SetupInit, Draining!DrainInit, Funding!FundInit, Agents
<1>2. /\ Amounted
      /\ script # "drain" =>
           \A w \in Agents : /\ Free(w) = 0 /\ Leaving(w) = 0
                             /\ Locked(w) = 0 /\ Settled(w) = 0
                             /\ <<w, Tok>> \in DOMAIN funded /\ funded[<<w, Tok>>] = 0
  BY InitAmounted
<1>3. SetupInvariant
  BY <1>1, <1>2
  DEF SetupInvariant, SetupPosition, SetupWaits, SetupReached, ManifestIsHonoured, LateTxs,
      Phases, AgentPhases
<1>4. DrainInvariant
  <2>1. \A w \in Range(Wallets) : w \in DOMAIN ata
    BY <1>1
  <2>. QED
    BY <1>1, <1>2, <2>1
    DEF DrainInvariant, DrainPosition, DrainWaits, LateTxs, DrainReached, DrainReport,
        DrainPhases, WalletPhases
<1>5. FundInvariant
  <2>1. AtStart \in [{m, a, b, c} -> Nat]
    BY FundedWallets
  <2>2. brought = [w \in {m, a, b, c} |-> 0]
    BY <1>1, FundedWallets DEF Funding!Range, Range
  <2>. QED
    <3>1. LateTxs = {} /\ Fresh = {} /\ OneInFlight(fundPc = "stopped")
      BY <1>1 DEF OneInFlight, LateTxs, Fresh
    <3>2. DOMAIN balance = {m, a, b, c} /\ DOMAIN brought = {m, a, b, c}
      BY <1>1, <2>1, <2>2
    <3>3. \A w \in {m, a, b, c} : Filled(w)
      BY <1>1, <2>1, <2>2 DEF Filled
    <3>. QED
      BY <1>1, <3>1, <3>2, <3>3, FundedWallets DEF FundInvariant
<1>6. script = "setup" => DepositInvariant
  <2>1. DepositTarget \in Nat
    BY SetupAssumption
  <2>. QED
    BY <1>1, <1>2, <2>1 DEF DepositInvariant, Booked, OneInFlight, Fresh
<1>. QED
  BY <1>1, <1>3, <1>4, <1>5, <1>6 DEF ColosseumInvariant, OverchargeInvariant

\* While a script rests, or waits for its turn, nothing of it changes.
LEMMA Stutters ==
  ASSUME ColosseumInvariant, UNCHANGED allVars
  PROVE  ColosseumInvariant' /\ (OverchargeInvariant => OverchargeInvariant')
<1>1. /\ UNCHANGED <<script, pc, seen, sent, late, slack, table, manifest, ata, done, crossed,
                     balance, brought, fundPc, at>>
      /\ UNCHANGED vars /\ UNCHANGED <<slot, lane, funded>> /\ UNCHANGED Draining!vars
  BY DEF allVars, setupVars, scriptVars, lateVars, vars, balanceVars, laneVars, memberVars,
         drainOnly, fundOnly,
         Draining!vars, Draining!balanceVars, Draining!laneVars, Draining!memberVars
<1>2. SetupInvariant => SetupInvariant'
  <2>1. Amounted => Kept
    BY <1>1, ReadingKeeps
  <2>2. SetupInvariant => LateTxs' \subseteq LateTxs /\ \A old \in late' : LateShape(old)
    BY <1>1 DEF SetupInvariant, SetupWaits, LateTxs
  <2>. QED
    BY <1>1, <2>1, <2>2, OthersAct DEF SetupInvariant
<1>3. DrainInvariant => DrainInvariant'
  <2>1. Amounted => Amounted' /\ \A w \in Agents : Lessened(w)
    BY <1>1, DrainQuietEffect
  <2>2. Amounted => \A w \in Agents : Calm(w)
    BY <1>1, <2>1, LessenedIsCalm
  <2>. QED
    BY <1>1, <2>1, <2>2, DrainOthersAct DEF DrainInvariant, LateTxs, Shut
<1>4. FundInvariant => FundInvariant'
  BY <1>1 DEF FundInvariant, OneInFlight, LateTxs, Fresh, Filled, Transfer, Fills
<1>5. DepositInvariant => DepositInvariant'
  BY <1>1
  DEF DepositInvariant, OneInFlight, Fresh, Booked, Within, Free, Leaving, Locked, Settled, Agent
<1>. QED
  BY <1>1, <1>2, <1>3, <1>4, <1>5 DEF ColosseumInvariant, OverchargeInvariant

\* Every step of whichever script runs.
LEMMA NextInvariant ==
  ASSUME ColosseumInvariant, [ColosseumNext]_allVars
  PROVE  /\ ColosseumInvariant'
         /\ OverchargeInvariant => OverchargeInvariant'
<1>1. CASE Running("fund", <<vars, pc, slack, setupOnly, drainOnly>>) /\ Funding!FundNext
  <2>1. script = "fund" /\ script' = "fund" /\ UNCHANGED <<manifest, done>>
    BY <1>1 DEF Running, setupOnly, drainOnly
  <2>2. FundInvariant => FundInvariant'
    BY <1>1, FundNextInvariant
  <2>. QED
    BY <2>1, <2>2 DEF ColosseumInvariant, OverchargeInvariant
<1>2. CASE Running("setup", <<drainOnly, fundOnly>>) /\ SetupNext
  <2>1. script = "setup" /\ script' = "setup" /\ UNCHANGED <<balance, done>>
    BY <1>2 DEF Running, fundOnly, drainOnly
  <2>2. SetupInvariant /\ SetupInvariant'
    BY <1>2, <2>1, SetupNextInvariant DEF ColosseumInvariant
  <2>3. DepositInvariant => DepositInvariant'
    BY <1>2, <2>2, SetupNextDeposits
  <2>. QED
    BY <2>1, <2>2, <2>3 DEF ColosseumInvariant, OverchargeInvariant
<1>3. CASE Running("drain", <<slack, setupOnly, fundOnly>>) /\ Draining!DrainNext
  <2>1. script = "drain" /\ script' = "drain" /\ UNCHANGED <<balance, manifest>>
    BY <1>3 DEF Running, fundOnly, setupOnly
  <2>2. DrainInvariant'
    BY <1>3, <2>1, DrainNextInvariant DEF ColosseumInvariant
  <2>. QED
    BY <2>1, <2>2 DEF ColosseumInvariant, OverchargeInvariant
<1>4. CASE UNCHANGED allVars
  BY <1>4, Stutters
<1>. QED
  BY <1>1, <1>2, <1>3, <1>4 DEF ColosseumNext
\* A drain that has reported has left nothing behind.
LEMMA ReportedDrain ==
  ASSUME DrainInvariant
  PROVE  DrainLeavesNothing
<1>1. ASSUME done
      PROVE  /\ \A w \in Agents :
                  /\ Draining!Entry(w).available_balance = 0
                  /\ ChannelsKnown => lane[LaneTo(w)].locked_balance = 0
                  /\ \/ Draining!Entry(w).withdrawing_balance = 0
                     \/ <<"request", w>> \in crossed
             /\ \A w \in Range(Wallets) :
                  ata[w] = Draining!Closed \/ <<"account", w>> \in crossed
  <2>1. /\ \A w \in Agents : Drained(w) /\ (ChannelsKnown => Locked(w) = 0)
        /\ \A w \in Range(Wallets) : Shut(w)
    BY <1>1 DEF DrainInvariant, DrainReport
  <2>. QED
    BY <2>1, DrainNames DEF Drained, Left, Shut, Locked, Free, Leaving
<1>. QED
  BY <1>1, DrainNames DEF DrainLeavesNothing, Draining!DrainLeavesNothing

\* Whichever script runs, its invariant holds and the others have not finished.
THEOREM ColosseumInvariance == ColosseumSpec => []ColosseumInvariant
<1>1. ColosseumInit => ColosseumInvariant
  BY InitInvariant
<1>2. ColosseumInvariant /\ [ColosseumNext]_allVars => ColosseumInvariant'
  BY NextInvariant
<1>. QED
  BY <1>1, <1>2, PTL DEF ColosseumSpec

\* When the channels manifest is written, whatever runs were killed or failed
\* before, every wallet has its key and every agent its lane and collateral
\* (colosseum-channels-setup.ts, lines 1131-1170).
THEOREM ManifestHonoured == ColosseumSpec => []ManifestIsHonoured
<1>1. ColosseumInvariant => ManifestIsHonoured
  BY DEF ColosseumInvariant, SetupInvariant, ManifestIsHonoured
<1>. QED
  BY <1>1, ColosseumInvariance, PTL

\* When the drain manifest is written, no agent has a free balance or collateral,
\* and what is pending, or open, is what a request, or a creation, of an ended run
\* did since the reporting one started (colosseum-drain-current.ts, main).
THEOREM DrainedClean == ColosseumSpec => []DrainLeavesNothing
<1>1. ColosseumInvariant => DrainLeavesNothing
  <2>1. ~done => DrainLeavesNothing
    BY DEF DrainLeavesNothing, Draining!DrainLeavesNothing
  <2>. QED
    BY <2>1, ReportedDrain DEF ColosseumInvariant
<1>. QED
  BY <1>1, ColosseumInvariance, PTL

\* No wallet is paid beyond its target and no agent charged beyond the target and
\* what it has paid out, but for exactly what transactions of ended runs moved after
\* a newer run had started (colosseum-fund-wallets.ts; colosseum-channels-setup.ts,
\* lines 1002-1033).
THEOREM NobodyOvercharged == ColosseumSpec => []NobodyIsOvercharged
<1>. DEFINE Inv == ColosseumInvariant /\ OverchargeInvariant
<1>1. ColosseumInit => Inv
  BY InitInvariant
<1>2. Inv /\ [ColosseumNext]_allVars => Inv'
  BY NextInvariant
<1>3. Inv => NobodyIsOvercharged
  <2>1. ASSUME balance = AtStart PROVE Funding!NobodyIsPaidTwice
    <3>. DEFINE W == Range(<<m, a, b, c>>)
    <3>1. AtStart \in [W -> Nat]
      BY FundedWallets
    <3>. HIDE DEF W
    <3>2. \A w \in W : balance[w] > AtStart[w] => balance[w] <= Target + brought[w]
      BY <2>1, <3>1
    <3>. QED
      BY <3>2 DEF Funding!NobodyIsPaidTwice, Funding!Range, Range, W
  <2>. QED
    BY <2>1, FundedOnce, DepositsBounded
    DEF NobodyIsOvercharged, ColosseumInvariant, OverchargeInvariant
<1>. HIDE DEF Inv
<1>. QED
  BY <1>1, <1>2, <1>3, PTL DEF ColosseumSpec
=============================================================================
