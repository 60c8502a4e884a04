--------------------------- MODULE RyvoCoreProofs ---------------------------
(***************************************************************************)
(* Proofs about the settlement core, for every set of participants,        *)
(* tokens, lanes and messages and every timelock: first the types, then    *)
(* what a payee may rely on.  Collateral leaves a lane only after notice   *)
(* or with consent, the commitment key changes only after notice, and only *)
(* authorised amounts are ever settled.  The second half is conservation:  *)
(* every payment counts once, and the vaults back what is owed.            *)
(***************************************************************************)
EXTENDS RyvoSafety, FiniteSetTheorems, TLAPS

Entry == TokenEntry(Destinations)
Lane == LaneState(Keys)

-----------------------------------------------------------------------------
(***************************************************************************)
(* Token entries stay token entries.                                       *)
(***************************************************************************)
\* Crediting (find_or_create_token_entry_offset and a checked_add) any entry
\* gives an entry with a larger available balance and the same withdrawal.
LEMMA CreditType ==
  ASSUME NEW e \in Entry, NEW n \in Nat
  PROVE  Credit(e, n) \in Entry
<1>1. FindOrCreate(e) \in Entry
  BY DEF FindOrCreate, EmptyEntry, Entry, TokenEntry
<1>2. \A f \in Entry : [f EXCEPT !.available_balance = @ + n] \in Entry
  BY DEF Entry, TokenEntry
<1>. QED BY <1>1, <1>2 DEF Credit

\* A debit the guard of apply_token_delta_in_data lets through leaves no
\* balance negative.
LEMMA DrainType ==
  ASSUME NEW e \in Entry, NEW n \in Nat, Total(e) >= n
  PROVE  Drain(e, n) \in Entry
<1>. DEFINE m == Lesser(e.available_balance, n)
<1>1. e.available_balance - m \in Nat /\ e.withdrawing_balance - (n - m) \in Nat
  BY DEF Lesser, Total, Entry, TokenEntry
<1>. QED BY <1>1, Zenon DEF Drain, Entry, TokenEntry

\* apply_token_delta_in_data as a whole.
LEMMA ApplyDeltaType ==
  ASSUME NEW e \in Entry, NEW delta \in Int, CanApplyDelta(e, delta)
  PROVE  ApplyDelta(e, delta) \in Entry
<1>1. CASE delta = 0
  BY <1>1 DEF ApplyDelta
<1>2. CASE delta > 0
  BY <1>2, CreditType DEF ApplyDelta
<1>3. CASE delta < 0
  <2>1. Total(e) >= -delta /\ -delta \in Nat
    BY <1>3 DEF CanApplyDelta
  <2>2. ApplyDelta(e, delta) = Drain(e, -delta)
    BY <1>3 DEF ApplyDelta
  <2>. QED BY <2>1, <2>2, DrainType
<1>. QED BY <1>1, <1>2, <1>3

\* The withdrawal helpers and the debit of lock_channel_funds.
LEMMA WithdrawalEntryType ==
  ASSUME NEW e \in Entry, NEW n \in Nat, e.available_balance >= n
  PROVE  /\ DebitAvailable(e, n) \in Entry
         /\ \A d \in Destinations, at \in Nat :
              InitiateWithdrawal(e, n, d, at) \in Entry
         /\ ClearWithdrawal(e) \in Entry
         /\ CancelWithdrawalEntry(e) \in Entry
<1>1. DebitAvailable(e, n) \in Entry
  BY DEF DebitAvailable, Entry, TokenEntry
<1>2. ASSUME NEW d \in Destinations, NEW at \in Nat
      PROVE  InitiateWithdrawal(e, n, d, at) \in Entry
  <2>1. /\ e.available_balance - n \in Nat
        /\ e.withdrawing_balance + n \in Nat
    BY DEF Entry, TokenEntry
  <2>. QED BY <2>1, Zenon DEF InitiateWithdrawal, Entry, TokenEntry
<1>3. \A f \in Entry : ClearWithdrawal(f) \in Entry
  BY 0 \in Nat, Zenon DEF ClearWithdrawal, Entry, TokenEntry
<1>4. [e EXCEPT !.available_balance = @ + e.withdrawing_balance] \in Entry
  BY DEF Entry, TokenEntry
<1>. QED BY <1>1, <1>2, <1>3, <1>4 DEF CancelWithdrawalEntry

-----------------------------------------------------------------------------
(***************************************************************************)
(* Lanes stay lanes, and what each lane helper does to the collateral, the *)
(* settled amount, the pending unlock and the signer.                      *)
(***************************************************************************)
\* The part of a lane that only the signer rotation writes.
SameSigner(m, ln) ==
  /\ m.authorized_signer = ln.authorized_signer
  /\ m.pending_authorized_signer = ln.pending_authorized_signer
  /\ m.authorized_signer_update_requested_at = ln.authorized_signer_update_requested_at

\* The part of a lane that only an unlock writes.
SameUnlock(m, ln) ==
  /\ m.pending_unlock_amount = ln.pending_unlock_amount
  /\ m.unlock_requested_at = ln.unlock_requested_at

\* m's pending unlock is ln's, capped by m's collateral; its timer is ln's,
\* or cleared when nothing is pending.
CappedUnlock(m, ln) ==
  /\ m.pending_unlock_amount = Lesser(ln.pending_unlock_amount, m.locked_balance)
  /\ m.pending_unlock_amount > 0 => m.unlock_requested_at = ln.unlock_requested_at

\* cap_pending_unlock_at_lane_offset_in_data caps the pending unlock and
\* touches nothing else.
LEMMA CapPendingUnlockType ==
  ASSUME NEW ln \in Lane
  PROVE  LET m == CapPendingUnlock(ln, ln.locked_balance)
         IN  /\ m \in Lane
             /\ m.locked_balance = ln.locked_balance
             /\ m.settled_cumulative = ln.settled_cumulative
             /\ m.initialized = ln.initialized
             /\ CappedUnlock(m, ln)
             /\ SameSigner(m, ln)
<1>. DEFINE capped == Lesser(ln.pending_unlock_amount, ln.locked_balance)
            at == IF capped = 0 THEN 0 ELSE ln.unlock_requested_at
            m == CapPendingUnlock(ln, ln.locked_balance)
<1>1. capped \in Nat /\ at \in Nat /\ (capped > 0 => at = ln.unlock_requested_at)
  BY DEF Lesser, Lane, LaneState
<1>. HIDE DEF capped, at
<1>2. m = [ln EXCEPT !.pending_unlock_amount = capped, !.unlock_requested_at = at]
  BY DEF CapPendingUnlock, capped, at
<1>. HIDE DEF m
<1>3. m \in Lane
  BY <1>1, <1>2, Zenon DEF Lane, LaneState
<1>4. /\ m.pending_unlock_amount = capped
      /\ m.unlock_requested_at = at
      /\ m.locked_balance = ln.locked_balance
      /\ m.settled_cumulative = ln.settled_cumulative
      /\ m.initialized = ln.initialized
      /\ SameSigner(m, ln)
  BY <1>2, Zenon DEF Lane, LaneState, SameSigner
<1>5. CappedUnlock(m, ln)
  BY <1>1, <1>4 DEF CappedUnlock, capped
<1>. QED BY <1>3, <1>4, <1>5 DEF m

\* execute_lane_unlock_in_data: the collateral shrinks by what is released.
LEMMA ExecuteLaneUnlockType ==
  ASSUME NEW ln \in Lane
  PROVE  LET m == ExecuteLaneUnlock(ln)
         IN  /\ m \in Lane
             /\ m.initialized = ln.initialized
             /\ ReleasedAmount(ln) \in Nat
             /\ m.locked_balance = ln.locked_balance - ReleasedAmount(ln)
             /\ m.settled_cumulative = ln.settled_cumulative
             /\ m.pending_unlock_amount = 0
             /\ SameSigner(m, ln)
<1>1. /\ ReleasedAmount(ln) \in Nat
      /\ ln.locked_balance - ReleasedAmount(ln) \in Nat
      /\ 0 \in Nat
  BY DEF ReleasedAmount, Lesser, Lane, LaneState
<1>. QED BY <1>1, Zenon DEF ExecuteLaneUnlock, SameSigner, Lane, LaneState

\* cooperative_unlock_lane_in_data.
LEMMA CooperativeUnlockLaneType ==
  ASSUME NEW ln \in Lane, NEW n \in Nat, n <= ln.locked_balance
  PROVE  LET m == CooperativeUnlockLane(ln, n)
         IN  /\ m \in Lane
             /\ m.initialized = ln.initialized
             /\ m.locked_balance = ln.locked_balance - n
             /\ m.settled_cumulative = ln.settled_cumulative
             /\ CappedUnlock(m, ln)
             /\ SameSigner(m, ln)
<1>. DEFINE rest == ln.locked_balance - n
            k == [ln EXCEPT !.locked_balance = rest]
<1>1. rest \in Nat
  BY DEF Lane, LaneState
<1>2. /\ k \in Lane /\ k.locked_balance = rest
      /\ k.initialized = ln.initialized
      /\ k.settled_cumulative = ln.settled_cumulative
      /\ SameSigner(k, ln) /\ SameUnlock(k, ln)
  BY <1>1, Zenon DEF Lane, LaneState, SameSigner, SameUnlock
<1>. HIDE DEF k
<1>3. CooperativeUnlockLane(ln, n) = CapPendingUnlock(k, k.locked_balance)
  BY <1>2, Zenon DEF CooperativeUnlockLane, k
<1>. QED
  BY <1>2, <1>3, CapPendingUnlockType DEF CappedUnlock, SameSigner, SameUnlock

\* apply_lane_settlement_at_offset_in_data.
LEMMA ApplyLaneSettlementType ==
  ASSUME NEW ln \in Lane, NEW target \in Nat, NEW n \in Nat, n <= ln.locked_balance
  PROVE  LET m == ApplyLaneSettlement(ln, target, n)
         IN  /\ m \in Lane
             /\ m.initialized = ln.initialized
             /\ m.locked_balance = ln.locked_balance - n
             /\ m.settled_cumulative = target
             /\ CappedUnlock(m, ln)
             /\ SameSigner(m, ln)
<1>. DEFINE rest == ln.locked_balance - n
            k == [ln EXCEPT !.locked_balance = rest]
            c == CapPendingUnlock(k, k.locked_balance)
<1>1. rest \in Nat
  BY DEF Lane, LaneState
<1>2. /\ k \in Lane /\ k.locked_balance = rest
      /\ k.initialized = ln.initialized
      /\ SameSigner(k, ln) /\ SameUnlock(k, ln)
  BY <1>1, Zenon DEF Lane, LaneState, SameSigner, SameUnlock
<1>3. ApplyLaneSettlement(ln, target, n) = [c EXCEPT !.settled_cumulative = target]
  BY <1>2, Zenon DEF ApplyLaneSettlement
<1>. HIDE DEF k
<1>4. /\ c \in Lane /\ c.locked_balance = rest
      /\ c.initialized = ln.initialized
      /\ CappedUnlock(c, ln) /\ SameSigner(c, ln)
  BY <1>2, CapPendingUnlockType DEF CappedUnlock, SameSigner, SameUnlock
<1>. HIDE DEF c
<1>5. [c EXCEPT !.settled_cumulative = target] \in Lane
  BY <1>4, Zenon DEF Lane, LaneState
<1>6. LET m == [c EXCEPT !.settled_cumulative = target]
      IN  /\ m.settled_cumulative = target
          /\ m.locked_balance = c.locked_balance
          /\ m.initialized = c.initialized
          /\ SameUnlock(m, c) /\ SameSigner(m, c)
  BY <1>4, Zenon DEF Lane, LaneState, SameUnlock, SameSigner
<1>. QED
  BY <1>3, <1>4, <1>5, <1>6, Zenon DEF CappedUnlock, SameUnlock, SameSigner

\* add_lane_locked_balance_in_data.
LEMMA AddLockedType ==
  ASSUME NEW ln \in Lane, NEW n \in Nat
  PROVE  LET m == AddLocked(ln, n)
         IN  /\ m \in Lane
             /\ m.initialized = ln.initialized
             /\ m.locked_balance = ln.locked_balance + n
             /\ m.settled_cumulative = ln.settled_cumulative
             /\ SameUnlock(m, ln)
             /\ SameSigner(m, ln)
<1>1. ln.locked_balance + n \in Nat
  BY DEF Lane, LaneState
<1>. QED BY <1>1, Zenon DEF AddLocked, SameUnlock, SameSigner, Lane, LaneState

\* request_lane_unlock_in_data.
LEMMA RequestLaneUnlockType ==
  ASSUME NEW ln \in Lane, NEW n \in Nat, NEW at \in Nat
  PROVE  LET m == RequestLaneUnlock(ln, n, at)
         IN  /\ m \in Lane
             /\ m.initialized = ln.initialized
             /\ m.locked_balance = ln.locked_balance
             /\ m.settled_cumulative = ln.settled_cumulative
             /\ m.pending_unlock_amount = n
             /\ m.unlock_requested_at = at
             /\ SameSigner(m, ln)
BY Zenon DEF RequestLaneUnlock, SameSigner, Lane, LaneState

\* initialize_lane_in_data.
LEMMA InitializeLaneType ==
  ASSUME NEW key \in Keys \cup {NoKey}
  PROVE  LET m == InitializeLane(key)
         IN  /\ m \in Lane
             /\ m.locked_balance = 0
             /\ m.settled_cumulative = 0
             /\ m.pending_unlock_amount = 0
             /\ m.pending_authorized_signer = NoKey
<1>1. UninitializedLane \in Lane
  BY DEF UninitializedLane, Lane, LaneState
<1>. QED
  BY <1>1, Zenon DEF InitializeLane, UninitializedLane, Lane, LaneState

\* request_authorized_signer_update_in_data.
LEMMA RequestSignerType ==
  ASSUME NEW ln \in Lane, NEW key \in Keys \cup {NoKey}, NEW at \in Nat
  PROVE  LET m == RequestSigner(ln, key, at)
         IN  /\ m \in Lane
             /\ m.initialized = ln.initialized
             /\ m.locked_balance = ln.locked_balance
             /\ m.settled_cumulative = ln.settled_cumulative
             /\ m.authorized_signer = ln.authorized_signer
             /\ m.pending_authorized_signer = key
             /\ m.authorized_signer_update_requested_at = at
             /\ SameUnlock(m, ln)
BY Zenon DEF RequestSigner, SameUnlock, Lane, LaneState

\* execute_authorized_signer_update_in_data.
LEMMA ExecuteSignerType ==
  ASSUME NEW ln \in Lane
  PROVE  LET m == ExecuteSigner(ln)
         IN  /\ m \in Lane
             /\ m.initialized = ln.initialized
             /\ m.locked_balance = ln.locked_balance
             /\ m.settled_cumulative = ln.settled_cumulative
             /\ m.authorized_signer = ln.pending_authorized_signer
             /\ m.pending_authorized_signer = NoKey
             /\ SameUnlock(m, ln)
<1>1. 0 \in Nat OBVIOUS
<1>. QED BY <1>1, Zenon DEF ExecuteSigner, SameUnlock, Lane, LaneState

-----------------------------------------------------------------------------
(***************************************************************************)
(* Type correctness.                                                       *)
(***************************************************************************)
LEMMA InitTypeOK == Init => TypeOK
<1>1. EmptyEntry \in Entry /\ UninitializedLane \in Lane
  BY DEF EmptyEntry, UninitializedLane, Entry, TokenEntry, Lane, LaneState
<1>2. NoAsk \in AskState /\ NoRotation \in RotationState
  BY DEF NoAsk, AskState, NoRotation, RotationState
<1>. QED
  BY <1>1, <1>2 DEF Init, TypeOK, Policies, Entry, Lane

\* The history of unlock requests keeps its type.
LEMMA AskedAfterType ==
  ASSUME asked \in [Lanes -> AskState], NEW next \in [Lanes -> Lane]
  PROVE  AskedAfter(next) \in [Lanes -> AskState]
<1>1. NoAsk \in AskState
  BY DEF NoAsk, AskState
<1>2. ASSUME NEW l \in Lanes
      PROVE  [asked[l] EXCEPT !.low = Lesser(@, next[l].locked_balance)] \in AskState
  <2>1. Lesser(asked[l].low, next[l].locked_balance) \in Nat
    BY DEF AskState, Lesser, Lane, LaneState
  <2>. QED BY <2>1, Zenon DEF AskState
<1>. QED BY <1>1, <1>2 DEF AskedAfter

\* The accounts of a lane are accounts.
LEMMA LaneAccounts ==
  ASSUME NEW l \in Lanes
  PROVE  /\ l.payer \in Participants /\ l.payee \in Participants /\ l.token \in Tokens
         /\ l.payer # l.payee
         /\ Payer(l) \in Accounts /\ Payee(l) \in Accounts
BY LanesAssumption DEF Payer, Payee, Accounts

\* A withdrawal fee is an integer whatever the decimals, once the scaled
\* minimum fee is an unsigned 64-bit integer.
LEMMA FeeType ==
  ASSUME NEW tok \in Tokens, NEW n \in Nat, ScaledMinFee(tok) \in 0 .. MaxU64
  PROVE  WithdrawalFee(tok, n) \in Nat
<1>1. FeeBps \in Nat /\ MaxU64 \in Nat
  BY ConfigAssumption, MaxU64Assumption
<1>2. n * FeeBps \in Nat
  BY <1>1
<1>3. (n * FeeBps) \div 10000 \in Nat
  BY <1>2
<1>4. ScaledMinFee(tok) \in Nat
  BY <1>1
<1>. QED BY <1>3, <1>4 DEF WithdrawalFee, Lesser, Greater

\* Targets whose lanes can take them.
Payable(targets) ==
  \A l \in DOMAIN targets :
     l \in Lanes /\ targets[l] \in Nat /\ Increases(l, targets[l])

\* Targets that somebody entitled to authorise them has signed.
Authorised(targets) ==
  \A l \in DOMAIN targets :
    \/ \E c \in signed \cap Commitments :
         /\ c.lane = l
         /\ c.signer = lane[l].authorized_signer
         /\ c.amount = targets[l]
    \/ \E r \in Rounds :
         /\ [round |-> r, by |-> l.payer] \in signed
         /\ l \in DOMAIN r.targets
         /\ r.targets[l] = targets[l]

\* What a settlement takes from a lane's collateral is covered by it, and the
\* amounts it moves are never negative.
LEMMA SettlementAmounts ==
  ASSUME TypeOK, NEW l \in Lanes, NEW target \in Nat, Increases(l, target)
  PROVE  /\ LockedConsumed(l, target) \in Nat
         /\ LockedConsumed(l, target) <= lane[l].locked_balance
         /\ LockedConsumed(l, target) <= Owed(l, target)
         /\ Owed(l, target) \in Nat
         /\ SharedDebit(l, target) \in Nat
<1>1. /\ lane[l].locked_balance \in Nat
      /\ lane[l].settled_cumulative \in Nat
  BY DEF TypeOK, LaneState
<1>. QED
  BY <1>1 DEF Increases, LockedConsumed, SharedDebit, Owed, Lesser

\* Applying a settlement (the loops that end the three settle handlers) to
\* lanes whose settled amount increases.
LEMMA ApplySettlementType ==
  ASSUME TypeOK,
         NEW tok \in Tokens, NEW targets, NEW net \in [Participants -> Int],
         Payable(targets), ApplySettlement(tok, targets, net)
  PROVE  TypeOK'
<1>. USE DEF Entry, Lane, Payable
<1>1. slot' \in [Accounts -> Entry]
  <2>1. ASSUME NEW a \in Accounts, a[2] = tok
        PROVE  ApplyDelta(slot[a], net[a[1]]) \in Entry
    <3>1. a[1] \in Participants /\ a = <<a[1], tok>>
      BY <2>1 DEF Accounts
    <3>2. CanApplyDelta(slot[a], net[a[1]]) /\ net[a[1]] \in Int /\ slot[a] \in Entry
      BY <3>1 DEF ApplySettlement, CanApplySettlement, TypeOK
    <3>. QED BY <3>2, ApplyDeltaType
  <2>. QED BY <2>1 DEF ApplySettlement, TypeOK
<1>2. lane' \in [Lanes -> Lane]
  <2>1. ASSUME NEW l \in Lanes, l \in DOMAIN targets
        PROVE  ApplyLaneSettlement(lane[l], targets[l], LockedConsumed(l, targets[l])) \in Lane
    <3>1. lane[l] \in Lane /\ targets[l] \in Nat /\ Increases(l, targets[l])
      BY <2>1 DEF TypeOK
    <3>2. /\ LockedConsumed(l, targets[l]) \in Nat
          /\ LockedConsumed(l, targets[l]) <= lane[l].locked_balance
      BY <3>1, SettlementAmounts
    <3>. QED BY <3>1, <3>2, ApplyLaneSettlementType
  <2>. QED BY <2>1 DEF ApplySettlement, TypeOK
<1>3. asked' \in [Lanes -> AskState]
  BY <1>2, AskedAfterType DEF ApplySettlement, TypeOK
<1>. QED
  BY <1>1, <1>2, <1>3
  DEF ApplySettlement, TypeOK, memberVars

\* settle_individual, settle_commitment_bundle and settle_clearing_round hand
\* ApplySettlement lanes whose settled amount increases, and integers.
LEMMA SettleNextApplies ==
  ASSUME TypeOK, SettleNext
  PROVE  \E tok \in Tokens, net \in [Participants -> Int] : \E targets :
           Payable(targets) /\ Authorised(targets) /\ ApplySettlement(tok, targets, net)
<1>1. ASSUME NEW c \in Commitments, NEW s \in Keys, CommitmentAccepted(c, s)
      PROVE  /\ c.lane \in Lanes /\ c.amount \in Nat
             /\ Increases(c.lane, c.amount)
             /\ c \in signed
             /\ c.signer = lane[c.lane].authorized_signer
             /\ Owed(c.lane, c.amount) \in Int
             /\ SharedDebit(c.lane, c.amount) \in Int
  <2>1. c.lane \in Lanes /\ c.amount \in Nat
    BY CommitmentsAssumption
  <2>2. /\ Increases(c.lane, c.amount)
        /\ c \in signed
        /\ c.signer = lane[c.lane].authorized_signer
    BY <1>1 DEF CommitmentAccepted, SignedByLaneKey
  <2>. QED BY <2>1, <2>2, SettlementAmounts
<1>2. ASSUME NEW c \in Commitments, NEW s \in Keys, SettleIndividual(c, s)
      PROVE  \E tok \in Tokens, net \in [Participants -> Int] : \E targets :
               Payable(targets) /\ Authorised(targets) /\ ApplySettlement(tok, targets, net)
  <2>. DEFINE targets == [k \in {c.lane} |-> c.amount]
              net == [p \in Participants |->
                        CASE p = c.lane.payer -> -SharedDebit(c.lane, c.amount)
                          [] p = c.lane.payee -> Owed(c.lane, c.amount)
                          [] OTHER -> 0]
  <2>1. CommitmentAccepted(c, s) /\ ApplySettlement(c.lane.token, targets, net)
    BY <1>2 DEF SettleIndividual, IndividualNet
  <2>2. Payable(targets) /\ Authorised(targets)
    BY <2>1, <1>1 DEF Payable, Authorised
  <2>3. net \in [Participants -> Int]
    BY <2>1, <1>1
  <2>4. c.lane.token \in Tokens
    BY <2>1, <1>1, LaneAccounts
  <2>. QED BY <2>1, <2>2, <2>3, <2>4
<1>3. ASSUME NEW payee \in Participants, NEW tok \in Tokens,
             NEW bundle \in SUBSET Commitments, NEW s \in Keys,
             SettleCommitmentBundle(payee, tok, bundle, s)
      PROVE  \E net \in [Participants -> Int] : \E targets :
               Payable(targets) /\ Authorised(targets) /\ ApplySettlement(tok, targets, net)
  <2>. DEFINE total == SumFunction([c \in bundle |-> Owed(c.lane, c.amount)])
              of(p) == CHOOSE c \in bundle : c.lane.payer = p
              net == [p \in Participants |->
                        CASE p = payee -> total
                          [] p # payee /\ (\E c \in bundle : c.lane.payer = p) ->
                               -SharedDebit(of(p).lane, of(p).amount)
                          [] OTHER -> 0]
              lanes == {c.lane : c \in bundle}
              on(l) == CHOOSE c \in bundle : c.lane = l
              targets == [l \in lanes |-> on(l).amount]
  <2>1. /\ \A c \in bundle : CommitmentAccepted(c, s)
        /\ total \in 0 .. MaxU64
        /\ ApplySettlement(tok, targets, net)
    BY <1>3, Zenon DEF SettleCommitmentBundle
  <2>2. \A l \in lanes : on(l) \in bundle /\ on(l).lane = l
    BY Zenon
  <2>3. \A p \in Participants :
          (\E c \in bundle : c.lane.payer = p) => of(p) \in bundle
    BY Zenon
  <2>4. total \in Int
    BY <2>1, MaxU64Assumption
  <2>. HIDE DEF total, of, on
  <2>5. Payable(targets) /\ Authorised(targets)
    <3>1. ASSUME NEW l \in lanes
          PROVE  /\ l \in Lanes /\ targets[l] \in Nat /\ Increases(l, targets[l])
                 /\ on(l) \in signed \cap Commitments
                 /\ on(l).lane = l
                 /\ on(l).signer = lane[l].authorized_signer
                 /\ on(l).amount = targets[l]
      BY <2>1, <2>2, <1>1
    <3>. HIDE DEF targets, lanes
    <3>2. DOMAIN targets = lanes
      BY DEF targets
    <3>. QED BY <3>1, <3>2 DEF Payable, Authorised
  <2>6. \A p \in Participants :
          (\E c \in bundle : c.lane.payer = p)
             => SharedDebit(of(p).lane, of(p).amount) \in Int
    BY <2>1, <2>3, <1>1
  <2>7. net \in [Participants -> Int]
    BY <2>4, <2>6
  <2>. HIDE DEF net, targets
  <2>. QED BY <2>1, <2>5, <2>7
<1>4. ASSUME NEW r \in Rounds, SettleClearingRound(r)
      PROVE  \E tok \in Tokens, net \in [Participants -> Int] : \E targets :
               Payable(targets) /\ Authorised(targets) /\ ApplySettlement(tok, targets, net)
  <2>. DEFINE net == [p \in Participants |-> RoundNet(r, p)]
  <2>1. /\ \A l \in DOMAIN r.targets : Increases(l, r.targets[l])
        /\ \A p \in Participants : RoundNet(r, p) \in -MaxU64 .. MaxU64
        /\ \A p \in RoundPayers(r) : [round |-> r, by |-> p] \in signed
        /\ ApplySettlement(r.token, r.targets, net)
    BY <1>4 DEF SettleClearingRound
  <2>2. Payable(r.targets) /\ r.token \in Tokens
    BY <2>1, RoundsAssumption DEF Payable
  <2>3. net \in [Participants -> Int]
    BY <2>1, MaxU64Assumption
  <2>4. Authorised(r.targets)
    BY <2>1 DEF Authorised, RoundPayers
  <2>. HIDE DEF net
  <2>. QED BY <2>1, <2>2, <2>3, <2>4
<1>. QED BY <1>2, <1>3, <1>4 DEF SettleNext

\* Deposits, withdrawals, policies and keys.
LEMMA OwnerTypeOK ==
  ASSUME TypeOK, OwnerNext
  PROVE  TypeOK'
<1>. USE DEF Entry, Lane
<1>1. ASSUME NEW p \in Participants, NEW tok \in Tokens, NEW n \in Amounts,
             Deposit(p, tok, n)
      PROVE  TypeOK'
  <2>1. n \in Nat /\ <<p, tok>> \in Accounts
    BY AmountsAssumption DEF Accounts
  <2>2. Credit(slot[<<p, tok>>], n) \in Entry
    BY <2>1, CreditType DEF TypeOK
  <2>3. slot' \in [Accounts -> Entry]
    BY <1>1, <2>2 DEF Deposit, TypeOK
  <2>. QED
    BY <1>1, <2>1, <2>3 DEF Deposit, TypeOK, laneVars, memberVars
<1>2. ASSUME NEW tok \in Tokens, NEW credits, DepositFor(tok, credits)
      PROVE  TypeOK'
  <2>. DEFINE total == SumFunction([i \in DOMAIN credits |-> credits[i][2]])
              recipients == {credits[i][1] : i \in DOMAIN credits}
              credited(a) == a[2] = tok /\ a[1] \in recipients
  <2>1. /\ total \in 1 .. MaxU64
        /\ \A p \in recipients : CreditTo(credits, p) \in 1 .. MaxU64
        /\ slot' = [a \in Accounts |->
                      IF credited(a)
                      THEN Credit(slot[a], CreditTo(credits, a[1]))
                      ELSE slot[a]]
        /\ vault' = [vault EXCEPT ![tok] = @ + total]
        /\ funded' = [a \in Accounts |->
                        IF credited(a)
                        THEN funded[a] + CreditTo(credits, a[1])
                        ELSE funded[a]]
        /\ UNCHANGED <<now, laneVars, memberVars, signed>>
    BY <1>2, Zenon DEF DepositFor
  <2>2. total \in Nat /\ \A p \in recipients : CreditTo(credits, p) \in Nat
    BY <2>1, MaxU64Assumption
  <2>. HIDE DEF total, recipients
  <2>3. slot' \in [Accounts -> Entry]
    BY <2>1, <2>2, CreditType DEF TypeOK
  <2>. QED
    BY <2>1, <2>2, <2>3 DEF TypeOK, laneVars, memberVars
<1>3. ASSUME NEW a \in Accounts, NEW n \in Amounts, NEW d \in Destinations,
             RequestWithdrawal(a, n, d)
      PROVE  TypeOK'
  <2>1. n \in Nat /\ now + WithdrawalTimelock \in Nat
    BY AmountsAssumption, ConfigAssumption DEF TypeOK
  <2>2. InitiateWithdrawal(slot[a], n, d, now + WithdrawalTimelock) \in Entry
    BY <1>3, <2>1, WithdrawalEntryType
    DEF TypeOK, RequestWithdrawal, CanInitiateWithdrawal
  <2>. QED
    BY <1>3, <2>2 DEF RequestWithdrawal, TypeOK, laneVars, memberVars
<1>4. ASSUME NEW a \in Accounts, CancelWithdrawal(a)
      PROVE  TypeOK'
  <2>1. CancelWithdrawalEntry(slot[a]) \in Entry
    BY WithdrawalEntryType DEF TypeOK, TokenEntry
  <2>. QED
    BY <1>4, <2>1 DEF CancelWithdrawal, TypeOK, laneVars, memberVars
<1>5. ASSUME NEW p \in Participants, NEW new \in Policies, UpdateInboundPolicy(p, new)
      PROVE  TypeOK'
  BY <1>5 DEF UpdateInboundPolicy, TypeOK, balanceVars, laneVars
<1>6. ASSUME NEW p \in Participants, RegisterBlsKey(p)
      PROVE  TypeOK'
  BY <1>6 DEF RegisterBlsKey, TypeOK, balanceVars, laneVars
<1>. QED
  BY <1>1, <1>2, <1>3, <1>4, <1>5, <1>6 DEF OwnerNext

\* execute_withdrawal_timelocked: the fee never exceeds what is paid out.
LEMMA ExecuteWithdrawalTypeOK ==
  ASSUME TypeOK, NEW a \in Accounts, ExecuteWithdrawal(a)
  PROVE  TypeOK'
<1>. USE DEF Entry, Lane
<1>. DEFINE amount == slot[a].withdrawing_balance
            fee == WithdrawalFee(a[2], amount)
            paidOut == IF slot[a].withdrawal_destination = VaultAccount
                       THEN fee ELSE amount
<1>1. amount \in Nat /\ a[2] \in Tokens
  BY DEF TypeOK, TokenEntry, Accounts
<1>2. ClearWithdrawal(slot[a]) \in Entry
  BY WithdrawalEntryType DEF TypeOK, TokenEntry
<1>3. slot' \in [Accounts -> Entry]
  BY <1>2 DEF ExecuteWithdrawal, TypeOK
<1>4. CASE amount = 0 /\ UNCHANGED <<vault, funded>>
  BY <1>3, <1>4 DEF ExecuteWithdrawal, TypeOK, laneVars, memberVars
<1>5. CASE /\ ScaledMinFee(a[2]) \in 0 .. MaxU64
           /\ fee <= amount
           /\ vault[a[2]] >= amount
           /\ vault' = [vault EXCEPT ![a[2]] = @ - paidOut]
           /\ funded' = [funded EXCEPT ![a] = @ - amount]
  <2>1. fee \in Nat
    BY <1>1, <1>5, FeeType
  <2>. HIDE DEF fee
  <2>2. vault[a[2]] - paidOut \in Nat
    BY <1>1, <1>5, <2>1 DEF TypeOK
  <2>3. vault' \in [Tokens -> Nat]
    BY <1>5, <2>2 DEF TypeOK
  <2>4. funded' \in [Accounts -> Int]
    BY <1>1, <1>5 DEF TypeOK
  <2>. QED
    BY <1>3, <2>3, <2>4 DEF ExecuteWithdrawal, TypeOK, laneVars, memberVars
<1>. QED BY <1>4, <1>5 DEF ExecuteWithdrawal

\* Collateral and signer updates.
LEMMA LaneTypeOK ==
  ASSUME TypeOK, LaneNext
  PROVE  TypeOK'
<1>. USE DEF Entry, Lane
<1>1. \A n \in Amounts : n \in Nat
  BY AmountsAssumption
<1>2. \A k \in SignerChoices : k \in Keys \cup {NoKey}
  BY KeysAssumption
\* A step that rewrites one lane, keeps its history in step and leaves the
\* rest alone but for one account of a token entry.
<1>3. ASSUME lane' \in [Lanes -> Lane], slot' \in [Accounts -> Entry],
             asked' \in [Lanes -> AskState], rotation' \in [Lanes -> RotationState],
             UNCHANGED <<now, vault, funded, memberVars, signed>>
      PROVE  TypeOK'
  BY <1>3 DEF TypeOK, memberVars
<1>4. ASSUME NEW l \in Lanes, NEW k \in SignerChoices, NEW consent \in BOOLEAN,
             CreateChannel(l, consent, k)
      PROVE  TypeOK'
  <2>1. InitializeLane(k) \in Lane
    BY <1>2, InitializeLaneType
  <2>. QED
    BY <1>3, <1>4, <2>1 DEF CreateChannel, TypeOK, balanceVars, memberVars
<1>5. ASSUME NEW l \in Lanes, NEW n \in Amounts, LockChannelFunds(l, n)
      PROVE  TypeOK'
  <2>1. DebitAvailable(slot[Payer(l)], n) \in Entry
    BY <1>1, <1>5, LaneAccounts, WithdrawalEntryType
    DEF LockChannelFunds, CanDebitAvailable, TypeOK
  <2>2. AddLocked(lane[l], n) \in Lane
    BY <1>1, AddLockedType DEF TypeOK
  <2>3. lane' \in [Lanes -> Lane]
    BY <1>5, <2>2 DEF LockChannelFunds, TypeOK
  <2>4. asked' \in [Lanes -> AskState]
    BY <1>5, <2>3, AskedAfterType DEF LockChannelFunds, TypeOK
  <2>. QED
    BY <1>3, <1>5, <2>1, <2>3, <2>4 DEF LockChannelFunds, TypeOK, memberVars
<1>6. ASSUME NEW l \in Lanes, NEW n \in Amounts, RequestUnlock(l, n)
      PROVE  TypeOK'
  <2>1. now \in Nat /\ lane[l].locked_balance \in Nat
    BY DEF TypeOK, LaneState
  <2>2. RequestLaneUnlock(lane[l], n, now) \in Lane
    BY <1>1, <2>1, RequestLaneUnlockType DEF TypeOK
  <2>3. [amount |-> n, at |-> now, low |-> lane[l].locked_balance] \in AskState
    BY <1>1, <2>1 DEF AskState
  <2>. QED
    BY <1>3, <1>6, <2>2, <2>3 DEF RequestUnlock, TypeOK, balanceVars, memberVars
<1>7. ASSUME NEW l \in Lanes, ExecuteUnlock(l)
      PROVE  TypeOK'
  <2>1. ExecuteLaneUnlock(lane[l]) \in Lane /\ ReleasedAmount(lane[l]) \in Nat
    BY ExecuteLaneUnlockType DEF TypeOK
  <2>2. ApplyDelta(slot[Payer(l)], ReleasedAmount(lane[l])) \in Entry
    <3>1. CanApplyDelta(slot[Payer(l)], ReleasedAmount(lane[l]))
      BY <1>7, <2>1 DEF ExecuteUnlock, CanCredit, CanApplyDelta, Payer
    <3>. QED BY <2>1, <3>1, LaneAccounts, ApplyDeltaType DEF TypeOK
  <2>3. lane' \in [Lanes -> Lane] /\ slot' \in [Accounts -> Entry]
    BY <1>7, <2>1, <2>2 DEF ExecuteUnlock, TypeOK
  <2>4. asked' \in [Lanes -> AskState]
    BY <1>7, <2>3, AskedAfterType DEF ExecuteUnlock, TypeOK
  <2>. QED
    BY <1>3, <1>7, <2>3, <2>4 DEF ExecuteUnlock, TypeOK, memberVars
<1>8. ASSUME NEW l \in Lanes, NEW n \in Amounts, CooperativeUnlock(l, n)
      PROVE  TypeOK'
  <2>1. CooperativeUnlockLane(lane[l], n) \in Lane
    BY <1>1, <1>8, CooperativeUnlockLaneType DEF CooperativeUnlock, TypeOK
  <2>2. Credit(slot[Payer(l)], n) \in Entry
    BY <1>1, LaneAccounts, CreditType DEF TypeOK
  <2>3. lane' \in [Lanes -> Lane] /\ slot' \in [Accounts -> Entry]
    BY <1>8, <2>1, <2>2 DEF CooperativeUnlock, TypeOK
  <2>4. asked' \in [Lanes -> AskState]
    BY <1>8, <2>3, AskedAfterType DEF CooperativeUnlock, TypeOK
  <2>. QED
    BY <1>3, <1>8, <2>3, <2>4 DEF CooperativeUnlock, TypeOK, memberVars
<1>9. ASSUME NEW l \in Lanes, NEW k \in SignerChoices, RequestSignerUpdate(l, k)
      PROVE  TypeOK'
  <2>1. now \in Nat
    BY DEF TypeOK
  <2>2. RequestSigner(lane[l], k, now) \in Lane
    BY <1>2, <2>1, RequestSignerType DEF TypeOK
  <2>3. [key |-> k, at |-> now] \in RotationState
    BY <1>2, <2>1 DEF RotationState
  <2>. QED
    BY <1>3, <1>9, <2>2, <2>3
    DEF RequestSignerUpdate, TypeOK, balanceVars, memberVars
<1>10. ASSUME NEW l \in Lanes, ExecuteSignerUpdate(l)
       PROVE  TypeOK'
  <2>1. ExecuteSigner(lane[l]) \in Lane
    BY ExecuteSignerType DEF TypeOK
  <2>2. NoRotation \in RotationState
    BY DEF NoRotation, RotationState
  <2>. QED
    BY <1>3, <1>10, <2>1, <2>2
    DEF ExecuteSignerUpdate, TypeOK, balanceVars, memberVars
<1>. QED
  BY <1>4, <1>5, <1>6, <1>7, <1>8, <1>9, <1>10 DEF LaneNext

\* Signing a message off chain and the passing of time.
LEMMA EnvironmentTypeOK ==
  ASSUME TypeOK,
         \/ \E c \in Commitments : SignCommitment(c)
         \/ \E r \in Rounds, p \in Participants : SignRound(r, p)
         \/ Tick
         \/ UNCHANGED vars
  PROVE  TypeOK'
<1>1. ASSUME NEW c \in Commitments, SignCommitment(c) PROVE TypeOK'
  BY <1>1 DEF SignCommitment, TypeOK, balanceVars, laneVars, memberVars
<1>2. ASSUME NEW r \in Rounds, NEW p \in Participants, SignRound(r, p) PROVE TypeOK'
  <2>1. [round |-> r, by |-> p] \in RoundSignature
    BY DEF RoundSignature
  <2>. QED
    BY <1>2, <2>1 DEF SignRound, TypeOK, balanceVars, laneVars, memberVars
<1>3. CASE Tick
  BY <1>3 DEF Tick, TypeOK, balanceVars, laneVars, memberVars
<1>4. CASE UNCHANGED vars
  BY <1>4 DEF TypeOK, vars, balanceVars, laneVars, memberVars
<1>. QED BY <1>1, <1>2, <1>3, <1>4

LEMMA NextTypeOK == TypeOK /\ [Next]_vars => TypeOK'
<1>. SUFFICES ASSUME TypeOK, [Next]_vars PROVE TypeOK'
  OBVIOUS
<1>1. CASE OwnerNext
  BY <1>1, OwnerTypeOK
<1>2. CASE LaneNext
  BY <1>2, LaneTypeOK
<1>3. CASE SettleNext
  BY <1>3, SettleNextApplies, ApplySettlementType
<1>4. CASE \E a \in Accounts : ExecuteWithdrawal(a)
  BY <1>4, ExecuteWithdrawalTypeOK
<1>. QED
  BY <1>1, <1>2, <1>3, <1>4, EnvironmentTypeOK DEF Next

\* Every balance, collateral and settled amount of every reachable state is a
\* natural number: no handler subtracts more than its checks have covered.
THEOREM TypeCorrectness == Spec => []TypeOK
BY InitTypeOK, NextTypeOK, PTL DEF Spec

-----------------------------------------------------------------------------
(***************************************************************************)
(* The steps of one lane.                                                  *)
(***************************************************************************)
\* A settlement, by whichever handler, pays the lane's target.
Settles(l) ==
  \E targets :
    /\ Payable(targets) /\ Authorised(targets) /\ l \in DOMAIN targets
    /\ lane'[l] = ApplyLaneSettlement(lane[l], targets[l],
                                      LockedConsumed(l, targets[l]))
    /\ asked' = AskedAfter(lane')
    /\ rotation' = rotation

\* The instructions that act on one lane.
Acts(l) ==
  \/ \E consent \in BOOLEAN, k \in SignerChoices : CreateChannel(l, consent, k)
  \/ \E n \in Amounts : LockChannelFunds(l, n)
  \/ \E n \in Amounts : RequestUnlock(l, n)
  \/ ExecuteUnlock(l)
  \/ \E n \in Amounts : CooperativeUnlock(l, n)
  \/ \E k \in SignerChoices : RequestSignerUpdate(l, k)
  \/ ExecuteSignerUpdate(l)

\* The lane and its signer's history stay as they are, and its unlock history
\* says the same of the lane as before.
Rests(l) ==
  /\ lane'[l] = lane[l]
  /\ rotation'[l] = rotation[l]
  /\ asked'[l] \in {asked[l], AskedAfter(lane')[l]}

\* An instruction for one lane leaves every other lane at rest.
LEMMA ActsOnOneLane ==
  ASSUME TypeOK, NEW l \in Lanes, NEW k \in Lanes, k # l, Acts(k)
  PROVE  Rests(l)
<1>1. ASSUME NEW consent \in BOOLEAN, NEW s \in SignerChoices, CreateChannel(k, consent, s)
      PROVE  Rests(l)
  BY <1>1 DEF CreateChannel, Rests, TypeOK
<1>2. ASSUME NEW n \in Amounts, LockChannelFunds(k, n) PROVE Rests(l)
  BY <1>2 DEF LockChannelFunds, Rests, TypeOK
<1>3. ASSUME NEW n \in Amounts, RequestUnlock(k, n) PROVE Rests(l)
  BY <1>3 DEF RequestUnlock, Rests, TypeOK
<1>4. ASSUME ExecuteUnlock(k) PROVE Rests(l)
  BY <1>4 DEF ExecuteUnlock, Rests, TypeOK
<1>5. ASSUME NEW n \in Amounts, CooperativeUnlock(k, n) PROVE Rests(l)
  BY <1>5 DEF CooperativeUnlock, Rests, TypeOK
<1>6. ASSUME NEW s \in SignerChoices, RequestSignerUpdate(k, s) PROVE Rests(l)
  BY <1>6 DEF RequestSignerUpdate, Rests, TypeOK
<1>7. ASSUME ExecuteSignerUpdate(k) PROVE Rests(l)
  BY <1>7 DEF ExecuteSignerUpdate, Rests, TypeOK
<1>. QED
  BY <1>1, <1>2, <1>3, <1>4, <1>5, <1>6, <1>7 DEF Acts

\* Every step acts on a lane, settles it, or leaves it at rest.
LEMMA LaneSteps ==
  ASSUME TypeOK, [Next]_vars, NEW l \in Lanes
  PROVE  Acts(l) \/ Settles(l) \/ Rests(l)
<1>1. CASE LaneNext
  <2>1. PICK k \in Lanes : Acts(k)
    BY <1>1 DEF LaneNext, Acts
  <2>. QED BY <2>1, ActsOnOneLane
<1>2. CASE SettleNext
  <2>0. PICK tok \in Tokens, net \in [Participants -> Int] : \E targets :
          Payable(targets) /\ Authorised(targets) /\ ApplySettlement(tok, targets, net)
    BY <1>2, SettleNextApplies
  <2>1. PICK targets :
          Payable(targets) /\ Authorised(targets) /\ ApplySettlement(tok, targets, net)
    BY <2>0
  <2>2. CASE l \in DOMAIN targets
    BY <2>1, <2>2 DEF ApplySettlement, Settles
  <2>3. CASE l \notin DOMAIN targets
    BY <2>1, <2>3 DEF ApplySettlement, Rests
  <2>. QED BY <2>2, <2>3
<1>3. ASSUME UNCHANGED laneVars PROVE Rests(l)
  BY <1>3 DEF laneVars, Rests
<1>4. CASE OwnerNext
  <2>1. UNCHANGED laneVars
    BY <1>4
    DEF OwnerNext, Deposit, DepositFor, RequestWithdrawal, CancelWithdrawal,
        UpdateInboundPolicy, RegisterBlsKey
  <2>. QED BY <1>3, <2>1
<1>5. CASE ~LaneNext /\ ~SettleNext /\ ~OwnerNext
  <2>1. UNCHANGED laneVars
    BY <1>5
    DEF Next, ExecuteWithdrawal, SignCommitment, SignRound, Tick, vars
  <2>. QED BY <1>3, <2>1
<1>. QED BY <1>1, <1>2, <1>4, <1>5

-----------------------------------------------------------------------------
(***************************************************************************)
(* The inductive invariant, lane by lane.                                  *)
(***************************************************************************)
UnlockNotice(l) ==
  /\ asked[l].low <= lane[l].locked_balance
  /\ lane[l].pending_unlock_amount > 0 =>
       /\ lane[l].pending_unlock_amount <= asked[l].amount
       /\ lane[l].pending_unlock_amount <= asked[l].low
       /\ lane[l].unlock_requested_at = asked[l].at
       /\ asked[l].at > 0

SignerNotice(l) ==
  HasPendingSigner(lane[l]) =>
    /\ rotation[l].key = lane[l].pending_authorized_signer
    /\ rotation[l].at = lane[l].authorized_signer_update_requested_at

BlankIfClosed(l) == ~lane[l].initialized => lane[l] = UninitializedLane

LEMMA NoticeByLane ==
  NoticeInvariant <=> \A l \in Lanes : UnlockNotice(l) /\ SignerNotice(l) /\ BlankIfClosed(l)
BY DEF NoticeInvariant, PendingUnlockIsNoticed, UnlockHistoryIsHeld,
       PendingSignerIsNoticed, ClosedLanesAreBlank,
       UnlockNotice, SignerNotice, BlankIfClosed

\* The types of one lane and its history.
LEMMA LaneTypes ==
  ASSUME TypeOK, NEW l \in Lanes
  PROVE  /\ lane[l] \in Lane
         /\ lane[l].locked_balance \in Nat
         /\ lane[l].settled_cumulative \in Nat
         /\ lane[l].pending_unlock_amount \in Nat
         /\ lane[l].unlock_requested_at \in Nat
         /\ asked[l] \in AskState
         /\ asked[l].low \in Nat /\ asked[l].amount \in Nat /\ asked[l].at \in Nat
BY DEF TypeOK, Lane, LaneState, AskState

\* A step after which at most the capped old unlock is pending keeps its
\* notice: this is what cap_pending_unlock_at_lane_offset_in_data is for.
LEMMA CappedKeepsNotice ==
  ASSUME TypeOK, TypeOK', NEW l \in Lanes, UnlockNotice(l),
         asked'[l] = AskedAfter(lane')[l],
         lane'[l].pending_unlock_amount > 0 =>
           /\ lane'[l].pending_unlock_amount <= lane[l].pending_unlock_amount
           /\ lane'[l].pending_unlock_amount <= lane'[l].locked_balance
           /\ lane'[l].unlock_requested_at = lane[l].unlock_requested_at
  PROVE  UnlockNotice(l)'
<1>1. /\ lane'[l].locked_balance \in Nat
      /\ lane'[l].pending_unlock_amount \in Nat
      /\ lane[l].pending_unlock_amount \in Nat
  BY DEF TypeOK, Lane, LaneState
<1>2. asked[l] \in AskState
  BY LaneTypes
<1>3. CASE lane'[l].pending_unlock_amount = 0
  <2>1. asked'[l].low = 0
    BY <1>3 DEF AskedAfter, NoAsk
  <2>. QED BY <1>1, <1>3, <2>1 DEF UnlockNotice
<1>4. CASE lane'[l].pending_unlock_amount > 0
  <2>. DEFINE low == Lesser(asked[l].low, lane'[l].locked_balance)
  <2>1. asked'[l] = [asked[l] EXCEPT !.low = low]
    BY <1>1, <1>4 DEF AskedAfter
  <2>2. /\ asked'[l].low = low
        /\ asked'[l].amount = asked[l].amount
        /\ asked'[l].at = asked[l].at
    BY <1>2, <2>1, Zenon DEF AskState
  <2>3. lane[l].pending_unlock_amount > 0
    BY <1>1, <1>4
  <2>4. asked[l].low \in Nat /\ asked[l].amount \in Nat
    BY <1>2 DEF AskState
  <2>. QED BY <1>1, <1>4, <2>2, <2>3, <2>4 DEF UnlockNotice, Lesser
<1>. QED BY <1>1, <1>3, <1>4

LEMMA NoticeInit == Init => NoticeInvariant
<1>. SUFFICES ASSUME Init, NEW l \in Lanes
              PROVE  UnlockNotice(l) /\ SignerNotice(l) /\ BlankIfClosed(l)
  BY NoticeByLane
<1>. QED
  BY DEF Init, UnlockNotice, SignerNotice, BlankIfClosed, UninitializedLane,
         NoAsk, HasPendingSigner

\* What each lane action does to the lane, its history and its signer.
LEMMA ActionsKeepNotice ==
  ASSUME TypeOK, TypeOK', NEW l \in Lanes, Acts(l),
         UnlockNotice(l), SignerNotice(l), BlankIfClosed(l)
  PROVE  UnlockNotice(l)' /\ SignerNotice(l)' /\ BlankIfClosed(l)'
<1>. DEFINE Goal == UnlockNotice(l)' /\ SignerNotice(l)' /\ BlankIfClosed(l)'
<1>. USE LaneTypes
<1>1. ASSUME NEW consent \in BOOLEAN, NEW s \in SignerChoices, CreateChannel(l, consent, s)
      PROVE  Goal
  <2>1. lane'[l] = InitializeLane(s) /\ asked' = asked /\ ~lane[l].initialized
    BY <1>1 DEF CreateChannel, TypeOK
  <2>2. s \in Keys \cup {NoKey}
    BY KeysAssumption
  <2>3. /\ lane'[l].locked_balance = 0
        /\ lane'[l].pending_unlock_amount = 0
        /\ lane'[l].pending_authorized_signer = NoKey
    BY <2>1, <2>2, InitializeLaneType
  <2>4. lane'[l].initialized
    BY <2>1, Zenon DEF InitializeLane, UninitializedLane
  <2>5. lane[l].locked_balance = 0
    BY <2>1 DEF BlankIfClosed, UninitializedLane
  <2>. QED
    BY <2>1, <2>3, <2>4, <2>5
    DEF UnlockNotice, SignerNotice, BlankIfClosed, HasPendingSigner
<1>2. ASSUME NEW n \in Amounts, LockChannelFunds(l, n)
      PROVE  Goal
  <2>1. /\ n \in Nat /\ n > 0
        /\ lane'[l] = AddLocked(lane[l], n)
        /\ lane[l].initialized
        /\ asked' = AskedAfter(lane') /\ rotation' = rotation
    BY <1>2, AmountsAssumption DEF LockChannelFunds, TypeOK
  <2>2. /\ lane'[l].initialized
        /\ lane'[l].locked_balance = lane[l].locked_balance + n
        /\ SameUnlock(lane'[l], lane[l]) /\ SameSigner(lane'[l], lane[l])
    <3>1. lane[l] \in Lane
      OBVIOUS
    <3>. HIDE LaneTypes
    <3>. QED BY <2>1, <3>1, AddLockedType, ZenonT(30)
  <2>3. UnlockNotice(l)'
    BY <2>1, <2>2, CappedKeepsNotice DEF UnlockNotice, SameUnlock
  <2>. QED
    BY <2>1, <2>2, <2>3 DEF SignerNotice, BlankIfClosed, HasPendingSigner, SameSigner
<1>3. ASSUME NEW n \in Amounts, RequestUnlock(l, n)
      PROVE  Goal
  <2>1. /\ n \in Nat /\ now \in Nat /\ now > 0
        /\ n <= lane[l].locked_balance
        /\ lane'[l] = RequestLaneUnlock(lane[l], n, now)
        /\ lane[l].initialized
        /\ asked'[l] = [amount |-> n, at |-> now, low |-> lane[l].locked_balance]
        /\ rotation' = rotation
    BY <1>3, AmountsAssumption DEF RequestUnlock, TypeOK
  <2>2. /\ lane'[l].initialized
        /\ lane'[l].locked_balance = lane[l].locked_balance
        /\ lane'[l].pending_unlock_amount = n
        /\ lane'[l].unlock_requested_at = now
        /\ SameSigner(lane'[l], lane[l])
    <3>1. lane[l] \in Lane
      OBVIOUS
    <3>. HIDE LaneTypes
    <3>. QED BY <2>1, <3>1, RequestLaneUnlockType, SMTT(30)
  <2>. QED
    BY <2>1, <2>2
    DEF UnlockNotice, SignerNotice, BlankIfClosed, HasPendingSigner, SameSigner
<1>4. ASSUME ExecuteUnlock(l)
      PROVE  Goal
  <2>1. /\ lane'[l] = ExecuteLaneUnlock(lane[l])
        /\ lane[l].initialized
        /\ asked' = AskedAfter(lane') /\ rotation' = rotation
    BY <1>4 DEF ExecuteUnlock, TypeOK
  <2>2. /\ lane'[l].initialized
        /\ lane'[l].pending_unlock_amount = 0
        /\ SameSigner(lane'[l], lane[l])
    BY <2>1, ExecuteLaneUnlockType
  <2>3. UnlockNotice(l)'
    BY <2>1, <2>2, CappedKeepsNotice
  <2>. QED
    BY <2>1, <2>2, <2>3 DEF SignerNotice, BlankIfClosed, HasPendingSigner, SameSigner
<1>5. ASSUME NEW n \in Amounts, CooperativeUnlock(l, n)
      PROVE  Goal
  <2>1. /\ n \in Nat /\ n <= lane[l].locked_balance
        /\ lane'[l] = CooperativeUnlockLane(lane[l], n)
        /\ lane[l].initialized
        /\ asked' = AskedAfter(lane') /\ rotation' = rotation
    BY <1>5, AmountsAssumption DEF CooperativeUnlock, TypeOK
  <2>2. /\ lane'[l].initialized
        /\ CappedUnlock(lane'[l], lane[l]) /\ SameSigner(lane'[l], lane[l])
    BY <2>1, CooperativeUnlockLaneType
  <2>3. lane'[l].locked_balance \in Nat
    BY DEF TypeOK, LaneState
  <2>4. UnlockNotice(l)'
    BY <2>1, <2>2, <2>3, CappedKeepsNotice DEF CappedUnlock, Lesser
  <2>. QED
    BY <2>1, <2>2, <2>4 DEF SignerNotice, BlankIfClosed, HasPendingSigner, SameSigner
<1>6. ASSUME NEW s \in SignerChoices, RequestSignerUpdate(l, s)
      PROVE  Goal
  <2>1. /\ s \in Keys \cup {NoKey} /\ now \in Nat
        /\ lane'[l] = RequestSigner(lane[l], s, now)
        /\ lane[l].initialized
        /\ asked' = asked
        /\ rotation'[l] = [key |-> s, at |-> now]
    BY <1>6, KeysAssumption DEF RequestSignerUpdate, TypeOK
  <2>2. /\ lane'[l].initialized
        /\ lane'[l].locked_balance = lane[l].locked_balance
        /\ lane'[l].pending_authorized_signer = s
        /\ lane'[l].authorized_signer_update_requested_at = now
        /\ SameUnlock(lane'[l], lane[l])
    <3>1. lane[l] \in Lane
      OBVIOUS
    <3>. HIDE LaneTypes
    <3>. QED BY <2>1, <3>1, RequestSignerType
  <2>. QED
    BY <2>1, <2>2
    DEF UnlockNotice, SignerNotice, BlankIfClosed, HasPendingSigner, SameUnlock
<1>7. ASSUME ExecuteSignerUpdate(l)
      PROVE  Goal
  <2>1. /\ lane'[l] = ExecuteSigner(lane[l])
        /\ lane[l].initialized
        /\ asked' = asked
    BY <1>7 DEF ExecuteSignerUpdate, TypeOK
  <2>2. /\ lane'[l].initialized
        /\ lane'[l].locked_balance = lane[l].locked_balance
        /\ lane'[l].pending_authorized_signer = NoKey
        /\ SameUnlock(lane'[l], lane[l])
    BY <2>1, ExecuteSignerType
  <2>. QED
    BY <2>1, <2>2
    DEF UnlockNotice, SignerNotice, BlankIfClosed, HasPendingSigner, SameUnlock
<1>. QED
  BY <1>1, <1>2, <1>3, <1>4, <1>5, <1>6, <1>7 DEF Acts

\* A settlement caps the pending unlock at the collateral it leaves.
LEMMA SettlementKeepsNotice ==
  ASSUME TypeOK, TypeOK', NEW l \in Lanes, Settles(l),
         UnlockNotice(l), SignerNotice(l), BlankIfClosed(l)
  PROVE  UnlockNotice(l)' /\ SignerNotice(l)' /\ BlankIfClosed(l)'
<1>1. PICK targets :
        /\ Payable(targets) /\ l \in DOMAIN targets
        /\ lane'[l] = ApplyLaneSettlement(lane[l], targets[l],
                                          LockedConsumed(l, targets[l]))
        /\ asked' = AskedAfter(lane')
        /\ rotation' = rotation
  BY DEF Settles
<1>2. targets[l] \in Nat /\ Increases(l, targets[l])
  BY <1>1 DEF Payable
<1>3. /\ lane'[l].initialized = lane[l].initialized
      /\ CappedUnlock(lane'[l], lane[l])
      /\ SameSigner(lane'[l], lane[l])
  BY <1>1, <1>2, LaneTypes, SettlementAmounts, ApplyLaneSettlementType
<1>4. lane'[l].locked_balance \in Nat /\ lane[l].pending_unlock_amount \in Nat
  BY LaneTypes DEF TypeOK, LaneState
<1>5. UnlockNotice(l)'
  BY <1>1, <1>3, <1>4, CappedKeepsNotice DEF CappedUnlock, Lesser
<1>. QED
  BY <1>1, <1>2, <1>3, <1>5
  DEF SignerNotice, BlankIfClosed, HasPendingSigner, SameSigner, Increases

\* A lane at rest keeps its notice.
LEMMA RestKeepsNotice ==
  ASSUME TypeOK, TypeOK', NEW l \in Lanes, Rests(l),
         UnlockNotice(l), SignerNotice(l), BlankIfClosed(l)
  PROVE  UnlockNotice(l)' /\ SignerNotice(l)' /\ BlankIfClosed(l)'
<1>1. CASE asked'[l] = asked[l]
  BY <1>1 DEF Rests, UnlockNotice, SignerNotice, BlankIfClosed
<1>2. CASE asked'[l] = AskedAfter(lane')[l]
  <2>1. UnlockNotice(l)'
    BY <1>2, LaneTypes, CappedKeepsNotice DEF Rests, UnlockNotice
  <2>. QED BY <2>1 DEF Rests, SignerNotice, BlankIfClosed
<1>. QED BY <1>1, <1>2 DEF Rests

LEMMA NoticeNext ==
  TypeOK /\ TypeOK' /\ NoticeInvariant /\ [Next]_vars => NoticeInvariant'
<1>. SUFFICES ASSUME TypeOK, TypeOK', NoticeInvariant, [Next]_vars, NEW l \in Lanes
              PROVE  (UnlockNotice(l) /\ SignerNotice(l) /\ BlankIfClosed(l))'
  BY DEF NoticeInvariant, PendingUnlockIsNoticed, UnlockHistoryIsHeld,
         PendingSignerIsNoticed, ClosedLanesAreBlank,
         UnlockNotice, SignerNotice, BlankIfClosed
<1>1. UnlockNotice(l) /\ SignerNotice(l) /\ BlankIfClosed(l)
  BY NoticeByLane
<1>. QED
  BY <1>1, LaneSteps, ActionsKeepNotice, SettlementKeepsNotice, RestKeepsNotice

\* The notice invariant holds in every reachable state.
THEOREM NoticeInvariance == Spec => []NoticeInvariant
<1>1. Init => NoticeInvariant
  BY NoticeInit
<1>2. TypeOK /\ TypeOK' /\ NoticeInvariant /\ [Next]_vars => NoticeInvariant'
  BY NoticeNext
<1>. QED BY <1>1, <1>2, TypeCorrectness, PTL DEF Spec

\* A pending unlock is the one last asked for and never exceeds the collateral
\* the lane has held ever since, through any settlement, cooperative unlock or
\* new lock: for every set of lanes and messages and every timelock.
THEOREM PendingUnlockSafety == Spec => []PendingUnlockIsNoticed
BY NoticeInvariance, PTL DEF NoticeInvariant

-----------------------------------------------------------------------------
(***************************************************************************)
(* Action properties that follow from the invariant.                       *)
(***************************************************************************)
\* What an instruction for a lane does to its coverage, its settled amount and
\* its signer.
LEMMA ActionEffects ==
  ASSUME TypeOK, NEW l \in Lanes, Acts(l),
         UnlockNotice(l), SignerNotice(l), BlankIfClosed(l)
  PROVE  /\ CoverageStep(l) /\ PaymentStep(l) /\ SignerStep(l)
         /\ lane'[l].settled_cumulative = lane[l].settled_cumulative
<1>. DEFINE SameCumulative == lane'[l].settled_cumulative = lane[l].settled_cumulative
            KeepsCoverage == ~(Coverage(l)' < Coverage(l))
            KeepsSigner == lane'[l].authorized_signer = lane[l].authorized_signer
<1>0. /\ lane[l] \in Lane
      /\ lane[l].locked_balance \in Nat /\ lane[l].settled_cumulative \in Nat
      /\ lane[l].pending_unlock_amount \in Nat
      /\ lane[l].authorized_signer_update_requested_at \in Nat
  BY DEF TypeOK, Lane, LaneState
<1>1. ASSUME NEW consent \in BOOLEAN, NEW s \in SignerChoices, CreateChannel(l, consent, s)
      PROVE  KeepsCoverage /\ SameCumulative /\ ~lane[l].initialized
  <2>1. lane'[l] = InitializeLane(s) /\ ~lane[l].initialized
    BY <1>1 DEF CreateChannel, TypeOK
  <2>2. lane'[l].locked_balance = 0 /\ lane'[l].settled_cumulative = 0
    BY <2>1, KeysAssumption, InitializeLaneType
  <2>3. lane[l].locked_balance = 0 /\ lane[l].settled_cumulative = 0
    BY <2>1 DEF BlankIfClosed, UninitializedLane
  <2>. QED BY <2>1, <2>2, <2>3 DEF Coverage
<1>2. ASSUME NEW n \in Amounts, LockChannelFunds(l, n)
      PROVE  KeepsCoverage /\ SameCumulative /\ KeepsSigner
  <2>1. n \in Nat /\ lane'[l] = AddLocked(lane[l], n)
    BY <1>2, AmountsAssumption DEF LockChannelFunds, TypeOK
  <2>2. /\ lane'[l].locked_balance = lane[l].locked_balance + n
        /\ SameCumulative /\ SameSigner(lane'[l], lane[l])
    <3>1. lane[l] \in Lane
      BY <1>0
    <3>. QED BY <2>1, <3>1, AddLockedType, ZenonT(30)
  <2>. QED BY <1>0, <2>1, <2>2 DEF Coverage, SameSigner
<1>3. ASSUME NEW n \in Amounts, RequestUnlock(l, n)
      PROVE  KeepsCoverage /\ SameCumulative /\ KeepsSigner
  <2>1. n \in Nat /\ now \in Nat /\ lane'[l] = RequestLaneUnlock(lane[l], n, now)
    BY <1>3, AmountsAssumption DEF RequestUnlock, TypeOK
  <2>2. /\ lane'[l].locked_balance = lane[l].locked_balance
        /\ SameCumulative /\ SameSigner(lane'[l], lane[l])
    <3>1. lane[l] \in Lane
      BY <1>0
    <3>. QED BY <2>1, <3>1, RequestLaneUnlockType, SMTT(30)
  <2>. QED BY <1>0, <2>2 DEF Coverage, SameSigner
<1>4. ASSUME ExecuteUnlock(l)
      PROVE  /\ SameCumulative /\ KeepsSigner
             /\ now >= asked[l].at + ChannelTimelock
             /\ asked[l].at > 0
             /\ Coverage(l) - Coverage(l)' <= Lesser(asked[l].amount, asked[l].low)
  <2>1. /\ lane'[l] = ExecuteLaneUnlock(lane[l])
        /\ HasPendingUnlock(lane[l])
        /\ now >= lane[l].unlock_requested_at + ChannelTimelock
    BY <1>4 DEF ExecuteUnlock, TypeOK
  <2>2. /\ ReleasedAmount(lane[l]) \in Nat
        /\ lane'[l].locked_balance = lane[l].locked_balance - ReleasedAmount(lane[l])
        /\ SameCumulative /\ SameSigner(lane'[l], lane[l])
    BY <1>0, <2>1, ExecuteLaneUnlockType
  <2>3. /\ lane[l].unlock_requested_at = asked[l].at
        /\ asked[l].at > 0
        /\ lane[l].pending_unlock_amount <= asked[l].amount
        /\ lane[l].pending_unlock_amount <= asked[l].low
    BY <2>1 DEF UnlockNotice, HasPendingUnlock
  <2>4. asked[l].low \in Nat /\ asked[l].amount \in Nat
    BY LaneTypes
  <2>5. ReleasedAmount(lane[l]) <= Lesser(asked[l].amount, asked[l].low)
    BY <1>0, <2>3, <2>4 DEF ReleasedAmount, Lesser
  <2>6. Coverage(l) - Coverage(l)' = ReleasedAmount(lane[l])
    BY <1>0, <2>2 DEF Coverage
  <2>. QED BY <2>1, <2>2, <2>3, <2>5, <2>6 DEF SameSigner
<1>5. ASSUME NEW n \in Amounts, CooperativeUnlock(l, n)
      PROVE  SameCumulative /\ KeepsSigner
  <2>1. /\ n \in Nat /\ n <= lane[l].locked_balance
        /\ lane'[l] = CooperativeUnlockLane(lane[l], n)
    BY <1>5, AmountsAssumption DEF CooperativeUnlock, TypeOK
  <2>2. SameCumulative /\ SameSigner(lane'[l], lane[l])
    BY <1>0, <2>1, CooperativeUnlockLaneType
  <2>. QED BY <2>2 DEF SameSigner
<1>6. ASSUME NEW s \in SignerChoices, RequestSignerUpdate(l, s)
      PROVE  KeepsCoverage /\ SameCumulative /\ KeepsSigner
  <2>1. /\ s \in Keys \cup {NoKey} /\ now \in Nat
        /\ lane'[l] = RequestSigner(lane[l], s, now)
    BY <1>6, KeysAssumption DEF RequestSignerUpdate, TypeOK
  <2>2. /\ lane'[l].locked_balance = lane[l].locked_balance
        /\ SameCumulative /\ KeepsSigner
    BY <1>0, <2>1, RequestSignerType
  <2>. QED BY <1>0, <2>2 DEF Coverage
<1>7. ASSUME ExecuteSignerUpdate(l)
      PROVE  /\ KeepsCoverage /\ SameCumulative
             /\ lane'[l].authorized_signer = rotation[l].key
             /\ rotation[l].at > 0
             /\ now >= rotation[l].at + ChannelTimelock
  <2>1. /\ lane'[l] = ExecuteSigner(lane[l])
        /\ HasPendingSigner(lane[l])
        /\ now >= lane[l].authorized_signer_update_requested_at + ChannelTimelock
    BY <1>7 DEF ExecuteSignerUpdate, TypeOK
  <2>2. /\ lane'[l].locked_balance = lane[l].locked_balance
        /\ SameCumulative
        /\ lane'[l].authorized_signer = lane[l].pending_authorized_signer
    BY <1>0, <2>1, ExecuteSignerType
  <2>3. lane[l].authorized_signer_update_requested_at > 0
    BY <1>0, <2>1 DEF HasPendingSigner
  <2>. QED BY <1>0, <2>1, <2>2, <2>3 DEF Coverage, SignerNotice
<1>. QED
  BY <1>1, <1>2, <1>3, <1>4, <1>5, <1>6, <1>7, Zenon
  DEF Acts, CoverageStep, PaymentStep, SignerStep

\* A settlement never lowers the coverage: what it takes from the collateral
\* it adds to the settled amount; it pays an authorised target.
LEMMA SettlementEffects ==
  ASSUME TypeOK, NEW l \in Lanes, Settles(l)
  PROVE  CoverageStep(l) /\ PaymentStep(l) /\ SignerStep(l)
<1>1. PICK targets :
        /\ Payable(targets) /\ Authorised(targets) /\ l \in DOMAIN targets
        /\ lane'[l] = ApplyLaneSettlement(lane[l], targets[l],
                                          LockedConsumed(l, targets[l]))
  BY DEF Settles
<1>2. targets[l] \in Nat /\ Increases(l, targets[l])
  BY <1>1 DEF Payable
<1>3. /\ LockedConsumed(l, targets[l]) \in Nat
      /\ LockedConsumed(l, targets[l]) <= lane[l].locked_balance
      /\ LockedConsumed(l, targets[l]) <= Owed(l, targets[l])
  BY <1>2, SettlementAmounts
<1>4. /\ lane'[l].locked_balance = lane[l].locked_balance - LockedConsumed(l, targets[l])
      /\ lane'[l].settled_cumulative = targets[l]
      /\ SameSigner(lane'[l], lane[l])
  BY <1>1, <1>2, <1>3, LaneTypes, ApplyLaneSettlementType
<1>5. lane[l].locked_balance \in Nat /\ lane[l].settled_cumulative \in Nat
  BY LaneTypes
<1>6. ~(Coverage(l)' < Coverage(l))
  BY <1>2, <1>3, <1>4, <1>5 DEF Coverage, Owed
<1>7. lane'[l].settled_cumulative > lane[l].settled_cumulative
  BY <1>2, <1>4 DEF Increases
<1>. QED
  BY <1>1, <1>4, <1>6, <1>7
  DEF Authorised, SameSigner, CoverageStep, PaymentStep, SignerStep

\* Every step does to every lane only what the three properties allow.
LEMMA StepEffects ==
  ASSUME TypeOK, NoticeInvariant, [Next]_vars, NEW l \in Lanes
  PROVE  CoverageStep(l) /\ PaymentStep(l) /\ SignerStep(l)
<1>1. CASE Acts(l)
  BY <1>1, NoticeByLane, ActionEffects
<1>2. CASE Settles(l)
  BY <1>2, SettlementEffects
<1>3. CASE Rests(l)
  <2>1. Coverage(l)' = Coverage(l) /\ Coverage(l) \in Nat
    BY <1>3, LaneTypes DEF Rests, Coverage
  <2>2. CoverageStep(l)
    BY <2>1 DEF CoverageStep
  <2>. QED BY <1>3, <2>2 DEF Rests, PaymentStep, SignerStep
<1>. QED BY <1>1, <1>2, <1>3, LaneSteps

\* A lane's coverage drops only by consent of both ends, or by an unlock asked
\* for a full timelock earlier out of collateral that was there all the time.
THEOREM CoverageSafety == Spec => CoverageDropsOnlyByNoticeOrConsent
<1>1. TypeOK /\ NoticeInvariant /\ [Next]_vars => [\A l \in Lanes : CoverageStep(l)]_vars
  BY StepEffects
<1>. QED
  BY <1>1, TypeCorrectness, NoticeInvariance, PTL
  DEF Spec, CoverageDropsOnlyByNoticeOrConsent

\* Settled amounts only grow, and only to an amount that the lane's key of that
\* moment signed in a commitment or the payer signed in a clearing round.
THEOREM PaymentSafety == Spec => PaymentsAreAuthorised
<1>1. TypeOK /\ NoticeInvariant /\ [Next]_vars => [\A l \in Lanes : PaymentStep(l)]_vars
  BY StepEffects
<1>. QED
  BY <1>1, TypeCorrectness, NoticeInvariance, PTL DEF Spec, PaymentsAreAuthorised

\* The key of an open lane changes only to the key last asked for, a full
\* timelock after it was asked for.
THEOREM SignerSafety == Spec => SignerChangesOnlyWithNotice
<1>1. TypeOK /\ NoticeInvariant /\ [Next]_vars => [\A l \in Lanes : SignerStep(l)]_vars
  BY StepEffects
<1>. QED
  BY <1>1, TypeCorrectness, NoticeInvariance, PTL DEF Spec, SignerChangesOnlyWithNotice

-----------------------------------------------------------------------------
(***************************************************************************)
(* Conservation, proved: every payment counts once, and the vaults back    *)
(* what the program owes.  For single accounts this means that locked      *)
(* collateral can be collected, that a pending withdrawal is pinned, and   *)
(* that shared funds are drained after collateral.                         *)
(*                                                                         *)
(* What a step moves is written per lane: how much its coverage (settled   *)
(* amount and collateral) and its settled amount grow.  A participant pays *)
(* the first for the lanes it sends on and is paid the second by the lanes *)
(* it receives on; Flow says that its entry changes by exactly that and by *)
(* what was paid in or out.  Every action is shown to have this form.      *)
(*                                                                         *)
(* Sums over lanes and participants are SumFunctionOnSet(f, S), the sum of *)
(* f[x] for x in a finite set S.  The laws of that operator come first and *)
(* are proved from its definition: induction over the subsets of S is the  *)
(* library's theorem that proper inclusion is well-founded on finite sets, *)
(* applied to the set of counterexamples.                                  *)
(***************************************************************************)

-----------------------------------------------------------------------------
(***************************************************************************)
(* Induction over the subsets of a finite set.                             *)
(***************************************************************************)
\* A set that contains a subset of S whenever it contains all its proper
\* subsets contains S.
LEMMA SubsetInduction ==
  ASSUME NEW S, IsFiniteSet(S), NEW T,
         \A s \in SUBSET S : (\A u \in SUBSET s : u # s => u \in T) => s \in T
  PROVE  \A s \in SUBSET S : s \in T
<1>. DEFINE Bad == (SUBSET S) \ T
<1>1. IsWellFoundedOn(StrictSubsetOrdering(S), SUBSET S)
  BY FS_StrictSubsetOrderingWellFounded, FS_FiniteSubsetsOfFinite
<1>2. SUFFICES ASSUME Bad # {} PROVE FALSE
  OBVIOUS
<1>3. PICK s \in Bad : \A u \in Bad : <<u, s>> \notin StrictSubsetOrdering(S)
  <2>1. Bad \subseteq SUBSET S
    OBVIOUS
  <2>. HIDE DEF Bad
  <2>. QED BY <1>1, <1>2, <2>1, WFMin
<1>4. ASSUME NEW u \in SUBSET s, u # s PROVE u \in T
  BY <1>3, <1>4 DEF StrictSubsetOrdering
<1>. QED BY <1>3, <1>4

-----------------------------------------------------------------------------
(***************************************************************************)
(* The sum is a sum: the recursion it is defined by has a solution.        *)
(***************************************************************************)
\* The element that the sum takes out of a set first.
Pick(s) == CHOOSE x \in s : TRUE
Rest(s) == s \ {Pick(s)}

\* g holds the partial sums of f over the subsets of s.
Sums(f, s, g) ==
  g = [u \in SUBSET s |-> IF u = {} THEN 0 ELSE f[Pick(u)] + g[Rest(u)]]

LEMMA PickRest ==
  ASSUME NEW s, s # {}
  PROVE  Pick(s) \in s /\ Rest(s) \in SUBSET s /\ Rest(s) # s
BY DEF Pick, Rest

LEMMA SumIsChosen ==
  ASSUME NEW f, NEW S
  PROVE  SumFunctionOnSet(f, S) = (CHOOSE g : Sums(f, S, g))[S]
BY DEF SumFunctionOnSet, FoldFunctionOnSet, MapThenFoldSet, Sums, Pick, Rest

\* One step of the recursion.
LEMMA SumsStep ==
  ASSUME NEW f, NEW s, NEW g, Sums(f, s, g), NEW u \in SUBSET s
  PROVE  g[u] = IF u = {} THEN 0 ELSE f[Pick(u)] + g[Rest(u)]
<1>1. g = [v \in SUBSET s |-> IF v = {} THEN 0 ELSE f[Pick(v)] + g[Rest(v)]]
  BY DEF Sums
<1>. QED BY <1>1, Zenon

\* Partial sums over a set and over a larger one agree.
LEMMA SumsAgree ==
  ASSUME NEW f, NEW s, IsFiniteSet(s), NEW t, s \subseteq t, NEW g, NEW h,
         Sums(f, s, g), Sums(f, t, h)
  PROVE  \A u \in SUBSET s : g[u] = h[u]
<1>. DEFINE Same == {u \in SUBSET s : g[u] = h[u]}
<1>1. ASSUME NEW u \in SUBSET s, \A v \in SUBSET u : v # u => v \in Same
      PROVE  g[u] = h[u]
  <2>1. CASE u = {}
    BY <2>1, SumsStep
  <2>2. CASE u # {}
    <3>1. Rest(u) \in Same
      BY <1>1, <2>2, PickRest
    <3>2. g[u] = f[Pick(u)] + g[Rest(u)] /\ h[u] = f[Pick(u)] + h[Rest(u)]
      BY <2>2, SumsStep
    <3>. QED BY <3>1, <3>2
  <2>. QED BY <2>1, <2>2
<1>2. \A u \in SUBSET s : (\A v \in SUBSET u : v # u => v \in Same) => u \in Same
  BY <1>1
<1>3. \A u \in SUBSET s : u \in Same
  <2>. HIDE DEF Same
  <2>. QED BY <1>2, SubsetInduction
<1>. QED BY <1>3

LEMMA SumsExist ==
  ASSUME NEW f, NEW S, IsFiniteSet(S)
  PROVE  \E g : Sums(f, S, g)
<1>. DEFINE Summed == {s \in SUBSET S : \E g : Sums(f, s, g)}
<1>1. ASSUME NEW s \in SUBSET S, \A u \in SUBSET s : u # s => u \in Summed
      PROVE  \E g : Sums(f, s, g)
  <2>. DEFINE of(u) == CHOOSE g : Sums(f, u, g)
              total(u) == IF u = {} THEN 0 ELSE f[Pick(u)] + of(Rest(u))[Rest(u)]
              g == [u \in SUBSET s |-> total(u)]
  <2>1. ASSUME NEW u \in SUBSET s, u # s
        PROVE  Sums(f, u, of(u))
    BY <1>1, <2>1
  <2>2. ASSUME NEW u \in SUBSET s, u # s
        PROVE  of(u)[u] = total(u)
    <3>1. CASE u = {}
      BY <2>1, <2>2, <3>1, SumsStep
    <3>2. CASE u # {}
      <4>1. /\ Rest(u) \in SUBSET u /\ Rest(u) \in SUBSET s /\ Rest(u) # s
            /\ IsFiniteSet(Rest(u))
        <5>1. Rest(u) \in SUBSET u /\ Rest(u) # u
          BY <3>2, PickRest
        <5>2. Rest(u) \in SUBSET S
          BY <5>1
        <5>. QED BY <2>2, <5>1, <5>2, FS_Subset
      <4>2. Sums(f, u, of(u)) /\ Sums(f, Rest(u), of(Rest(u)))
        BY <2>1, <2>2, <4>1
      <4>. HIDE DEF of
      <4>3. of(Rest(u))[Rest(u)] = of(u)[Rest(u)]
        BY <4>1, <4>2, SumsAgree
      <4>4. of(u)[u] = f[Pick(u)] + of(u)[Rest(u)]
        BY <3>2, <4>2, SumsStep
      <4>. QED BY <3>2, <4>3, <4>4
    <3>. QED BY <3>1, <3>2
  <2>. HIDE DEF of
  <2>3. ASSUME NEW u \in SUBSET s, u # {}
        PROVE  total(u) = f[Pick(u)] + g[Rest(u)]
    <3>1. Rest(u) \in SUBSET s /\ Rest(u) # s
      BY <2>3, PickRest DEF Rest
    <3>2. of(Rest(u))[Rest(u)] = g[Rest(u)]
      BY <2>2, <3>1
    <3>. QED BY <2>3, <3>2
  <2>4. g = [u \in SUBSET s |-> IF u = {} THEN 0 ELSE f[Pick(u)] + g[Rest(u)]]
    <3>1. \A u \in SUBSET s : total(u) = IF u = {} THEN 0 ELSE f[Pick(u)] + g[Rest(u)]
      BY <2>3
    <3>. QED BY <3>1, Zenon
  <2>. QED BY <2>4 DEF Sums
<1>2. \A s \in SUBSET S : (\A u \in SUBSET s : u # s => u \in Summed) => s \in Summed
  BY <1>1
<1>3. S \in Summed
  <2>. HIDE DEF Summed
  <2>. QED BY <1>2, SubsetInduction
<1>. QED BY <1>3

\* The recursion, for the operator itself.
LEMMA SumStep ==
  ASSUME NEW f, NEW S, IsFiniteSet(S)
  PROVE  SumFunctionOnSet(f, S) =
           IF S = {} THEN 0 ELSE f[Pick(S)] + SumFunctionOnSet(f, Rest(S))
<1>. DEFINE of(u) == CHOOSE g : Sums(f, u, g)
<1>1. Sums(f, S, of(S))
  BY SumsExist
<1>2. CASE S = {}
  <2>. HIDE DEF of
  <2>1. of(S)[S] = 0
    BY <1>1, <1>2, SumsStep
  <2>. QED BY <1>2, <2>1, SumIsChosen DEF of
<1>3. CASE S # {}
  <2>1. Rest(S) \in SUBSET S /\ IsFiniteSet(Rest(S))
    BY <1>3, PickRest, FS_Subset
  <2>2. Sums(f, Rest(S), of(Rest(S)))
    BY <2>1, SumsExist
  <2>. HIDE DEF of
  <2>3. of(S)[S] = f[Pick(S)] + of(S)[Rest(S)]
    BY <1>1, <1>3, SumsStep
  <2>4. of(Rest(S))[Rest(S)] = of(S)[Rest(S)]
    BY <1>1, <2>1, <2>2, SumsAgree
  <2>5. /\ SumFunctionOnSet(f, S) = of(S)[S]
        /\ SumFunctionOnSet(f, Rest(S)) = of(Rest(S))[Rest(S)]
    BY SumIsChosen DEF of
  <2>. QED BY <1>3, <2>3, <2>4, <2>5
<1>. QED BY <1>2, <1>3

-----------------------------------------------------------------------------
(***************************************************************************)
(* Sums of integers.                                                       *)
(***************************************************************************)
LEMMA SumOfNone ==
  ASSUME NEW f
  PROVE  SumFunctionOnSet(f, {}) = 0
BY SumStep, FS_EmptySet

LEMMA SumType ==
  ASSUME NEW f, NEW S, IsFiniteSet(S), \A x \in S : f[x] \in Int
  PROVE  SumFunctionOnSet(f, S) \in Int
<1>. DEFINE Good == {s \in SUBSET S : SumFunctionOnSet(f, s) \in Int}
<1>1. ASSUME NEW s \in SUBSET S, \A u \in SUBSET s : u # s => u \in Good
      PROVE  SumFunctionOnSet(f, s) \in Int
  <2>1. IsFiniteSet(s)
    BY FS_Subset
  <2>2. CASE s = {}
    BY <2>2, SumOfNone
  <2>3. CASE s # {}
    <3>1. Pick(s) \in S /\ Rest(s) \in Good
      BY <1>1, <2>3, PickRest
    <3>. QED BY <2>1, <2>3, <3>1, SumStep
  <2>. QED BY <2>2, <2>3
<1>2. S \in Good
  <2>1. \A s \in SUBSET S : (\A u \in SUBSET s : u # s => u \in Good) => s \in Good
    BY <1>1
  <2>. HIDE DEF Good
  <2>. QED BY <2>1, SubsetInduction
<1>. QED BY <1>2

\* Any element may be taken out first.
LEMMA SumWithout ==
  ASSUME NEW f, NEW S, IsFiniteSet(S), \A x \in S : f[x] \in Int, NEW x \in S
  PROVE  SumFunctionOnSet(f, S) = f[x] + SumFunctionOnSet(f, S \ {x})
<1>. DEFINE SumOf(s) == SumFunctionOnSet(f, s)
            Good == {s \in SUBSET S : \A y \in s : SumOf(s) = f[y] + SumOf(s \ {y})}
<1>1. ASSUME NEW s \in SUBSET S, \A u \in SUBSET s : u # s => u \in Good, NEW y \in s
      PROVE  SumOf(s) = f[y] + SumOf(s \ {y})
  <2>. DEFINE p == Pick(s)
  <2>1. p \in s /\ Rest(s) = s \ {p}
    BY PickRest DEF Rest
  <2>2. IsFiniteSet(s) /\ IsFiniteSet(s \ {y}) /\ IsFiniteSet((s \ {p}) \ {y})
    <3>1. /\ s \in SUBSET S /\ s \ {y} \in SUBSET S
          /\ (s \ {p}) \ {y} \in SUBSET S
      OBVIOUS
    <3>. QED BY <3>1, FS_Subset
  <2>3. SumOf(s) = f[p] + SumOf(s \ {p})
    BY <2>1, <2>2, SumStep
  <2>4. CASE y = p
    BY <2>3, <2>4
  <2>5. CASE y # p
    <3>1. s \ {p} \in Good /\ s \ {y} \in Good
      BY <1>1, <2>1
    <3>2. SumOf(s \ {p}) = f[y] + SumOf((s \ {p}) \ {y})
      BY <2>5, <3>1
    <3>3. SumOf(s \ {y}) = f[p] + SumOf((s \ {p}) \ {y})
      <4>1. SumOf(s \ {y}) = f[p] + SumOf((s \ {y}) \ {p})
        BY <2>1, <2>5, <3>1
      <4>2. (s \ {y}) \ {p} = (s \ {p}) \ {y}
        OBVIOUS
      <4>. QED BY <4>1, <4>2
    <3>4. f[p] \in Int /\ f[y] \in Int /\ SumOf((s \ {p}) \ {y}) \in Int
      BY <2>1, <2>2, SumType
    <3>. QED BY <2>3, <3>2, <3>3, <3>4
  <2>. QED BY <2>4, <2>5
<1>2. S \in Good
  <2>1. \A s \in SUBSET S : (\A u \in SUBSET s : u # s => u \in Good) => s \in Good
    BY <1>1
  <2>. HIDE DEF Good
  <2>. QED BY <2>1, SubsetInduction
<1>. QED BY <1>2

LEMMA SumOfOne ==
  ASSUME NEW f, NEW x, f[x] \in Int
  PROVE  SumFunctionOnSet(f, {x}) = f[x]
<1>1. IsFiniteSet({x}) /\ {x} \ {x} = {}
  BY FS_Singleton
<1>. QED BY <1>1, SumWithout, SumOfNone

\* The sum depends on the values over S only.
LEMMA SumCongruence ==
  ASSUME NEW f, NEW g, NEW S, IsFiniteSet(S), \A x \in S : f[x] = g[x]
  PROVE  SumFunctionOnSet(f, S) = SumFunctionOnSet(g, S)
<1>. DEFINE Good == {s \in SUBSET S : SumFunctionOnSet(f, s) = SumFunctionOnSet(g, s)}
<1>1. ASSUME NEW s \in SUBSET S, \A u \in SUBSET s : u # s => u \in Good
      PROVE  SumFunctionOnSet(f, s) = SumFunctionOnSet(g, s)
  <2>1. IsFiniteSet(s)
    BY FS_Subset
  <2>2. CASE s = {}
    BY <2>2, SumOfNone
  <2>3. CASE s # {}
    <3>1. f[Pick(s)] = g[Pick(s)] /\ Rest(s) \in Good
      BY <1>1, <2>3, PickRest
    <3>. QED BY <2>1, <2>3, <3>1, SumStep
  <2>. QED BY <2>2, <2>3
<1>2. S \in Good
  <2>1. \A s \in SUBSET S : (\A u \in SUBSET s : u # s => u \in Good) => s \in Good
    BY <1>1
  <2>. HIDE DEF Good
  <2>. QED BY <2>1, SubsetInduction
<1>. QED BY <1>2

\* Sums add up pointwise.
LEMMA SumPlus ==
  ASSUME NEW f, NEW g, NEW h, NEW S, IsFiniteSet(S),
         \A x \in S : g[x] \in Int /\ h[x] \in Int /\ f[x] = g[x] + h[x]
  PROVE  SumFunctionOnSet(f, S) = SumFunctionOnSet(g, S) + SumFunctionOnSet(h, S)
<1>. DEFINE Good == {s \in SUBSET S : SumFunctionOnSet(f, s)
                       = SumFunctionOnSet(g, s) + SumFunctionOnSet(h, s)}
<1>1. ASSUME NEW s \in SUBSET S, \A u \in SUBSET s : u # s => u \in Good
      PROVE  SumFunctionOnSet(f, s) = SumFunctionOnSet(g, s) + SumFunctionOnSet(h, s)
  <2>1. IsFiniteSet(s)
    BY FS_Subset
  <2>2. CASE s = {}
    BY <2>2, SumOfNone
  <2>3. CASE s # {}
    <3>1. Pick(s) \in S /\ Rest(s) \in Good /\ Rest(s) \in SUBSET S /\ IsFiniteSet(Rest(s))
      BY <1>1, <2>1, <2>3, PickRest, FS_Subset
    <3>2. SumFunctionOnSet(g, Rest(s)) \in Int /\ SumFunctionOnSet(h, Rest(s)) \in Int
      <4>1. \A x \in Rest(s) : g[x] \in Int /\ h[x] \in Int
        BY <3>1
      <4>. QED BY <3>1, <4>1, SumType
    <3>3. /\ SumFunctionOnSet(f, s) = f[Pick(s)] + SumFunctionOnSet(f, Rest(s))
          /\ SumFunctionOnSet(g, s) = g[Pick(s)] + SumFunctionOnSet(g, Rest(s))
          /\ SumFunctionOnSet(h, s) = h[Pick(s)] + SumFunctionOnSet(h, Rest(s))
      BY <2>1, <2>3, SumStep
    <3>. QED BY <3>1, <3>2, <3>3
  <2>. QED BY <2>2, <2>3
<1>2. S \in Good
  <2>1. \A s \in SUBSET S : (\A u \in SUBSET s : u # s => u \in Good) => s \in Good
    BY <1>1
  <2>. HIDE DEF Good
  <2>. QED BY <2>1, SubsetInduction
<1>. QED BY <1>2

LEMMA SumOfZeros ==
  ASSUME NEW f, NEW S, IsFiniteSet(S), \A x \in S : f[x] = 0
  PROVE  SumFunctionOnSet(f, S) = 0
<1>1. \A x \in S : f[x] \in Int /\ f[x] = f[x] + f[x]
  OBVIOUS
<1>2. SumFunctionOnSet(f, S) = SumFunctionOnSet(f, S) + SumFunctionOnSet(f, S)
  BY <1>1, SumPlus
<1>3. SumFunctionOnSet(f, S) \in Int
  BY <1>1, SumType, Zenon
<1>4. \A a \in Int : a = a + a => a = 0
  OBVIOUS
<1>. QED BY <1>2, <1>3, <1>4, Zenon

\* Sums of naturals are natural, and at least each of their terms.
LEMMA SumOfNaturals ==
  ASSUME NEW f, NEW S, IsFiniteSet(S), \A x \in S : f[x] \in Nat
  PROVE  /\ SumFunctionOnSet(f, S) \in Nat
         /\ \A x \in S : f[x] <= SumFunctionOnSet(f, S)
<1>. DEFINE Good == {s \in SUBSET S : SumFunctionOnSet(f, s) \in Nat}
<1>1. ASSUME NEW s \in SUBSET S, \A u \in SUBSET s : u # s => u \in Good
      PROVE  SumFunctionOnSet(f, s) \in Nat
  <2>1. IsFiniteSet(s)
    BY FS_Subset
  <2>2. CASE s = {}
    BY <2>2, SumOfNone
  <2>3. CASE s # {}
    <3>1. f[Pick(s)] \in Nat /\ Rest(s) \in Good
      BY <1>1, <2>3, PickRest
    <3>. QED BY <2>1, <2>3, <3>1, SumStep
  <2>. QED BY <2>2, <2>3
<1>2. \A s \in SUBSET S : s \in Good
  <2>1. \A s \in SUBSET S : (\A u \in SUBSET s : u # s => u \in Good) => s \in Good
    BY <1>1
  <2>. HIDE DEF Good
  <2>. QED BY <2>1, SubsetInduction
<1>3. ASSUME NEW x \in S PROVE f[x] <= SumFunctionOnSet(f, S)
  <2>1. SumFunctionOnSet(f, S \ {x}) \in Nat
    BY <1>2
  <2>2. SumFunctionOnSet(f, S) = f[x] + SumFunctionOnSet(f, S \ {x})
    BY SumWithout
  <2>. QED BY <2>1, <2>2
<1>. QED BY <1>2, <1>3

\* A sum of numbers none of which is positive is not positive.
LEMMA SumOfNonPositive ==
  ASSUME NEW f, NEW S, IsFiniteSet(S), \A x \in S : f[x] \in Int /\ f[x] <= 0
  PROVE  SumFunctionOnSet(f, S) <= 0
<1>. DEFINE minus == [x \in S |-> -f[x]]
            zero == [x \in S |-> 0]
<1>1. \A x \in S : minus[x] = -f[x] /\ zero[x] = 0
  OBVIOUS
<1>. HIDE DEF minus, zero
<1>2. \A x \in S : f[x] \in Int /\ minus[x] \in Int /\ zero[x] = f[x] + minus[x]
  BY <1>1
<1>3. \A x \in S : minus[x] \in Nat
  BY <1>1
<1>4. SumFunctionOnSet(zero, S) = SumFunctionOnSet(f, S) + SumFunctionOnSet(minus, S)
  BY <1>2, SumPlus
<1>5. SumFunctionOnSet(zero, S) = 0
  BY <1>1, SumOfZeros
<1>6. SumFunctionOnSet(minus, S) \in Nat
  BY <1>3, SumOfNaturals
<1>7. SumFunctionOnSet(f, S) \in Int
  BY <1>2, SumType
<1>. QED BY <1>4, <1>5, <1>6, <1>7

\* The sum over a set that falls into two parts.
LEMMA SumUnion ==
  ASSUME NEW f, NEW S, NEW T, IsFiniteSet(S), IsFiniteSet(T), S \cap T = {},
         \A x \in S \cup T : f[x] \in Int
  PROVE  SumFunctionOnSet(f, S \cup T) = SumFunctionOnSet(f, S) + SumFunctionOnSet(f, T)
<1>. DEFINE Good == {s \in SUBSET S : SumFunctionOnSet(f, s \cup T)
                       = SumFunctionOnSet(f, s) + SumFunctionOnSet(f, T)}
<1>1. ASSUME NEW s \in SUBSET S, \A u \in SUBSET s : u # s => u \in Good
      PROVE  SumFunctionOnSet(f, s \cup T) = SumFunctionOnSet(f, s) + SumFunctionOnSet(f, T)
  <2>1. IsFiniteSet(s) /\ IsFiniteSet(s \cup T)
    BY FS_Subset, FS_Union
  <2>2. SumFunctionOnSet(f, T) \in Int
    BY SumType
  <2>3. CASE s = {}
    BY <2>2, <2>3, SumOfNone
  <2>4. CASE s # {}
    <3>. DEFINE x == Pick(s)
    <3>1. x \in s /\ s \ {x} \in Good
      BY <1>1, <2>4, PickRest DEF Rest
    <3>2. (s \cup T) \ {x} = (s \ {x}) \cup T
      BY <3>1
    <3>3. SumFunctionOnSet(f, s \cup T) = f[x] + SumFunctionOnSet(f, (s \ {x}) \cup T)
      BY <2>1, <3>1, <3>2, SumWithout
    <3>4. SumFunctionOnSet(f, s) = f[x] + SumFunctionOnSet(f, s \ {x})
      BY <2>1, <3>1, SumWithout
    <3>5. f[x] \in Int /\ SumFunctionOnSet(f, s \ {x}) \in Int
      <4>1. IsFiniteSet(s \ {x})
        BY <2>1, FS_RemoveElement
      <4>. QED BY <3>1, <4>1, SumType
    <3>. QED BY <2>2, <3>1, <3>3, <3>4, <3>5
  <2>. QED BY <2>3, <2>4
<1>2. S \in Good
  <2>1. \A s \in SUBSET S : (\A u \in SUBSET s : u # s => u \in Good) => s \in Good
    BY <1>1
  <2>. HIDE DEF Good
  <2>. QED BY <2>1, SubsetInduction
<1>. QED BY <1>2

\* Terms that are 0 may be left out.
LEMMA SumOnPart ==
  ASSUME NEW f, NEW S, IsFiniteSet(S), \A x \in S : f[x] \in Int,
         NEW D, \A x \in S \ D : f[x] = 0
  PROVE  SumFunctionOnSet(f, S) = SumFunctionOnSet(f, S \cap D)
<1>1. /\ IsFiniteSet(S \cap D) /\ IsFiniteSet(S \ D)
      /\ (S \cap D) \cap (S \ D) = {} /\ (S \cap D) \cup (S \ D) = S
  BY FS_Intersection, FS_Difference
<1>2. SumFunctionOnSet(f, S) = SumFunctionOnSet(f, S \cap D) + SumFunctionOnSet(f, S \ D)
  <2>1. \A x \in (S \cap D) \cup (S \ D) : f[x] \in Int
    BY <1>1
  <2>2. SumFunctionOnSet(f, (S \cap D) \cup (S \ D))
          = SumFunctionOnSet(f, S \cap D) + SumFunctionOnSet(f, S \ D)
    BY <1>1, <2>1, SumUnion
  <2>. QED BY <1>1, <2>2
<1>3. SumFunctionOnSet(f, S \ D) = 0
  BY <1>1, SumOfZeros
<1>4. SumFunctionOnSet(f, S \cap D) \in Int
  BY <1>1, SumType
<1>. QED BY <1>2, <1>3, <1>4

\* One term changes.
LEMMA SumChange ==
  ASSUME NEW f, NEW g, NEW S, IsFiniteSet(S),
         \A y \in S : f[y] \in Int /\ g[y] \in Int,
         NEW x \in S, \A y \in S \ {x} : g[y] = f[y]
  PROVE  SumFunctionOnSet(g, S) = SumFunctionOnSet(f, S) + (g[x] - f[x])
<1>1. IsFiniteSet(S \ {x})
  BY FS_RemoveElement
<1>2. SumFunctionOnSet(g, S \ {x}) = SumFunctionOnSet(f, S \ {x})
  BY <1>1, SumCongruence
<1>3. SumFunctionOnSet(f, S \ {x}) \in Int
  BY <1>1, SumType
<1>4. /\ SumFunctionOnSet(f, S) = f[x] + SumFunctionOnSet(f, S \ {x})
      /\ SumFunctionOnSet(g, S) = g[x] + SumFunctionOnSet(g, S \ {x})
  BY SumWithout
<1>. QED BY <1>2, <1>3, <1>4

\* Terms may be renamed one to one.
LEMMA SumRenamed ==
  ASSUME NEW f, NEW S, IsFiniteSet(S), \A x \in S : f[x] \in Int,
         NEW b, \A x, y \in S : b[x] = b[y] => x = y,
         NEW g, \A x \in S : g[b[x]] = f[x]
  PROVE  SumFunctionOnSet(g, {b[x] : x \in S}) = SumFunctionOnSet(f, S)
<1>. DEFINE Image(s) == {b[x] : x \in s}
            Good == {s \in SUBSET S : SumFunctionOnSet(g, Image(s)) = SumFunctionOnSet(f, s)}
<1>1. ASSUME NEW s \in SUBSET S, \A u \in SUBSET s : u # s => u \in Good
      PROVE  SumFunctionOnSet(g, Image(s)) = SumFunctionOnSet(f, s)
  <2>1. IsFiniteSet(s)
    BY FS_Subset
  <2>2. IsFiniteSet(Image(s))
    <3>1. [x \in s |-> b[x]] \in Surjection(s, Image(s))
      BY DEF Surjection
    <3>. HIDE DEF Image
    <3>. QED BY <2>1, <3>1, FS_Surjection
  <2>3. CASE s = {}
    <3>1. Image(s) = {}
      BY <2>3
    <3>. QED BY <2>3, <3>1, SumOfNone
  <2>4. CASE s # {}
    <3>. DEFINE x == Pick(s)
    <3>1. x \in s /\ s \ {x} \in Good
      BY <1>1, <2>4, PickRest DEF Rest
    <3>2. /\ b[x] \in Image(s) /\ Image(s) \ {b[x]} = Image(s \ {x})
          /\ \A y \in Image(s) : g[y] \in Int
          /\ g[b[x]] = f[x]
      BY <3>1
    <3>3. SumFunctionOnSet(g, Image(s)) = f[x] + SumFunctionOnSet(g, Image(s \ {x}))
      <4>. HIDE DEF Image, x, Good
      <4>1. SumFunctionOnSet(g, Image(s)) = g[b[x]] + SumFunctionOnSet(g, Image(s) \ {b[x]})
        BY <2>2, <3>2, SumWithout
      <4>. QED BY <3>2, <4>1
    <3>4. SumFunctionOnSet(f, s) = f[x] + SumFunctionOnSet(f, s \ {x})
      BY <2>1, <3>1, SumWithout
    <3>. QED BY <3>1, <3>3, <3>4
  <2>. QED BY <2>3, <2>4
<1>2. S \in Good
  <2>1. \A s \in SUBSET S : (\A u \in SUBSET s : u # s => u \in Good) => s \in Good
    BY <1>1
  <2>. HIDE DEF Good
  <2>. QED BY <2>1, SubsetInduction
<1>. QED BY <1>2

\* A sum may be taken class by class: F[p] is the sum over the elements whose
\* class is p.
LEMMA SumByClass ==
  ASSUME NEW P, IsFiniteSet(P), NEW S, IsFiniteSet(S),
         NEW f, \A x \in S : f[x] \in Int,
         NEW class, \A x \in S : class[x] \in P,
         NEW part, \A p \in P : part[p] \subseteq S
                               /\ \A x \in S : x \in part[p] <=> class[x] = p,
         NEW F, \A p \in P : F[p] = SumFunctionOnSet(f, part[p])
  PROVE  SumFunctionOnSet(F, P) = SumFunctionOnSet(f, S)
<1>. DEFINE In(q) == {x \in S : class[x] \in q}
            Good == {q \in SUBSET P : SumFunctionOnSet(F, q) = SumFunctionOnSet(f, In(q))}
<1>1. ASSUME NEW q \in SUBSET P, \A u \in SUBSET q : u # q => u \in Good
      PROVE  SumFunctionOnSet(F, q) = SumFunctionOnSet(f, In(q))
  <2>1. IsFiniteSet(q)
    BY FS_Subset
  <2>2. CASE q = {}
    <3>1. In(q) = {}
      BY <2>2
    <3>. QED BY <2>2, <3>1, SumOfNone
  <2>3. CASE q # {}
    <3>. DEFINE p == Pick(q)
                Here == {x \in S : class[x] = p}
    <3>1. p \in q /\ Rest(q) = q \ {p} /\ q \ {p} \in Good
      BY <1>1, <2>3, PickRest DEF Rest
    <3>2. /\ In(q) = Here \cup In(q \ {p}) /\ Here \cap In(q \ {p}) = {}
          /\ Here \in SUBSET S /\ In(q \ {p}) \in SUBSET S
      BY <3>1
    <3>3. IsFiniteSet(Here) /\ IsFiniteSet(In(q \ {p}))
      <4>. HIDE DEF Here, In
      <4>. QED BY <3>2, FS_Subset
    <3>4. SumFunctionOnSet(f, In(q))
            = SumFunctionOnSet(f, Here) + SumFunctionOnSet(f, In(q \ {p}))
      <4>. DEFINE Others == In(q \ {p})
      <4>1. /\ In(q) = Here \cup Others /\ Here \cap Others = {}
            /\ IsFiniteSet(Here) /\ IsFiniteSet(Others)
            /\ \A x \in Here \cup Others : f[x] \in Int
        BY <3>2, <3>3
      <4>. HIDE DEF Here, Others
      <4>2. SumFunctionOnSet(f, Here \cup Others)
              = SumFunctionOnSet(f, Here) + SumFunctionOnSet(f, Others)
        BY <4>1, SumUnion
      <4>. QED BY <4>1, <4>2 DEF Others
    <3>5. SumFunctionOnSet(F, q) = F[p] + SumFunctionOnSet(F, q \ {p})
      <4>1. SumFunctionOnSet(F, q) = F[Pick(q)] + SumFunctionOnSet(F, Rest(q))
        BY <2>1, <2>3, SumStep, Zenon
      <4>. QED BY <3>1, <4>1
    <3>6. SumFunctionOnSet(F, q \ {p}) = SumFunctionOnSet(f, In(q \ {p}))
      BY <3>1
    <3>7. F[p] = SumFunctionOnSet(f, Here)
      <4>1. part[p] = Here
        BY <3>1
      <4>. QED BY <3>1, <4>1
    <3>. HIDE DEF Here, In, Good, p
    <3>. QED BY <3>4, <3>5, <3>6, <3>7
  <2>. QED BY <2>2, <2>3
<1>2. P \in Good
  <2>1. \A q \in SUBSET P : (\A u \in SUBSET q : u # q => u \in Good) => q \in Good
    BY <1>1
  <2>. HIDE DEF Good
  <2>. QED BY <2>1, SubsetInduction
<1>3. In(P) = S
  OBVIOUS
<1>. QED BY <1>2, <1>3

-----------------------------------------------------------------------------
(***************************************************************************)
(* Sums over lanes and participants.                                       *)
(***************************************************************************)
LEMMA LanesAreFinite ==
  ASSUME NEW S \in SUBSET Lanes
  PROVE  IsFiniteSet(S)
BY FinitenessAssumption, FS_Subset

LEMMA LaneSets ==
  ASSUME NEW p \in Participants, NEW t \in Tokens
  PROVE  /\ LanesFrom(p, t) \in SUBSET Lanes /\ IsFiniteSet(LanesFrom(p, t))
         /\ LanesTo(p, t) \in SUBSET Lanes /\ IsFiniteSet(LanesTo(p, t))
BY LanesAreFinite DEF LanesFrom, LanesTo

Locked == [l \in Lanes |-> lane[l].locked_balance]
Settled == [l \in Lanes |-> lane[l].settled_cumulative]

\* Sums over part of the lanes are sums of one function on all of them.
LEMMA LaneSums ==
  ASSUME NEW S \in SUBSET Lanes
  PROVE  /\ LockedOn(S) = SumFunctionOnSet(Locked, S)
         /\ SettledOn(S) = SumFunctionOnSet(Settled, S)
<1>. DEFINE locked == [l \in S |-> lane[l].locked_balance]
            settled == [l \in S |-> lane[l].settled_cumulative]
<1>1. IsFiniteSet(S)
  BY LanesAreFinite
<1>2. /\ \A l \in S : locked[l] = Locked[l]
      /\ \A l \in S : settled[l] = Settled[l]
  BY DEF Locked, Settled
<1>3. DOMAIN locked = S /\ DOMAIN settled = S
  OBVIOUS
<1>4. LockedOn(S) = SumFunctionOnSet(locked, S)
  BY <1>3 DEF LockedOn, SumFunction
<1>5. SettledOn(S) = SumFunctionOnSet(settled, S)
  BY <1>3 DEF SettledOn, SumFunction
<1>. HIDE DEF locked, settled
<1>6. SumFunctionOnSet(locked, S) = SumFunctionOnSet(Locked, S)
  BY <1>1, <1>2, SumCongruence
<1>7. SumFunctionOnSet(settled, S) = SumFunctionOnSet(Settled, S)
  BY <1>1, <1>2, SumCongruence
<1>. QED BY <1>4, <1>5, <1>6, <1>7

\* The same after a step.
LEMMA LaneSumsAfter ==
  ASSUME NEW S \in SUBSET Lanes
  PROVE  /\ LockedOn(S)' = SumFunctionOnSet(Locked', S)
         /\ SettledOn(S)' = SumFunctionOnSet(Settled', S)
<1>. DEFINE locked == [l \in S |-> lane'[l].locked_balance]
            settled == [l \in S |-> lane'[l].settled_cumulative]
<1>1. IsFiniteSet(S)
  BY LanesAreFinite
<1>2. /\ \A l \in S : locked[l] = Locked'[l]
      /\ \A l \in S : settled[l] = Settled'[l]
  BY DEF Locked, Settled
<1>3. DOMAIN locked = S /\ DOMAIN settled = S
  OBVIOUS
<1>4. LockedOn(S)' = SumFunctionOnSet(locked, S)
  BY <1>3 DEF LockedOn, SumFunction
<1>5. SettledOn(S)' = SumFunctionOnSet(settled, S)
  BY <1>3 DEF SettledOn, SumFunction
<1>. HIDE DEF locked, settled
<1>6. SumFunctionOnSet(locked, S) = SumFunctionOnSet(Locked', S)
  BY <1>1, <1>2, SumCongruence
<1>7. SumFunctionOnSet(settled, S) = SumFunctionOnSet(Settled', S)
  BY <1>1, <1>2, SumCongruence
<1>. QED BY <1>4, <1>5, <1>6, <1>7

LEMMA LaneSumTypes ==
  ASSUME TypeOK, NEW S \in SUBSET Lanes
  PROVE  /\ \A l \in S : Locked[l] \in Nat /\ Settled[l] \in Nat
         /\ LockedOn(S) \in Nat /\ SettledOn(S) \in Nat
         /\ \A l \in S : lane[l].locked_balance <= LockedOn(S)
<1>1. \A l \in S : Locked[l] \in Nat /\ Settled[l] \in Nat
  BY LaneTypes DEF Locked, Settled
<1>2. IsFiniteSet(S)
  BY LanesAreFinite
<1>3. \A l \in S : Locked[l] = lane[l].locked_balance
  BY DEF Locked
<1>. QED BY <1>1, <1>2, <1>3, LaneSums, SumOfNaturals

-----------------------------------------------------------------------------
(***************************************************************************)
(* Flow.                                                                   *)
(***************************************************************************)
CoverageGain == [l \in Lanes |-> Coverage(l)' - Coverage(l)]
SettledGain == [l \in Lanes |-> lane'[l].settled_cumulative - lane[l].settled_cumulative]

Flow(p, t) ==
  Held(p, t)' - Held(p, t) =
    (funded'[<<p, t>>] - funded[<<p, t>>])
      - SumFunctionOnSet(CoverageGain, LanesFrom(p, t))
      + SumFunctionOnSet(SettledGain, LanesTo(p, t))

Balanced(p, t) ==
  Held(p, t) + LockedOn(LanesFrom(p, t)) + SettledOn(LanesFrom(p, t))
    = funded[<<p, t>>] + SettledOn(LanesTo(p, t))

LEMMA HeldType ==
  ASSUME TypeOK, NEW p \in Participants, NEW t \in Tokens
  PROVE  /\ <<p, t>> \in Accounts
         /\ slot[<<p, t>>] \in Entry
         /\ Held(p, t) \in Nat
         /\ slot[<<p, t>>].available_balance \in Nat
         /\ slot[<<p, t>>].withdrawing_balance \in Nat
         /\ funded[<<p, t>>] \in Int
<1>1. <<p, t>> \in Accounts
  BY DEF Accounts
<1>. QED BY <1>1 DEF TypeOK, Held, Total, Entry, TokenEntry

LEMMA HeldTypeAfter ==
  ASSUME TypeOK', NEW p \in Participants, NEW t \in Tokens
  PROVE  Held(p, t)' \in Nat /\ funded'[<<p, t>>] \in Int
<1>1. <<p, t>> \in Accounts
  BY DEF Accounts
<1>. QED BY <1>1 DEF TypeOK, Held, Total, TokenEntry

\* Growth of the parts is growth of the sums.
LEMMA GainTypes ==
  ASSUME TypeOK, TypeOK', NEW S \in SUBSET Lanes
  PROVE  /\ \A l \in S : CoverageGain[l] \in Int /\ SettledGain[l] \in Int
         /\ SumFunctionOnSet(CoverageGain, S)
              = (LockedOn(S)' + SettledOn(S)') - (LockedOn(S) + SettledOn(S))
         /\ SumFunctionOnSet(SettledGain, S) = SettledOn(S)' - SettledOn(S)
         /\ SumFunctionOnSet(CoverageGain, S) \in Int
         /\ SumFunctionOnSet(SettledGain, S) \in Int
         /\ LockedOn(S)' \in Nat /\ SettledOn(S)' \in Nat
<1>. DEFINE covered == [l \in Lanes |-> Locked[l] + Settled[l]]
            coveredNow == [l \in Lanes |-> Locked'[l] + Settled'[l]]
<1>1. IsFiniteSet(S)
  BY LanesAreFinite
<1>2. /\ \A l \in S : Locked[l] \in Nat /\ Settled[l] \in Nat
      /\ \A l \in S : Locked'[l] \in Nat /\ Settled'[l] \in Nat
      /\ \A l \in S : /\ CoverageGain[l] = (Settled'[l] + Locked'[l]) - (Settled[l] + Locked[l])
                      /\ SettledGain[l] = Settled'[l] - Settled[l]
  <2>1. \A l \in S : /\ lane[l].locked_balance \in Nat
                     /\ lane[l].settled_cumulative \in Nat
                     /\ lane'[l].locked_balance \in Nat
                     /\ lane'[l].settled_cumulative \in Nat
    BY DEF TypeOK, LaneState
  <2>2. \A l \in S : /\ Locked[l] = lane[l].locked_balance
                     /\ Settled[l] = lane[l].settled_cumulative
                     /\ Locked'[l] = lane'[l].locked_balance
                     /\ Settled'[l] = lane'[l].settled_cumulative
    BY DEF Locked, Settled
  <2>3. \A l \in S :
          /\ CoverageGain[l] = (lane'[l].settled_cumulative + lane'[l].locked_balance)
                               - (lane[l].settled_cumulative + lane[l].locked_balance)
          /\ SettledGain[l] = lane'[l].settled_cumulative - lane[l].settled_cumulative
    BY DEF CoverageGain, SettledGain, Coverage
  <2>. QED BY <2>1, <2>2, <2>3
<1>3. \A l \in S : /\ covered[l] = Locked[l] + Settled[l]
                   /\ coveredNow[l] = Locked'[l] + Settled'[l]
                   /\ coveredNow[l] = covered[l] + CoverageGain[l]
                   /\ Settled'[l] = Settled[l] + SettledGain[l]
                   /\ CoverageGain[l] \in Int /\ SettledGain[l] \in Int
                   /\ covered[l] \in Int
  <2>1. \A l \in S : /\ covered[l] = Locked[l] + Settled[l]
                     /\ coveredNow[l] = Locked'[l] + Settled'[l]
    BY Zenon
  <2>. HIDE DEF covered, coveredNow
  <2>. QED BY <1>2, <2>1
<1>. HIDE DEF covered, coveredNow
<1>4. /\ SumFunctionOnSet(covered, S)
           = SumFunctionOnSet(Locked, S) + SumFunctionOnSet(Settled, S)
      /\ SumFunctionOnSet(coveredNow, S)
           = SumFunctionOnSet(Locked', S) + SumFunctionOnSet(Settled', S)
  <2>1. \A l \in S : Locked[l] \in Int /\ Settled[l] \in Int
    BY <1>2
  <2>2. \A l \in S : Locked'[l] \in Int /\ Settled'[l] \in Int
    BY <1>2
  <2>. QED BY <1>1, <1>3, <2>1, <2>2, SumPlus
<1>5. SumFunctionOnSet(coveredNow, S)
        = SumFunctionOnSet(covered, S) + SumFunctionOnSet(CoverageGain, S)
  BY <1>1, <1>3, SumPlus
<1>6. SumFunctionOnSet(Settled', S)
        = SumFunctionOnSet(Settled, S) + SumFunctionOnSet(SettledGain, S)
  <2>1. \A l \in S : Settled[l] \in Int
    BY <1>2
  <2>. QED BY <1>1, <1>3, <2>1, SumPlus
<1>7. /\ SumFunctionOnSet(CoverageGain, S) \in Int
      /\ SumFunctionOnSet(SettledGain, S) \in Int
  BY <1>1, <1>3, SumType
<1>8. LockedOn(S) \in Nat /\ SettledOn(S) \in Nat
  BY LaneSumTypes
<1>9. /\ LockedOn(S) = SumFunctionOnSet(Locked, S)
      /\ SettledOn(S) = SumFunctionOnSet(Settled, S)
      /\ LockedOn(S)' = SumFunctionOnSet(Locked', S)
      /\ SettledOn(S)' = SumFunctionOnSet(Settled', S)
  BY LaneSums, LaneSumsAfter
<1>10. /\ SumFunctionOnSet(Locked', S) \in Nat
       /\ SumFunctionOnSet(Settled', S) \in Nat
  BY <1>1, <1>2, SumOfNaturals
<1>. QED BY <1>3, <1>4, <1>5, <1>6, <1>7, <1>8, <1>9, <1>10

\* A step with the right flow keeps the balance.
LEMMA FlowArithmetic ==
  ASSUME NEW h \in Int, NEW k \in Int, NEW s \in Int, NEW f \in Int, NEW r \in Int,
         NEW h2 \in Int, NEW k2 \in Int, NEW s2 \in Int, NEW f2 \in Int, NEW r2 \in Int,
         h + k + s = f + r,
         h2 - h = (f2 - f) - ((k2 + s2) - (k + s)) + (r2 - r)
  PROVE  h2 + k2 + s2 = f2 + r2
OBVIOUS

LEMMA FlowKeepsBalance ==
  ASSUME TypeOK, TypeOK', NEW p \in Participants, NEW t \in Tokens,
         Balanced(p, t), Flow(p, t)
  PROVE  Balanced(p, t)'
<1>. SUFFICES ASSUME NEW from, NEW to, from = LanesFrom(p, t), to = LanesTo(p, t)
              PROVE  Balanced(p, t)'
  OBVIOUS
<1>1. from \in SUBSET Lanes /\ to \in SUBSET Lanes
  BY LaneSets
<1>2. /\ LockedOn(from) \in Nat /\ SettledOn(from) \in Nat /\ SettledOn(to) \in Nat
      /\ LockedOn(from)' \in Nat /\ SettledOn(from)' \in Nat /\ SettledOn(to)' \in Nat
      /\ Held(p, t) \in Nat /\ Held(p, t)' \in Nat
      /\ funded[<<p, t>>] \in Int /\ funded'[<<p, t>>] \in Int
  <2>1. LockedOn(from) \in Nat /\ SettledOn(from) \in Nat /\ SettledOn(to) \in Nat
    BY <1>1, LaneSumTypes
  <2>2. LockedOn(from)' \in Nat /\ SettledOn(from)' \in Nat /\ SettledOn(to)' \in Nat
    BY <1>1, GainTypes
  <2>. QED BY <2>1, <2>2, HeldType, HeldTypeAfter
<1>3. Held(p, t)' + LockedOn(from)' + SettledOn(from)'
        = funded'[<<p, t>>] + SettledOn(to)'
  <2>1. /\ SumFunctionOnSet(CoverageGain, from)
             = (LockedOn(from)' + SettledOn(from)') - (LockedOn(from) + SettledOn(from))
        /\ SumFunctionOnSet(SettledGain, to) = SettledOn(to)' - SettledOn(to)
    BY <1>1, GainTypes
  <2>2. /\ Held(p, t) + LockedOn(from) + SettledOn(from) = funded[<<p, t>>] + SettledOn(to)
        /\ Held(p, t)' - Held(p, t)
             = (funded'[<<p, t>>] - funded[<<p, t>>])
                 - SumFunctionOnSet(CoverageGain, from) + SumFunctionOnSet(SettledGain, to)
    BY DEF Flow, Balanced
  <2>3. Held(p, t)' - Held(p, t)
             = (funded'[<<p, t>>] - funded[<<p, t>>])
                 - ((LockedOn(from)' + SettledOn(from)') - (LockedOn(from) + SettledOn(from)))
                 + (SettledOn(to)' - SettledOn(to))
    BY <2>1, <2>2
  <2>4. ASSUME NEW h \in Int, h = Held(p, t), NEW h2 \in Int, h2 = Held(p, t)',
               NEW k \in Int, k = LockedOn(from), NEW k2 \in Int, k2 = LockedOn(from)',
               NEW s \in Int, s = SettledOn(from), NEW s2 \in Int, s2 = SettledOn(from)',
               NEW f \in Int, f = funded[<<p, t>>], NEW f2 \in Int, f2 = funded'[<<p, t>>],
               NEW r \in Int, r = SettledOn(to), NEW r2 \in Int, r2 = SettledOn(to)'
        PROVE  h2 + k2 + s2 = f2 + r2
    BY <2>2, <2>3, <2>4, FlowArithmetic
  <2>. QED BY <1>2, <2>4
<1>. QED BY <1>3 DEF Balanced, LanesFrom, LanesTo

-----------------------------------------------------------------------------
(***************************************************************************)
(* What the helpers on token entries add to and take from an entry.        *)
(***************************************************************************)
Blank(e) == ~e.initialized => e = EmptyEntry

LEMMA EntryTypes ==
  ASSUME NEW e \in Entry
  PROVE  /\ e.available_balance \in Nat /\ e.withdrawing_balance \in Nat
         /\ e.initialized \in BOOLEAN /\ e.withdrawal_unlock_at \in Nat
         /\ Total(e) \in Nat
BY DEF Entry, TokenEntry, Total

LEMMA CreditTotal ==
  ASSUME NEW e \in Entry, Blank(e), NEW n \in Nat
  PROVE  /\ Total(Credit(e, n)) = Total(e) + n
         /\ Credit(e, n).initialized
<1>. DEFINE f == FindOrCreate(e)
<1>1. f \in Entry /\ f.initialized
  BY DEF FindOrCreate, EmptyEntry, Entry, TokenEntry
<1>2. /\ f.available_balance = e.available_balance
      /\ f.withdrawing_balance = e.withdrawing_balance
  BY DEF FindOrCreate, EmptyEntry, Blank
<1>. HIDE DEF f
<1>3. LET m == [f EXCEPT !.available_balance = @ + n]
      IN  /\ m.available_balance = f.available_balance + n
          /\ m.withdrawing_balance = f.withdrawing_balance
          /\ m.initialized = f.initialized
  BY <1>1, Zenon DEF Entry, TokenEntry
<1>4. Credit(e, n) = [f EXCEPT !.available_balance = @ + n]
  BY DEF Credit, f
<1>. QED BY <1>1, <1>2, <1>3, <1>4, EntryTypes DEF Total

LEMMA DrainTotal ==
  ASSUME NEW e \in Entry, e.initialized, NEW n \in Nat, Total(e) >= n
  PROVE  /\ Total(Drain(e, n)) = Total(e) - n
         /\ Drain(e, n).initialized
         /\ Drain(e, n).available_balance <= e.available_balance
         /\ Drain(e, n).withdrawing_balance <= e.withdrawing_balance
         /\ Drain(e, n).withdrawing_balance < e.withdrawing_balance
              => Drain(e, n).available_balance = 0
         /\ Drain(e, n).withdrawal_unlock_at = e.withdrawal_unlock_at
         /\ Drain(e, n).withdrawal_destination = e.withdrawal_destination
<1>. DEFINE m == Lesser(e.available_balance, n)
            d == Drain(e, n)
<1>1. m \in Nat /\ m <= e.available_balance /\ m <= n /\ (m < n => m = e.available_balance)
  BY EntryTypes DEF Lesser
<1>2. /\ d.available_balance = e.available_balance - m
      /\ d.withdrawing_balance = e.withdrawing_balance - (n - m)
      /\ d.initialized = e.initialized
      /\ d.withdrawal_unlock_at = e.withdrawal_unlock_at
      /\ d.withdrawal_destination = e.withdrawal_destination
  BY Zenon DEF Drain, Entry, TokenEntry
<1>. HIDE DEF m, d
<1>3. /\ Total(d) = Total(e) - n
      /\ d.available_balance <= e.available_balance
      /\ d.withdrawing_balance <= e.withdrawing_balance
      /\ d.withdrawing_balance < e.withdrawing_balance => d.available_balance = 0
  BY <1>1, <1>2, EntryTypes DEF Total
<1>. QED BY <1>2, <1>3 DEF d

LEMMA ApplyDeltaTotal ==
  ASSUME NEW e \in Entry, Blank(e), NEW delta \in Int, CanApplyDelta(e, delta)
  PROVE  /\ Total(ApplyDelta(e, delta)) = Total(e) + delta
         /\ Blank(ApplyDelta(e, delta))
         /\ e.initialized => ApplyDelta(e, delta).initialized
<1>1. Total(e) \in Nat
  BY EntryTypes
<1>2. CASE delta = 0
  BY <1>1, <1>2 DEF ApplyDelta
<1>3. CASE delta > 0
  BY <1>3, CreditTotal DEF ApplyDelta, Blank
<1>4. CASE delta < 0
  <2>1. Total(e) >= -delta /\ -delta \in Nat /\ e.initialized
    BY <1>4 DEF CanApplyDelta
  <2>2. ApplyDelta(e, delta) = Drain(e, -delta)
    BY <1>4 DEF ApplyDelta
  <2>3. Total(Drain(e, -delta)) = Total(e) - (-delta) /\ Drain(e, -delta).initialized
    BY <2>1, DrainTotal
  <2>4. Total(e) - (-delta) = Total(e) + delta
    BY <1>1
  <2>. QED BY <2>2, <2>3, <2>4 DEF Blank
<1>. QED BY <1>2, <1>3, <1>4

LEMMA DebitTotal ==
  ASSUME NEW e \in Entry, NEW n \in Nat
  PROVE  /\ Total(DebitAvailable(e, n)) = Total(e) - n
         /\ DebitAvailable(e, n).initialized = e.initialized
<1>1. LET m == DebitAvailable(e, n)
      IN  /\ m.available_balance = e.available_balance - n
          /\ m.withdrawing_balance = e.withdrawing_balance
          /\ m.initialized = e.initialized
  BY Zenon DEF DebitAvailable, Entry, TokenEntry
<1>. QED BY <1>1, EntryTypes DEF Total

LEMMA InitiateTotal ==
  ASSUME NEW e \in Entry, NEW n \in Nat, NEW d, NEW at
  PROVE  /\ Total(InitiateWithdrawal(e, n, d, at)) = Total(e)
         /\ InitiateWithdrawal(e, n, d, at).initialized = e.initialized
<1>1. LET m == InitiateWithdrawal(e, n, d, at)
      IN  /\ m.available_balance = e.available_balance - n
          /\ m.withdrawing_balance = e.withdrawing_balance + n
          /\ m.initialized = e.initialized
  BY Zenon DEF InitiateWithdrawal, Entry, TokenEntry
<1>. QED BY <1>1, EntryTypes DEF Total

LEMMA WithdrawalTotals ==
  ASSUME NEW e \in Entry
  PROVE  /\ Total(CancelWithdrawalEntry(e)) = Total(e)
         /\ CancelWithdrawalEntry(e).initialized = e.initialized
         /\ Total(ClearWithdrawal(e)) = Total(e) - e.withdrawing_balance
         /\ ClearWithdrawal(e).initialized = e.initialized
<1>1. LET m == CancelWithdrawalEntry(e)
      IN  /\ m.available_balance = e.available_balance + e.withdrawing_balance
          /\ m.withdrawing_balance = 0
          /\ m.initialized = e.initialized
  BY Zenon DEF CancelWithdrawalEntry, ClearWithdrawal, Entry, TokenEntry
<1>2. LET m == ClearWithdrawal(e)
      IN  /\ m.available_balance = e.available_balance
          /\ m.withdrawing_balance = 0
          /\ m.initialized = e.initialized
  BY Zenon DEF ClearWithdrawal, Entry, TokenEntry
<1>. QED BY <1>1, <1>2, EntryTypes DEF Total

-----------------------------------------------------------------------------
(***************************************************************************)
(* The flow of each kind of step.                                          *)
(***************************************************************************)
\* What a step does to the entries' shape: an entry that is not in the table
\* stays blank, one that is stays.
EntryKept(a) ==
  Blank(slot'[a]) /\ (slot[a].initialized => slot'[a].initialized)

\* Lanes that do not move add nothing.
LEMMA StillLanes ==
  ASSUME TypeOK, NEW S \in SUBSET Lanes, \A l \in S : lane'[l] = lane[l]
  PROVE  /\ SumFunctionOnSet(CoverageGain, S) = 0
         /\ SumFunctionOnSet(SettledGain, S) = 0
<1>1. \A l \in S : lane[l].settled_cumulative \in Nat /\ lane[l].locked_balance \in Nat
  BY LaneTypes
<1>2. \A l \in S : CoverageGain[l] = 0 /\ SettledGain[l] = 0
  BY <1>1 DEF CoverageGain, SettledGain, Coverage
<1>. QED BY <1>2, LanesAreFinite, SumOfZeros

\* Deposits and withdrawals: the entry moves by what is paid in or out.
LEMMA PaidInOrOut ==
  ASSUME TypeOK, lane' = lane, NEW p \in Participants, NEW t \in Tokens,
         Total(slot'[<<p, t>>]) - Total(slot[<<p, t>>])
           = funded'[<<p, t>>] - funded[<<p, t>>],
         funded'[<<p, t>>] \in Int
  PROVE  Flow(p, t)
<1>1. /\ SumFunctionOnSet(CoverageGain, LanesFrom(p, t)) = 0
      /\ SumFunctionOnSet(SettledGain, LanesTo(p, t)) = 0
  BY LaneSets, StillLanes
<1>2. funded[<<p, t>>] \in Int
  BY HeldType
<1>. QED BY <1>1, <1>2 DEF Flow, Held

\* One lane's collateral comes out of, or goes back to, its payer's entry.
LEMMA MovedCollateral ==
  ASSUME TypeOK, TypeOK', funded' = funded, NEW l \in Lanes,
         \A k \in Lanes \ {l} : lane'[k] = lane[k],
         lane'[l].settled_cumulative = lane[l].settled_cumulative,
         \A a \in Accounts \ {Payer(l)} : slot'[a] = slot[a],
         Total(slot'[Payer(l)]) - Total(slot[Payer(l)])
           = lane[l].locked_balance - lane'[l].locked_balance,
         NEW p \in Participants, NEW t \in Tokens
  PROVE  Flow(p, t)
<1>. DEFINE from == LanesFrom(p, t)
            to == LanesTo(p, t)
<1>1. from \in SUBSET Lanes /\ IsFiniteSet(from) /\ to \in SUBSET Lanes /\ IsFiniteSet(to)
  BY LaneSets
<1>2. /\ lane[l].settled_cumulative \in Nat /\ lane[l].locked_balance \in Nat
      /\ lane'[l].settled_cumulative \in Nat /\ lane'[l].locked_balance \in Nat
  BY DEF TypeOK, LaneState
<1>3. /\ CoverageGain[l] = lane'[l].locked_balance - lane[l].locked_balance
      /\ SettledGain[l] = 0
  BY <1>2 DEF CoverageGain, SettledGain, Coverage
<1>4. \A k \in Lanes \ {l} : CoverageGain[k] = 0 /\ SettledGain[k] = 0
  BY LaneTypes DEF CoverageGain, SettledGain, Coverage
<1>5. SumFunctionOnSet(SettledGain, to) = 0
  BY <1>1, <1>3, <1>4, SumOfZeros
<1>6. Held(p, t) \in Nat /\ Held(p, t)' \in Nat /\ funded[<<p, t>>] \in Int
  BY HeldType, HeldTypeAfter
<1>7. CASE l \in from
  <2>1. /\ from \cap {l} = {l}
        /\ \A k \in from : CoverageGain[k] \in Int
        /\ \A k \in from \ {l} : CoverageGain[k] = 0
    BY <1>1, <1>2, <1>3, <1>4, <1>7
  <2>2. SumFunctionOnSet(CoverageGain, from) = CoverageGain[l]
    <3>1. SumFunctionOnSet(CoverageGain, from) = SumFunctionOnSet(CoverageGain, from \cap {l})
      BY <1>1, <2>1, SumOnPart
    <3>2. CoverageGain[l] \in Int
      BY <1>7, <2>1
    <3>3. SumFunctionOnSet(CoverageGain, {l}) = CoverageGain[l]
      BY <3>2, SumOfOne
    <3>. HIDE DEF from
    <3>. QED BY <2>1, <3>1, <3>3
  <2>3. Payer(l) = <<p, t>>
    BY <1>7 DEF LanesFrom, Payer
  <2>. QED BY <1>2, <1>3, <1>5, <1>6, <2>2, <2>3 DEF Flow, Held
<1>8. CASE l \notin from
  <2>1. SumFunctionOnSet(CoverageGain, from) = 0
    BY <1>1, <1>4, <1>8, SumOfZeros
  <2>2. <<p, t>> \in Accounts \ {Payer(l)}
    BY <1>8 DEF LanesFrom, Payer, Accounts
  <2>. QED BY <1>5, <1>6, <2>1, <2>2 DEF Flow, Held
<1>. QED BY <1>7, <1>8

-----------------------------------------------------------------------------
(***************************************************************************)
(* Settlements.                                                            *)
(***************************************************************************)
\* What a settlement is paid with: the lanes are of one token, and each
\* participant's net is what its lanes are owed less what they take from its
\* shared balance.
Nets(tok, targets, net) ==
  /\ \A l \in DOMAIN targets : l.token = tok
  /\ \A p \in Participants : net[p] = Net(OwedBy(targets), SharedBy(targets), p)

\* Paying such targets has the right flow.
LEMMA SettlementFlow ==
  ASSUME TypeOK, TypeOK', MissingEntriesAreBlank,
         NEW tok \in Tokens, NEW targets, NEW net \in [Participants -> Int],
         Payable(targets), Nets(tok, targets, net), ApplySettlement(tok, targets, net),
         NEW p \in Participants, NEW t \in Tokens
  PROVE  Flow(p, t) /\ EntryKept(<<p, t>>)
<1>. DEFINE D == DOMAIN targets
            from == LanesFrom(p, t)
            to == LanesTo(p, t)
<1>1. from \in SUBSET Lanes /\ IsFiniteSet(from) /\ to \in SUBSET Lanes /\ IsFiniteSet(to)
  BY LaneSets
<1>2. \A l \in Lanes \ D : CoverageGain[l] = 0 /\ SettledGain[l] = 0
  <2>1. \A l \in Lanes \ D : lane'[l] = lane[l]
    BY DEF ApplySettlement
  <2>. QED BY <2>1, LaneTypes DEF CoverageGain, SettledGain, Coverage
<1>3. ASSUME NEW l \in D
      PROVE  /\ l \in Lanes
             /\ CoverageGain[l] = SharedBy(targets)[l]
             /\ SettledGain[l] = OwedBy(targets)[l]
             /\ SharedBy(targets)[l] \in Int /\ OwedBy(targets)[l] \in Int
  <2>1. l \in Lanes /\ targets[l] \in Nat /\ Increases(l, targets[l])
    BY DEF Payable
  <2>2. /\ LockedConsumed(l, targets[l]) \in Nat
        /\ LockedConsumed(l, targets[l]) <= lane[l].locked_balance
        /\ Owed(l, targets[l]) \in Nat
        /\ SharedDebit(l, targets[l]) \in Nat
        /\ lane[l] \in Lane
        /\ lane[l].locked_balance \in Nat /\ lane[l].settled_cumulative \in Nat
    BY <2>1, SettlementAmounts, LaneTypes
  <2>3. lane'[l] = ApplyLaneSettlement(lane[l], targets[l], LockedConsumed(l, targets[l]))
    BY <2>1 DEF ApplySettlement
  <2>4. /\ lane'[l].locked_balance = lane[l].locked_balance - LockedConsumed(l, targets[l])
        /\ lane'[l].settled_cumulative = targets[l]
    BY <2>1, <2>2, <2>3, ApplyLaneSettlementType
  <2>5. /\ SharedBy(targets)[l] = SharedDebit(l, targets[l])
        /\ OwedBy(targets)[l] = Owed(l, targets[l])
    BY DEF SharedBy, OwedBy
  <2>6. /\ CoverageGain[l] = (lane'[l].settled_cumulative + lane'[l].locked_balance)
                               - (lane[l].settled_cumulative + lane[l].locked_balance)
        /\ SettledGain[l] = lane'[l].settled_cumulative - lane[l].settled_cumulative
    BY <2>1 DEF CoverageGain, SettledGain, Coverage
  <2>7. /\ SharedDebit(l, targets[l])
             = Owed(l, targets[l]) - LockedConsumed(l, targets[l])
        /\ Owed(l, targets[l]) = targets[l] - lane[l].settled_cumulative
    BY DEF SharedDebit, Owed
  <2>8. /\ SettledGain[l] = Owed(l, targets[l])
        /\ CoverageGain[l] = SharedDebit(l, targets[l])
    BY <2>1, <2>2, <2>4, <2>6, <2>7
  <2>. QED BY <2>1, <2>2, <2>5, <2>8
<1>4. \A l \in Lanes : CoverageGain[l] \in Int /\ SettledGain[l] \in Int
  BY <1>2, <1>3
<1>5. /\ SumFunctionOnSet(CoverageGain, from) = SumFunctionOnSet(CoverageGain, from \cap D)
      /\ SumFunctionOnSet(SettledGain, to) = SumFunctionOnSet(SettledGain, to \cap D)
  <2>1. /\ \A l \in from : CoverageGain[l] \in Int
        /\ \A l \in from \ D : CoverageGain[l] = 0
    BY <1>1, <1>2, <1>4
  <2>2. /\ \A l \in to : SettledGain[l] \in Int
        /\ \A l \in to \ D : SettledGain[l] = 0
    BY <1>1, <1>2, <1>4
  <2>. HIDE DEF from, to, D
  <2>. QED BY <1>1, <2>1, <2>2, SumOnPart
<1>6. /\ SumFunctionOnSet(CoverageGain, from \cap D)
           = SumFunctionOnSet(SharedBy(targets), from \cap D)
      /\ SumFunctionOnSet(SettledGain, to \cap D)
           = SumFunctionOnSet(OwedBy(targets), to \cap D)
  <2>1. IsFiniteSet(from \cap D) /\ IsFiniteSet(to \cap D)
    BY <1>1, FS_Intersection
  <2>. QED BY <1>3, <2>1, SumCongruence
<1>7. /\ SumFunctionOnSet(CoverageGain, from) \in Int
      /\ SumFunctionOnSet(SettledGain, to) \in Int
  BY <1>1, <1>4, SumType
<1>8. Held(p, t) \in Nat /\ Held(p, t)' \in Nat /\ funded[<<p, t>>] \in Int
      /\ <<p, t>> \in Accounts /\ slot[<<p, t>>] \in Entry
      /\ Blank(slot[<<p, t>>]) /\ funded' = funded
  BY HeldType, HeldTypeAfter DEF MissingEntriesAreBlank, Blank, ApplySettlement
<1>9. CASE t = tok
  <2>1. /\ from \cap D = {l \in D : l.payer = p}
        /\ to \cap D = {l \in D : l.payee = p}
    BY <1>3, <1>9 DEF LanesFrom, LanesTo, Nets
  <2>2. DOMAIN OwedBy(targets) = D /\ DOMAIN SharedBy(targets) = D
    BY DEF OwedBy, SharedBy
  <2>3. net[p] = SumFunctionOnSet(SettledGain, to) - SumFunctionOnSet(CoverageGain, from)
    BY <1>5, <1>6, <2>1, <2>2 DEF Nets, Net
  <2>4. /\ slot'[<<p, t>>] = ApplyDelta(slot[<<p, t>>], net[p])
        /\ CanApplyDelta(slot[<<p, t>>], net[p])
        /\ net[p] \in Int
    BY <1>8, <1>9 DEF ApplySettlement, CanApplySettlement
  <2>5. /\ Held(p, t)' = Held(p, t) + net[p]
        /\ EntryKept(<<p, t>>)
    BY <1>8, <2>4, ApplyDeltaTotal DEF Held, EntryKept
  <2>. QED BY <1>7, <1>8, <2>3, <2>5 DEF Flow
<1>10. CASE t # tok
  <2>1. from \cap D = {} /\ to \cap D = {}
    BY <1>10 DEF LanesFrom, LanesTo, Nets
  <2>2. slot'[<<p, t>>] = slot[<<p, t>>]
    BY <1>8, <1>10 DEF ApplySettlement
  <2>3. /\ SumFunctionOnSet(CoverageGain, from) = 0
        /\ SumFunctionOnSet(SettledGain, to) = 0
    BY <1>5, <2>1, SumOfNone
  <2>. QED BY <1>8, <2>2, <2>3 DEF Flow, Held, EntryKept
<1>. QED BY <1>9, <1>10

\* A submitter's commitment is one the lane can take.
LEMMA AcceptedCommitment ==
  ASSUME TypeOK, NEW c \in Commitments, NEW s, CommitmentAccepted(c, s)
  PROVE  /\ c.lane \in Lanes /\ c.amount \in Nat
         /\ Increases(c.lane, c.amount)
         /\ Owed(c.lane, c.amount) \in Nat
         /\ SharedDebit(c.lane, c.amount) \in Nat
<1>1. c.lane \in Lanes /\ c.amount \in Nat /\ Increases(c.lane, c.amount)
  BY CommitmentsAssumption DEF CommitmentAccepted
<1>. QED BY <1>1, SettlementAmounts

\* settle_individual moves the two nets of one lane.
LEMMA IndividualNets ==
  ASSUME TypeOK, NEW c \in Commitments, NEW s \in Keys, SettleIndividual(c, s)
  PROVE  \E tok \in Tokens, net \in [Participants -> Int] : \E targets :
           Payable(targets) /\ Nets(tok, targets, net) /\ ApplySettlement(tok, targets, net)
<1>. DEFINE L == c.lane
            targets == [k \in {L} |-> c.amount]
            net == [p \in Participants |->
                      CASE p = L.payer -> -SharedDebit(L, c.amount)
                        [] p = L.payee -> Owed(L, c.amount)
                        [] OTHER -> 0]
<1>1. CommitmentAccepted(c, s) /\ ApplySettlement(L.token, targets, net)
  BY DEF SettleIndividual, IndividualNet
<1>2. /\ L \in Lanes /\ c.amount \in Nat /\ Increases(L, c.amount)
      /\ Owed(L, c.amount) \in Nat /\ SharedDebit(L, c.amount) \in Nat
  BY <1>1, AcceptedCommitment
<1>3. L.token \in Tokens /\ L.payer # L.payee
  BY <1>2, LaneAccounts
<1>4. Payable(targets)
  BY <1>2 DEF Payable
<1>5. net \in [Participants -> Int]
  BY <1>2
<1>6. /\ DOMAIN OwedBy(targets) = {L} /\ DOMAIN SharedBy(targets) = {L}
      /\ OwedBy(targets)[L] = Owed(L, c.amount)
      /\ SharedBy(targets)[L] = SharedDebit(L, c.amount)
  BY DEF OwedBy, SharedBy
<1>7. ASSUME NEW p \in Participants
      PROVE  net[p] = Net(OwedBy(targets), SharedBy(targets), p)
  <2>. DEFINE owed == OwedBy(targets)
              shared == SharedBy(targets)
  <2>. HIDE DEF owed, shared
  <2>1. /\ DOMAIN owed = {L} /\ DOMAIN shared = {L}
        /\ owed[L] = Owed(L, c.amount) /\ shared[L] = SharedDebit(L, c.amount)
        /\ owed[L] \in Int /\ shared[L] \in Int
    BY <1>2, <1>6 DEF owed, shared
  <2>2. /\ SumFunctionOnSet(owed, {L}) = Owed(L, c.amount)
        /\ SumFunctionOnSet(shared, {L}) = SharedDebit(L, c.amount)
        /\ SumFunctionOnSet(owed, {}) = 0 /\ SumFunctionOnSet(shared, {}) = 0
    BY <2>1, SumOfOne, SumOfNone
  <2>3. /\ {l \in DOMAIN owed : l.payee = p} = IF L.payee = p THEN {L} ELSE {}
        /\ {l \in DOMAIN shared : l.payer = p} = IF L.payer = p THEN {L} ELSE {}
    BY <2>1
  <2>4. Net(owed, shared, p) =   (IF L.payee = p THEN Owed(L, c.amount) ELSE 0)
                               - (IF L.payer = p THEN SharedDebit(L, c.amount) ELSE 0)
    BY <2>2, <2>3, Zenon DEF Net
  <2>5. net[p] =   (IF L.payee = p THEN Owed(L, c.amount) ELSE 0)
                 - (IF L.payer = p THEN SharedDebit(L, c.amount) ELSE 0)
    BY <1>2, <1>3
  <2>. QED BY <2>4, <2>5 DEF owed, shared
<1>8. Nets(L.token, targets, net)
  <2>1. \A l \in DOMAIN targets : l.token = L.token
    OBVIOUS
  <2>. HIDE DEF targets, net
  <2>. QED BY <1>7, <2>1 DEF Nets
<1>. HIDE DEF targets, net
<1>. QED BY <1>1, <1>3, <1>4, <1>5, <1>8

\* settle_clearing_round computes the nets of its blocks.
LEMMA RoundNets ==
  ASSUME TypeOK, NEW r \in Rounds, SettleClearingRound(r)
  PROVE  \E tok \in Tokens, net \in [Participants -> Int] : \E targets :
           Payable(targets) /\ Nets(tok, targets, net) /\ ApplySettlement(tok, targets, net)
<1>. DEFINE net == [p \in Participants |-> RoundNet(r, p)]
<1>1. /\ \A l \in DOMAIN r.targets : Increases(l, r.targets[l])
      /\ \A p \in Participants : RoundNet(r, p) \in -MaxU64 .. MaxU64
      /\ ApplySettlement(r.token, r.targets, net)
  BY DEF SettleClearingRound
<1>2. Payable(r.targets) /\ r.token \in Tokens
  BY <1>1, RoundsAssumption DEF Payable
<1>3. net \in [Participants -> Int]
  BY <1>1, MaxU64Assumption
<1>4. Nets(r.token, r.targets, net)
  BY RoundsAssumption DEF Nets, RoundNet
<1>. HIDE DEF net
<1>. QED BY <1>1, <1>2, <1>3, <1>4

\* settle_commitment_bundle adds up what it credits to the payee, and debits
\* each payer once: payer, payee and token determine the lane.
LEMMA BundleNets ==
  ASSUME TypeOK, NEW payee \in Participants, NEW tok \in Tokens,
         NEW bundle \in SUBSET Commitments, NEW s \in Keys,
         SettleCommitmentBundle(payee, tok, bundle, s)
  PROVE  \E net \in [Participants -> Int] : \E targets :
           Payable(targets) /\ Nets(tok, targets, net) /\ ApplySettlement(tok, targets, net)
<1>. DEFINE owing == [c \in bundle |-> Owed(c.lane, c.amount)]
            total == SumFunction(owing)
            of(p) == CHOOSE c \in bundle : c.lane.payer = p
            net == [p \in Participants |->
                      CASE p = payee -> total
                        [] p # payee /\ (\E c \in bundle : c.lane.payer = p) ->
                             -SharedDebit(of(p).lane, of(p).amount)
                        [] OTHER -> 0]
            lanes == {c.lane : c \in bundle}
            on(l) == CHOOSE c \in bundle : c.lane = l
            targets == [l \in lanes |-> on(l).amount]
            owed == OwedBy(targets)
            shared == SharedBy(targets)
<1>1. /\ \A c \in bundle : c.lane.payee = payee /\ c.lane.token = tok
      /\ \A c, d \in bundle : c.lane = d.lane => c = d
      /\ \A c \in bundle : CommitmentAccepted(c, s)
      /\ total \in 0 .. MaxU64
      /\ ApplySettlement(tok, targets, net)
  BY Zenon DEF SettleCommitmentBundle
<1>2. \A c \in bundle : /\ c.lane \in Lanes /\ c.amount \in Nat
                        /\ Increases(c.lane, c.amount)
                        /\ Owed(c.lane, c.amount) \in Nat
                        /\ SharedDebit(c.lane, c.amount) \in Nat
  BY <1>1, AcceptedCommitment
<1>3. \A c \in bundle : on(c.lane) = c /\ c.lane \in lanes
  <2>1. ASSUME NEW c \in bundle PROVE on(c.lane) \in bundle /\ on(c.lane).lane = c.lane
    BY Zenon
  <2>. QED BY <1>1, <2>1
<1>4. \A p \in Participants :
        (\E c \in bundle : c.lane.payer = p) => of(p) \in bundle /\ of(p).lane.payer = p
  BY Zenon
<1>. HIDE DEF on, of
<1>5. /\ \A l \in lanes : \E c \in bundle : c.lane = l
      /\ \A c \in bundle : targets[c.lane] = c.amount
      /\ DOMAIN targets = lanes
  BY <1>3
<1>. HIDE DEF targets
<1>6. Payable(targets)
  BY <1>2, <1>5 DEF Payable
<1>7. /\ DOMAIN owed = lanes /\ DOMAIN shared = lanes
      /\ \A c \in bundle : /\ owed[c.lane] = Owed(c.lane, c.amount)
                           /\ shared[c.lane] = SharedDebit(c.lane, c.amount)
  BY <1>3, <1>5 DEF OwedBy, SharedBy
<1>. HIDE DEF owed, shared
<1>8. IsFiniteSet(bundle) /\ IsFiniteSet(lanes)
  <2>. DEFINE b == [c \in bundle |-> c.lane]
  <2>1. b \in [bundle -> Lanes] /\ \A c, d \in bundle : b[c] = b[d] => c = d
    BY <1>1, <1>2
  <2>2. b \in Injection(bundle, Lanes)
    BY <2>1 DEF Injection, IsInjective
  <2>3. IsFiniteSet(bundle)
    BY <2>2, FS_Injection, FinitenessAssumption
  <2>4. lanes \in SUBSET Lanes
    BY <1>2
  <2>. QED BY <2>3, <2>4, LanesAreFinite
<1>9. SumFunctionOnSet(owed, lanes) = total
  <2>. DEFINE b == [c \in bundle |-> c.lane]
  <2>1. /\ \A c \in bundle : owing[c] \in Int /\ owed[b[c]] = owing[c]
        /\ \A c, d \in bundle : b[c] = b[d] => c = d
        /\ {b[c] : c \in bundle} = lanes
    BY <1>1, <1>2, <1>7
  <2>2. DOMAIN owing = bundle
    OBVIOUS
  <2>. HIDE DEF b, owing, lanes
  <2>3. SumFunctionOnSet(owed, {b[c] : c \in bundle}) = SumFunctionOnSet(owing, bundle)
    BY <1>8, <2>1, SumRenamed
  <2>. QED BY <2>1, <2>2, <2>3 DEF SumFunction
<1>10. total \in Int
  BY <1>1, MaxU64Assumption
<1>. HIDE DEF total, owing
<1>11. ASSUME NEW p \in Participants
       PROVE  net[p] = Net(owed, shared, p) /\ net[p] \in Int
  <2>1. CASE p = payee
    <3>1. {l \in lanes : l.payee = p} = lanes
      BY <1>1, <2>1
    <3>2. {l \in lanes : l.payer = p} = {}
      BY <1>1, <1>2, <2>1, LaneAccounts
    <3>3. Net(owed, shared, p) = total - 0
      BY <1>7, <1>9, <3>1, <3>2, SumOfNone DEF Net
    <3>4. net[p] = total
      BY <2>1
    <3>. QED BY <1>10, <3>3, <3>4
  <2>2. CASE p # payee /\ \E c \in bundle : c.lane.payer = p
    <3>. DEFINE d == of(p)
    <3>1. d \in bundle /\ d.lane.payer = p
      BY <1>4, <2>2
    <3>. HIDE DEF d
    <3>2. {l \in lanes : l.payee = p} = {}
      BY <1>1, <2>2
    <3>3. {l \in lanes : l.payer = p} = {d.lane}
      <4>1. ASSUME NEW c \in bundle, c.lane.payer = p PROVE c.lane = d.lane
        <5>1. /\ c.lane \in [payer : Participants, payee : Participants, token : Tokens]
              /\ d.lane \in [payer : Participants, payee : Participants, token : Tokens]
          BY <1>2, <3>1, LanesAssumption
        <5>2. /\ c.lane.payer = d.lane.payer
              /\ c.lane.payee = d.lane.payee
              /\ c.lane.token = d.lane.token
          BY <1>1, <3>1, <4>1
        <5>. QED BY <5>1, <5>2
      <4>. QED BY <3>1, <4>1
    <3>4. /\ shared[d.lane] = SharedDebit(d.lane, d.amount)
          /\ shared[d.lane] \in Int
      BY <1>2, <1>7, <3>1
    <3>5. SumFunctionOnSet(shared, {d.lane}) = SharedDebit(d.lane, d.amount)
      BY <3>4, SumOfOne
    <3>6. Net(owed, shared, p) = 0 - SharedDebit(d.lane, d.amount)
      BY <1>7, <3>2, <3>3, <3>5, SumOfNone DEF Net
    <3>7. net[p] = -SharedDebit(d.lane, d.amount)
      BY <2>2 DEF d
    <3>. QED BY <3>4, <3>6, <3>7
  <2>3. CASE p # payee /\ ~\E c \in bundle : c.lane.payer = p
    <3>1. {l \in lanes : l.payee = p} = {} /\ {l \in lanes : l.payer = p} = {}
      BY <1>1, <2>3
    <3>2. Net(owed, shared, p) = 0 - 0
      BY <1>7, <3>1, SumOfNone DEF Net
    <3>3. net[p] = 0
      BY <2>3
    <3>. QED BY <3>2, <3>3
  <2>. QED BY <2>1, <2>2, <2>3
<1>12. net \in [Participants -> Int]
  <2>. DEFINE f(p) == CASE p = payee -> total
                        [] p # payee /\ (\E c \in bundle : c.lane.payer = p) ->
                             -SharedDebit(of(p).lane, of(p).amount)
                        [] OTHER -> 0
  <2>1. \A p \in Participants : f(p) \in Int
    BY <1>11
  <2>. HIDE DEF f
  <2>2. [p \in Participants |-> f(p)] \in [Participants -> Int]
    BY <2>1
  <2>. QED BY <2>2 DEF f
<1>13. Nets(tok, targets, net)
  <2>1. \A l \in DOMAIN targets : l.token = tok
    BY <1>1, <1>5
  <2>. HIDE DEF net
  <2>. QED BY <1>11, <2>1 DEF Nets, owed, shared
<1>. HIDE DEF net
<1>. QED BY <1>1, <1>6, <1>12, <1>13

LEMMA SettlementsNet ==
  ASSUME TypeOK, SettleNext
  PROVE  \E tok \in Tokens, net \in [Participants -> Int] : \E targets :
           Payable(targets) /\ Nets(tok, targets, net) /\ ApplySettlement(tok, targets, net)
BY IndividualNets, RoundNets, BundleNets DEF SettleNext

-----------------------------------------------------------------------------
(***************************************************************************)
(* Every step.                                                             *)
(***************************************************************************)
\* Collateral that appears on a lane comes from an entry that exists.
CollateralKept(l) ==
  lane'[l].locked_balance > 0 =>
    lane[l].locked_balance > 0 \/ slot'[Payer(l)].initialized

Conserves ==
  /\ \A p \in Participants, t \in Tokens : Flow(p, t)
  /\ \A a \in Accounts : EntryKept(a)
  /\ \A l \in Lanes : CollateralKept(l)

LEMMA OneLaneConserves ==
  ASSUME TypeOK, TypeOK', MissingEntriesAreBlank, funded' = funded, NEW l \in Lanes,
         \A k \in Lanes \ {l} : lane'[k] = lane[k],
         lane'[l].settled_cumulative = lane[l].settled_cumulative,
         \A a \in Accounts \ {Payer(l)} : slot'[a] = slot[a],
         Total(slot'[Payer(l)]) - Total(slot[Payer(l)])
           = lane[l].locked_balance - lane'[l].locked_balance,
         EntryKept(Payer(l)), CollateralKept(l)
  PROVE  Conserves
<1>1. ASSUME NEW p \in Participants, NEW t \in Tokens PROVE Flow(p, t)
  BY MovedCollateral
<1>2. ASSUME NEW a \in Accounts PROVE EntryKept(a)
  BY DEF EntryKept, MissingEntriesAreBlank, Blank
<1>3. ASSUME NEW k \in Lanes PROVE CollateralKept(k)
  BY DEF CollateralKept
<1>. QED BY <1>1, <1>2, <1>3 DEF Conserves

\* Opening a lane, moving its collateral and rotating its key.
LEMMA LaneNextConserves ==
  ASSUME TypeOK, TypeOK', MissingEntriesAreBlank, ClosedLanesAreBlank, LaneNext
  PROVE  Conserves
<1>1. \A n \in Amounts : n \in Nat
  BY AmountsAssumption
<1>2. \A l \in Lanes : /\ Payer(l) \in Accounts /\ lane[l] \in Lane
                       /\ slot[Payer(l)] \in Entry /\ Blank(slot[Payer(l)])
                       /\ lane[l].locked_balance \in Nat
                       /\ lane[l].settled_cumulative \in Nat
                       /\ Total(slot[Payer(l)]) \in Nat
  <2>1. \A l \in Lanes : Payer(l) \in Accounts
    BY LaneAccounts
  <2>2. \A l \in Lanes : slot[Payer(l)] \in Entry
    BY <2>1 DEF TypeOK, Entry
  <2>. QED BY <2>1, <2>2, LaneTypes, EntryTypes DEF MissingEntriesAreBlank, Blank
<1>3. ASSUME NEW l \in Lanes,
             lane' = [lane EXCEPT ![l] = lane'[l]],
             lane'[l].locked_balance = lane[l].locked_balance,
             lane'[l].settled_cumulative = lane[l].settled_cumulative,
             slot' = slot, funded' = funded
      PROVE  Conserves
  <2>1. \A k \in Lanes \ {l} : lane'[k] = lane[k]
    BY <1>3 DEF TypeOK
  <2>2. EntryKept(Payer(l)) /\ CollateralKept(l)
    BY <1>2, <1>3 DEF EntryKept, CollateralKept
  <2>3. Total(slot'[Payer(l)]) - Total(slot[Payer(l)])
          = lane[l].locked_balance - lane'[l].locked_balance
    BY <1>2, <1>3
  <2>. QED BY <1>3, <2>1, <2>2, <2>3, OneLaneConserves
<1>4. ASSUME NEW l \in Lanes, NEW k \in SignerChoices, NEW consent \in BOOLEAN,
             CreateChannel(l, consent, k)
      PROVE  Conserves
  <2>1. k \in Keys \cup {NoKey}
    BY KeysAssumption
  <2>2. lane[l].locked_balance = 0 /\ lane[l].settled_cumulative = 0
    BY <1>4 DEF CreateChannel, ClosedLanesAreBlank, UninitializedLane
  <2>3. lane'[l] = InitializeLane(k) /\ slot' = slot /\ funded' = funded
    BY <1>4 DEF CreateChannel, TypeOK, balanceVars
  <2>4. lane'[l].locked_balance = 0 /\ lane'[l].settled_cumulative = 0
    BY <2>1, <2>3, InitializeLaneType
  <2>5. lane' = [lane EXCEPT ![l] = lane'[l]]
    BY <1>4, <2>3 DEF CreateChannel
  <2>. QED BY <1>3, <2>2, <2>3, <2>4, <2>5
<1>5. ASSUME NEW l \in Lanes, NEW n \in Amounts, LockChannelFunds(l, n)
      PROVE  Conserves
  <2>1. /\ slot' = [slot EXCEPT ![Payer(l)] = DebitAvailable(@, n)]
        /\ lane' = [lane EXCEPT ![l] = AddLocked(@, n)]
        /\ funded' = funded
        /\ slot[Payer(l)].initialized /\ slot[Payer(l)].available_balance >= n
    BY <1>5 DEF LockChannelFunds, CanDebitAvailable
  <2>2. /\ lane'[l] = AddLocked(lane[l], n)
        /\ slot'[Payer(l)] = DebitAvailable(slot[Payer(l)], n)
        /\ \A k \in Lanes \ {l} : lane'[k] = lane[k]
        /\ \A a \in Accounts \ {Payer(l)} : slot'[a] = slot[a]
    BY <1>2, <2>1 DEF TypeOK
  <2>3. /\ lane'[l].locked_balance = lane[l].locked_balance + n
        /\ lane'[l].settled_cumulative = lane[l].settled_cumulative
    <3>1. n \in Nat /\ lane[l] \in Lane
      BY <1>1, <1>2
    <3>. QED BY <2>2, <3>1, AddLockedType
  <2>4. /\ Total(slot'[Payer(l)]) = Total(slot[Payer(l)]) - n
        /\ slot'[Payer(l)].initialized
    <3>1. n \in Nat /\ slot[Payer(l)] \in Entry
      BY <1>1, <1>2
    <3>. QED BY <2>1, <2>2, <3>1, DebitTotal
  <2>5. Total(slot'[Payer(l)]) - Total(slot[Payer(l)])
          = lane[l].locked_balance - lane'[l].locked_balance
    BY <1>1, <1>2, <2>3, <2>4
  <2>6. EntryKept(Payer(l)) /\ CollateralKept(l)
    BY <2>4 DEF EntryKept, CollateralKept, Blank
  <2>. QED BY <2>1, <2>2, <2>3, <2>5, <2>6, OneLaneConserves
<1>6. ASSUME NEW l \in Lanes, NEW n \in Amounts, RequestUnlock(l, n)
      PROVE  Conserves
  <2>1. lane'[l] = RequestLaneUnlock(lane[l], n, now) /\ slot' = slot /\ funded' = funded
    BY <1>6 DEF RequestUnlock, TypeOK, balanceVars
  <2>2. now \in Nat
    BY DEF TypeOK
  <2>3. /\ lane'[l].locked_balance = lane[l].locked_balance
        /\ lane'[l].settled_cumulative = lane[l].settled_cumulative
    <3>1. n \in Nat /\ lane[l] \in Lane
      BY <1>1, <1>2
    <3>. QED BY <2>1, <3>1 DEF RequestLaneUnlock, Lane, LaneState
  <2>4. lane' = [lane EXCEPT ![l] = lane'[l]]
    BY <1>6, <2>1 DEF RequestUnlock
  <2>. QED BY <1>3, <2>1, <2>3, <2>4
<1>7. ASSUME NEW l \in Lanes, ExecuteUnlock(l)
      PROVE  Conserves
  <2>. DEFINE n == ReleasedAmount(lane[l])
  <2>1. /\ slot' = [slot EXCEPT ![Payer(l)] = ApplyDelta(@, n)]
        /\ lane' = [lane EXCEPT ![l] = ExecuteLaneUnlock(@)]
        /\ funded' = funded
        /\ n > 0 => CanCredit(l.payer, l.token, n)
    BY <1>7 DEF ExecuteUnlock
  <2>2. /\ lane'[l] = ExecuteLaneUnlock(lane[l])
        /\ slot'[Payer(l)] = ApplyDelta(slot[Payer(l)], n)
        /\ \A k \in Lanes \ {l} : lane'[k] = lane[k]
        /\ \A a \in Accounts \ {Payer(l)} : slot'[a] = slot[a]
    BY <1>2, <2>1 DEF TypeOK
  <2>3. /\ n \in Nat
        /\ lane'[l].locked_balance = lane[l].locked_balance - n
        /\ lane'[l].settled_cumulative = lane[l].settled_cumulative
    BY <1>2, <2>2, ExecuteLaneUnlockType
  <2>4. CanApplyDelta(slot[Payer(l)], n)
    BY <2>1, <2>3 DEF CanCredit, CanApplyDelta, Payer
  <2>. HIDE DEF n
  <2>5. /\ Total(slot'[Payer(l)]) = Total(slot[Payer(l)]) + n
        /\ EntryKept(Payer(l))
    BY <1>2, <2>2, <2>3, <2>4, ApplyDeltaTotal DEF EntryKept
  <2>6. Total(slot'[Payer(l)]) - Total(slot[Payer(l)])
          = lane[l].locked_balance - lane'[l].locked_balance
    BY <1>2, <2>3, <2>5
  <2>7. CollateralKept(l)
    BY <1>2, <2>3 DEF CollateralKept
  <2>. QED BY <2>1, <2>2, <2>3, <2>5, <2>6, <2>7, OneLaneConserves
<1>8. ASSUME NEW l \in Lanes, NEW n \in Amounts, CooperativeUnlock(l, n)
      PROVE  Conserves
  <2>1. /\ slot' = [slot EXCEPT ![Payer(l)] = Credit(@, n)]
        /\ lane' = [lane EXCEPT ![l] = CooperativeUnlockLane(@, n)]
        /\ funded' = funded
        /\ n <= lane[l].locked_balance
    BY <1>8 DEF CooperativeUnlock
  <2>2. /\ lane'[l] = CooperativeUnlockLane(lane[l], n)
        /\ slot'[Payer(l)] = Credit(slot[Payer(l)], n)
        /\ \A k \in Lanes \ {l} : lane'[k] = lane[k]
        /\ \A a \in Accounts \ {Payer(l)} : slot'[a] = slot[a]
    BY <1>2, <2>1 DEF TypeOK
  <2>3. /\ lane'[l].locked_balance = lane[l].locked_balance - n
        /\ lane'[l].settled_cumulative = lane[l].settled_cumulative
    BY <1>1, <1>2, <2>1, <2>2, CooperativeUnlockLaneType
  <2>4. /\ Total(slot'[Payer(l)]) = Total(slot[Payer(l)]) + n
        /\ slot'[Payer(l)].initialized
    BY <1>1, <1>2, <2>2, CreditTotal
  <2>5. Total(slot'[Payer(l)]) - Total(slot[Payer(l)])
          = lane[l].locked_balance - lane'[l].locked_balance
    BY <1>1, <1>2, <2>3, <2>4
  <2>6. EntryKept(Payer(l)) /\ CollateralKept(l)
    BY <2>4 DEF EntryKept, CollateralKept, Blank
  <2>. QED BY <2>1, <2>2, <2>3, <2>5, <2>6, OneLaneConserves
<1>9. ASSUME NEW l \in Lanes, NEW k \in SignerChoices, RequestSignerUpdate(l, k)
      PROVE  Conserves
  <2>1. lane'[l] = RequestSigner(lane[l], k, now) /\ slot' = slot /\ funded' = funded
    BY <1>9 DEF RequestSignerUpdate, TypeOK, balanceVars
  <2>2. now \in Nat /\ k \in Keys \cup {NoKey}
    BY KeysAssumption DEF TypeOK
  <2>3. /\ lane'[l].locked_balance = lane[l].locked_balance
        /\ lane'[l].settled_cumulative = lane[l].settled_cumulative
    BY <1>2, <2>1, <2>2, RequestSignerType
  <2>4. lane' = [lane EXCEPT ![l] = lane'[l]]
    BY <1>9, <2>1 DEF RequestSignerUpdate
  <2>. QED BY <1>3, <2>1, <2>3, <2>4
<1>10. ASSUME NEW l \in Lanes, ExecuteSignerUpdate(l)
       PROVE  Conserves
  <2>1. lane'[l] = ExecuteSigner(lane[l]) /\ slot' = slot /\ funded' = funded
    BY <1>10 DEF ExecuteSignerUpdate, TypeOK, balanceVars
  <2>2. /\ lane'[l].locked_balance = lane[l].locked_balance
        /\ lane'[l].settled_cumulative = lane[l].settled_cumulative
    BY <1>2, <2>1, ExecuteSignerType
  <2>3. lane' = [lane EXCEPT ![l] = lane'[l]]
    BY <1>10, <2>1 DEF ExecuteSignerUpdate
  <2>. QED BY <1>3, <2>1, <2>2, <2>3
<1>. QED
  BY <1>4, <1>5, <1>6, <1>7, <1>8, <1>9, <1>10 DEF LaneNext

\* The three ways of settling.
LEMMA SettleNextConserves ==
  ASSUME TypeOK, TypeOK', MissingEntriesAreBlank, SettleNext
  PROVE  Conserves
<1>0. PICK tok \in Tokens, net \in [Participants -> Int] : \E targets :
        Payable(targets) /\ Nets(tok, targets, net) /\ ApplySettlement(tok, targets, net)
  BY SettlementsNet
<1>1. PICK targets :
        Payable(targets) /\ Nets(tok, targets, net) /\ ApplySettlement(tok, targets, net)
  BY <1>0
<1>2. ASSUME NEW p \in Participants, NEW t \in Tokens
      PROVE  Flow(p, t) /\ EntryKept(<<p, t>>)
  BY <1>1, SettlementFlow
<1>3. \A a \in Accounts : EntryKept(a)
  BY <1>2 DEF Accounts
<1>4. ASSUME NEW l \in Lanes PROVE CollateralKept(l)
  <2>1. CASE l \notin DOMAIN targets
    BY <1>1, <2>1 DEF ApplySettlement, CollateralKept
  <2>2. CASE l \in DOMAIN targets
    <3>1. targets[l] \in Nat /\ Increases(l, targets[l])
      BY <1>1, <2>2 DEF Payable
    <3>2. /\ LockedConsumed(l, targets[l]) \in Nat
          /\ LockedConsumed(l, targets[l]) <= lane[l].locked_balance
          /\ lane[l] \in Lane /\ lane[l].locked_balance \in Nat
      BY <3>1, SettlementAmounts, LaneTypes
    <3>3. lane'[l] = ApplyLaneSettlement(lane[l], targets[l], LockedConsumed(l, targets[l]))
      BY <1>1, <2>2 DEF ApplySettlement
    <3>4. lane'[l].locked_balance = lane[l].locked_balance - LockedConsumed(l, targets[l])
      BY <3>1, <3>2, <3>3, ApplyLaneSettlementType
    <3>. QED BY <3>2, <3>4 DEF CollateralKept
  <2>. QED BY <2>1, <2>2
<1>. QED BY <1>2, <1>3, <1>4 DEF Conserves

-----------------------------------------------------------------------------
(***************************************************************************)
(* The vaults.                                                             *)
(***************************************************************************)
FundedOf(t) == [p \in Participants |-> funded[<<p, t>>]]

LEMMA FundedSum ==
  ASSUME TypeOK, NEW t \in Tokens
  PROVE  /\ FundedBy(t) = SumFunctionOnSet(FundedOf(t), Participants)
         /\ FundedBy(t) \in Int
         /\ \A p \in Participants : FundedOf(t)[p] = funded[<<p, t>>]
                                    /\ FundedOf(t)[p] \in Int
<1>1. \A p \in Participants : FundedOf(t)[p] = funded[<<p, t>>] /\ FundedOf(t)[p] \in Int
  BY HeldType DEF FundedOf
<1>2. FundedBy(t) = SumFunctionOnSet(FundedOf(t), Participants)
  <2>1. DOMAIN FundedOf(t) = Participants
    BY DEF FundedOf
  <2>2. FundedBy(t) = SumFunctionOnSet(FundedOf(t), DOMAIN FundedOf(t))
    BY DEF FundedBy, SumFunction, FundedOf
  <2>. QED BY <2>1, <2>2
<1>. QED BY <1>1, <1>2, FinitenessAssumption, SumType

LEMMA FundedSumAfter ==
  ASSUME TypeOK', NEW t \in Tokens
  PROVE  /\ FundedBy(t)' = SumFunctionOnSet(FundedOf(t)', Participants)
         /\ \A p \in Participants : (FundedOf(t)')[p] = funded'[<<p, t>>]
                                    /\ (FundedOf(t)')[p] \in Int
<1>1. \A p \in Participants : (FundedOf(t)')[p] = funded'[<<p, t>>]
                               /\ (FundedOf(t)')[p] \in Int
  BY HeldTypeAfter DEF FundedOf
<1>2. DOMAIN (FundedOf(t)') = Participants
  BY DEF FundedOf
<1>3. FundedBy(t)' = SumFunctionOnSet(FundedOf(t)', DOMAIN (FundedOf(t)'))
  BY DEF FundedBy, SumFunction, FundedOf
<1>. QED BY <1>1, <1>2, <1>3

\* What is paid in by each participant adds up.
LEMMA FundedGain ==
  ASSUME TypeOK, TypeOK', NEW t \in Tokens, NEW gain,
         \A p \in Participants :
           gain[p] \in Int /\ funded'[<<p, t>>] = funded[<<p, t>>] + gain[p]
  PROVE  FundedBy(t)' = FundedBy(t) + SumFunctionOnSet(gain, Participants)
<1>. DEFINE f == FundedOf(t)
<1>. SUFFICES ASSUME NEW f2, f2 = FundedOf(t)'
              PROVE  FundedBy(t)' = FundedBy(t) + SumFunctionOnSet(gain, Participants)
  OBVIOUS
<1>1. /\ FundedBy(t) = SumFunctionOnSet(f, Participants)
      /\ FundedBy(t)' = SumFunctionOnSet(f2, Participants)
      /\ \A p \in Participants : f[p] \in Int /\ gain[p] \in Int /\ f2[p] = f[p] + gain[p]
  BY FundedSum, FundedSumAfter
<1>. HIDE DEF f
<1>2. SumFunctionOnSet(f2, Participants)
        = SumFunctionOnSet(f, Participants) + SumFunctionOnSet(gain, Participants)
  BY <1>1, FinitenessAssumption, SumPlus
<1>. QED BY <1>1, <1>2

LEMMA SameFunds ==
  ASSUME TypeOK, TypeOK', NEW t \in Tokens,
         \A p \in Participants : funded'[<<p, t>>] = funded[<<p, t>>]
  PROVE  FundedBy(t)' = FundedBy(t)
<1>. DEFINE gain == [p \in Participants |-> 0]
<1>1. \A p \in Participants : gain[p] = 0
  OBVIOUS
<1>. HIDE DEF gain
<1>2. SumFunctionOnSet(gain, Participants) = 0
  BY <1>1, FinitenessAssumption, SumOfZeros
<1>3. \A p \in Participants :
        gain[p] \in Int /\ funded'[<<p, t>>] = funded[<<p, t>>] + gain[p]
  BY <1>1, HeldType
<1>. QED BY <1>2, <1>3, FundedGain, FundedSum

LEMMA OneAccountFunds ==
  ASSUME TypeOK, TypeOK', NEW q \in Participants, NEW t \in Tokens, NEW d \in Int,
         funded'[<<q, t>>] = funded[<<q, t>>] + d,
         \A p \in Participants \ {q} : funded'[<<p, t>>] = funded[<<p, t>>]
  PROVE  FundedBy(t)' = FundedBy(t) + d
<1>. DEFINE gain == [p \in Participants |-> IF p = q THEN d ELSE 0]
<1>1. /\ \A p \in Participants : gain[p] \in Int
      /\ gain[q] = d
      /\ \A p \in Participants \ {q} : gain[p] = 0
      /\ Participants \cap {q} = {q}
  OBVIOUS
<1>. HIDE DEF gain
<1>2. SumFunctionOnSet(gain, Participants) = d
  <2>1. SumFunctionOnSet(gain, Participants) = SumFunctionOnSet(gain, {q})
    BY <1>1, FinitenessAssumption, SumOnPart
  <2>. QED BY <1>1, <2>1, SumOfOne
<1>3. \A p \in Participants :
        gain[p] \in Int /\ funded'[<<p, t>>] = funded[<<p, t>>] + gain[p]
  BY <1>1, HeldType
<1>. QED BY <1>2, <1>3, FundedGain

\* deposit_for credits its recipients, who may repeat, the total it transfers.
LEMMA CreditsAddUp ==
  ASSUME NEW k \in Nat, NEW credits \in [1 .. k -> Participants \X Amounts]
  PROVE  /\ SumFunctionOnSet([p \in Participants |-> CreditTo(credits, p)], Participants)
              = SumFunction([i \in DOMAIN credits |-> credits[i][2]])
         /\ \A p \in Participants : CreditTo(credits, p) \in Nat
         /\ \A p \in Participants \ {credits[i][1] : i \in DOMAIN credits} :
              CreditTo(credits, p) = 0
<1>. DEFINE S == 1 .. k
            f == [i \in DOMAIN credits |-> credits[i][2]]
            class == [i \in S |-> credits[i][1]]
            F == [p \in Participants |-> CreditTo(credits, p)]
<1>1. /\ DOMAIN credits = S /\ DOMAIN f = S
      /\ \A i \in S : f[i] \in Nat /\ f[i] \in Int /\ class[i] \in Participants
                      /\ class[i] = credits[i][1]
  <2>1. DOMAIN credits = S
    OBVIOUS
  <2>2. \A i \in S : credits[i] \in Participants \X Amounts
    OBVIOUS
  <2>3. \A i \in S : credits[i][1] \in Participants /\ credits[i][2] \in Amounts
    BY <2>2
  <2>. HIDE DEF S
  <2>4. /\ DOMAIN f = S
        /\ \A i \in S : f[i] = credits[i][2] /\ class[i] = credits[i][1]
    BY <2>1
  <2>. HIDE DEF f, class
  <2>5. \A i \in S : credits[i][2] \in Nat
    BY <2>3, AmountsAssumption, Zenon
  <2>6. \A i \in S : f[i] \in Nat
    BY <2>4, <2>5, Zenon
  <2>7. \A i \in S : class[i] \in Participants
    BY <2>3, <2>4, Zenon
  <2>. QED BY <2>1, <2>4, <2>6, <2>7
<1>2. IsFiniteSet(S)
  BY FS_Interval
<1>3. \A p \in Participants :
        CreditTo(credits, p) = SumFunctionOnSet(f, {i \in S : credits[i][1] = p})
  BY <1>1 DEF CreditTo
<1>. HIDE DEF f, class, S
<1>4. ASSUME NEW p \in Participants
      PROVE  /\ CreditTo(credits, p) = SumFunctionOnSet(f, {i \in S : class[i] = p})
             /\ CreditTo(credits, p) \in Nat
  <2>1. {i \in S : credits[i][1] = p} = {i \in S : class[i] = p}
    BY <1>1
  <2>2. IsFiniteSet({i \in S : class[i] = p}) /\ \A i \in {i \in S : class[i] = p} : f[i] \in Nat
    <3>1. {i \in S : class[i] = p} \in SUBSET S
      OBVIOUS
    <3>. QED BY <1>1, <1>2, <3>1, FS_Subset
  <2>3. SumFunctionOnSet(f, {i \in S : class[i] = p}) \in Nat
    BY <2>2, SumOfNaturals
  <2>. QED BY <1>3, <2>1, <2>3
<1>5. \A p \in Participants : F[p] = SumFunctionOnSet(f, {i \in S : class[i] = p})
  BY <1>4
<1>6. SumFunctionOnSet(F, Participants) = SumFunctionOnSet(f, S)
  <2>. DEFINE part == [p \in Participants |-> {i \in S : class[i] = p}]
  <2>1. \A p \in Participants : part[p] \subseteq S
                                 /\ \A i \in S : i \in part[p] <=> class[i] = p
    OBVIOUS
  <2>2. \A i \in S : f[i] \in Int
    BY <1>1
  <2>3. \A i \in S : class[i] \in Participants
    BY <1>1
  <2>4. IsFiniteSet(Participants)
    BY FinitenessAssumption
  <2>5. \A p \in Participants : F[p] = SumFunctionOnSet(f, part[p])
    BY <1>5
  <2>. HIDE DEF F, part
  <2>. QED BY <1>2, <2>1, <2>2, <2>3, <2>4, <2>5, SumByClass
<1>7. ASSUME NEW p \in Participants \ {credits[i][1] : i \in DOMAIN credits}
      PROVE  CreditTo(credits, p) = 0
  <2>1. {i \in S : credits[i][1] = p} = {}
    BY <1>1
  <2>. QED BY <1>3, <2>1, SumOfNone
<1>8. SumFunction(f) = SumFunctionOnSet(f, S)
  BY <1>1 DEF SumFunction
<1>. QED BY <1>4, <1>6, <1>7, <1>8 DEF f

\* Vaults stay funded, and within the supply.
VaultKept(t) == VaultHoldsFunds(t) => VaultHoldsFunds(t)'

LEMMA OneVaultKept ==
  ASSUME TypeOK, TypeOK', NEW q \in Participants, NEW u \in Tokens, NEW d \in Int,
         funded'[<<q, u>>] = funded[<<q, u>>] + d,
         \A a \in Accounts \ {<<q, u>>} : funded'[a] = funded[a],
         VaultHoldsFunds(u) => vault'[u] >= vault[u] + d /\ vault'[u] <= Supply[u],
         \A t \in Tokens \ {u} : vault'[t] = vault[t],
         NEW t \in Tokens
  PROVE  VaultKept(t)
<1>1. FundedBy(t) \in Int /\ vault[t] \in Nat /\ vault'[t] \in Nat /\ Supply[t] \in Nat
  BY FundedSum, SupplyAssumption DEF TypeOK
<1>2. CASE t = u
  <2>1. \A p \in Participants \ {q} : funded'[<<p, u>>] = funded[<<p, u>>]
    BY DEF Accounts
  <2>2. FundedBy(t)' = FundedBy(t) + d
    BY <1>2, <2>1, OneAccountFunds
  <2>. QED BY <1>1, <1>2, <2>2 DEF VaultKept, VaultHoldsFunds
<1>3. CASE t # u
  <2>1. \A p \in Participants : funded'[<<p, t>>] = funded[<<p, t>>]
    BY <1>3 DEF Accounts
  <2>2. FundedBy(t)' = FundedBy(t)
    BY <2>1, SameFunds
  <2>. QED BY <1>1, <1>3, <2>2 DEF VaultKept, VaultHoldsFunds
<1>. QED BY <1>2, <1>3

LEMMA StillVault ==
  ASSUME TypeOK, TypeOK', vault' = vault, funded' = funded, NEW t \in Tokens
  PROVE  VaultKept(t)
<1>1. FundedBy(t)' = FundedBy(t)
  BY SameFunds
<1>. QED BY <1>1 DEF VaultKept, VaultHoldsFunds

\* A step that moves one entry by what is paid in or out of it.
LEMMA OneEntryConserves ==
  ASSUME TypeOK, TypeOK', MissingEntriesAreBlank, lane' = lane,
         NEW b \in Accounts,
         \A a \in Accounts \ {b} : slot'[a] = slot[a] /\ funded'[a] = funded[a],
         Total(slot'[b]) - Total(slot[b]) = funded'[b] - funded[b],
         EntryKept(b)
  PROVE  Conserves
<1>1. ASSUME NEW p \in Participants, NEW t \in Tokens PROVE Flow(p, t)
  <2>1. <<p, t>> \in Accounts /\ funded'[<<p, t>>] \in Int /\ funded[<<p, t>>] \in Int
        /\ Total(slot[<<p, t>>]) \in Nat
    BY HeldType, HeldTypeAfter DEF Held
  <2>2. Total(slot'[<<p, t>>]) - Total(slot[<<p, t>>]) = funded'[<<p, t>>] - funded[<<p, t>>]
    BY <2>1
  <2>. QED BY <2>1, <2>2, PaidInOrOut
<1>2. ASSUME NEW a \in Accounts PROVE EntryKept(a)
  BY DEF EntryKept, MissingEntriesAreBlank, Blank
<1>3. ASSUME NEW l \in Lanes PROVE CollateralKept(l)
  BY DEF CollateralKept
<1>. QED BY <1>1, <1>2, <1>3 DEF Conserves

\* A step that moves no balance.
LEMMA StillEntries ==
  ASSUME TypeOK, TypeOK', MissingEntriesAreBlank,
         lane' = lane, slot' = slot, funded' = funded
  PROVE  Conserves
<1>1. ASSUME NEW p \in Participants, NEW t \in Tokens PROVE Flow(p, t)
  <2>1. funded'[<<p, t>>] \in Int /\ Total(slot[<<p, t>>]) \in Nat
    BY HeldType, HeldTypeAfter DEF Held
  <2>2. Total(slot'[<<p, t>>]) - Total(slot[<<p, t>>]) = funded'[<<p, t>>] - funded[<<p, t>>]
    BY <2>1
  <2>. QED BY <2>1, <2>2, PaidInOrOut
<1>2. ASSUME NEW a \in Accounts PROVE EntryKept(a)
  BY DEF EntryKept, MissingEntriesAreBlank, Blank
<1>3. ASSUME NEW l \in Lanes PROVE CollateralKept(l)
  BY DEF CollateralKept
<1>. QED BY <1>1, <1>2, <1>3 DEF Conserves

\* One account's entry before a step.
LEMMA AccountFacts ==
  ASSUME TypeOK, MissingEntriesAreBlank, NEW a \in Accounts
  PROVE  /\ a[1] \in Participants /\ a[2] \in Tokens /\ a = <<a[1], a[2]>>
         /\ slot[a] \in Entry /\ Blank(slot[a]) /\ Total(slot[a]) \in Nat
         /\ slot[a].withdrawing_balance \in Nat
         /\ funded[a] \in Int
<1>1. a[1] \in Participants /\ a[2] \in Tokens /\ a = <<a[1], a[2]>>
  BY DEF Accounts
<1>2. slot[a] \in Entry /\ funded[a] \in Int
  BY DEF TypeOK, Entry
<1>. QED BY <1>1, <1>2, EntryTypes DEF MissingEntriesAreBlank, Blank

\* deposit.
LEMMA DepositConserves ==
  ASSUME TypeOK, TypeOK', MissingEntriesAreBlank,
         NEW p \in Participants, NEW u \in Tokens, NEW n \in Amounts, Deposit(p, u, n)
  PROVE  Conserves /\ \A t \in Tokens : VaultKept(t)
<1>. DEFINE b == <<p, u>>
<1>1. n \in Nat /\ b \in Accounts
  BY AmountsAssumption DEF Accounts
<1>2. /\ slot' = [slot EXCEPT ![b] = Credit(@, n)]
      /\ vault' = [vault EXCEPT ![u] = @ + n]
      /\ funded' = [funded EXCEPT ![b] = @ + n]
      /\ vault[u] + n <= Supply[u]
      /\ lane' = lane
  BY DEF Deposit, laneVars
<1>. HIDE DEF b
<1>3. /\ slot'[b] = Credit(slot[b], n) /\ funded'[b] = funded[b] + n
      /\ vault'[u] = vault[u] + n
      /\ \A a \in Accounts \ {b} : slot'[a] = slot[a] /\ funded'[a] = funded[a]
      /\ \A t \in Tokens \ {u} : vault'[t] = vault[t]
  BY <1>1, <1>2 DEF TypeOK
<1>4. /\ slot[b] \in Entry /\ Blank(slot[b]) /\ Total(slot[b]) \in Nat /\ funded[b] \in Int
  BY <1>1, AccountFacts
<1>5. Total(slot'[b]) = Total(slot[b]) + n /\ EntryKept(b)
  BY <1>1, <1>3, <1>4, CreditTotal DEF EntryKept, Blank
<1>6. Total(slot'[b]) - Total(slot[b]) = funded'[b] - funded[b]
  BY <1>1, <1>3, <1>4, <1>5
<1>7. Conserves
  BY <1>1, <1>2, <1>3, <1>5, <1>6, OneEntryConserves
<1>8. ASSUME NEW t \in Tokens PROVE VaultKept(t)
  <2>1. funded'[<<p, u>>] = funded[<<p, u>>] + n
    BY <1>3 DEF b
  <2>2. \A a \in Accounts \ {<<p, u>>} : funded'[a] = funded[a]
    BY <1>3 DEF b
  <2>3. vault'[u] >= vault[u] + n /\ vault'[u] <= Supply[u]
    BY <1>1, <1>2, <1>3 DEF TypeOK
  <2>4. n \in Int
    BY <1>1
  <2>. QED BY <1>3, <2>1, <2>2, <2>3, <2>4, OneVaultKept
<1>. QED BY <1>7, <1>8

\* deposit_for.
LEMMA DepositForConserves ==
  ASSUME TypeOK, TypeOK', MissingEntriesAreBlank, NEW u \in Tokens, NEW k \in Nat,
         NEW credits \in [1 .. k -> Participants \X Amounts], DepositFor(u, credits)
  PROVE  Conserves /\ \A t \in Tokens : VaultKept(t)
<1>. DEFINE total == SumFunction([i \in DOMAIN credits |-> credits[i][2]])
            recipients == {credits[i][1] : i \in DOMAIN credits}
            gain == [p \in Participants |-> CreditTo(credits, p)]
            credited(a) == a[2] = u /\ a[1] \in recipients
<1>1. /\ total \in 1 .. MaxU64
      /\ vault[u] + total <= Supply[u]
      /\ slot' = [a \in Accounts |->
                    IF credited(a)
                    THEN Credit(slot[a], CreditTo(credits, a[1]))
                    ELSE slot[a]]
      /\ vault' = [vault EXCEPT ![u] = @ + total]
      /\ funded' = [a \in Accounts |->
                      IF credited(a)
                      THEN funded[a] + CreditTo(credits, a[1])
                      ELSE funded[a]]
      /\ lane' = lane
  BY Zenon DEF DepositFor, laneVars
<1>2. /\ SumFunctionOnSet(gain, Participants) = total
      /\ \A p \in Participants : CreditTo(credits, p) \in Nat
      /\ \A p \in Participants \ recipients : CreditTo(credits, p) = 0
  BY CreditsAddUp, Zenon
<1>3. \A p \in Participants : gain[p] = CreditTo(credits, p)
  OBVIOUS
<1>4. total \in Nat
  BY <1>1, MaxU64Assumption
<1>. HIDE DEF total, recipients, gain
<1>5. ASSUME NEW a \in Accounts
      PROVE  /\ a[2] = u => funded'[a] = funded[a] + gain[a[1]]
             /\ a[2] # u => funded'[a] = funded[a]
             /\ Total(slot'[a]) - Total(slot[a]) = funded'[a] - funded[a]
             /\ EntryKept(a)
  <2>1. /\ a[1] \in Participants /\ slot[a] \in Entry /\ Blank(slot[a])
        /\ Total(slot[a]) \in Nat /\ funded[a] \in Int
    BY AccountFacts
  <2>2. CASE credited(a)
    <3>1. /\ slot'[a] = Credit(slot[a], gain[a[1]])
          /\ funded'[a] = funded[a] + gain[a[1]]
          /\ gain[a[1]] \in Nat
      BY <1>1, <1>2, <1>3, <2>1, <2>2
    <3>2. Total(slot'[a]) = Total(slot[a]) + gain[a[1]] /\ EntryKept(a)
      BY <2>1, <3>1, CreditTotal DEF EntryKept, Blank
    <3>. QED BY <2>1, <2>2, <3>1, <3>2
  <2>3. CASE ~credited(a)
    <3>1. slot'[a] = slot[a] /\ funded'[a] = funded[a] /\ (a[2] = u => gain[a[1]] = 0)
      BY <1>1, <1>2, <1>3, <2>1, <2>3
    <3>2. EntryKept(a)
      BY <2>1, <3>1 DEF EntryKept
    <3>. QED BY <2>1, <3>1, <3>2
  <2>. QED BY <2>2, <2>3
<1>6. Conserves
  <2>1. ASSUME NEW p \in Participants, NEW t \in Tokens PROVE Flow(p, t)
    <3>1. <<p, t>> \in Accounts /\ funded'[<<p, t>>] \in Int
      BY HeldType, HeldTypeAfter
    <3>2. Total(slot'[<<p, t>>]) - Total(slot[<<p, t>>]) = funded'[<<p, t>>] - funded[<<p, t>>]
      BY <1>5, <3>1
    <3>. QED BY <1>1, <3>1, <3>2, PaidInOrOut
  <2>2. \A l \in Lanes : CollateralKept(l)
    BY <1>1 DEF CollateralKept
  <2>. QED BY <1>5, <2>1, <2>2 DEF Conserves
<1>7. ASSUME NEW t \in Tokens PROVE VaultKept(t)
  <2>1. /\ FundedBy(t) \in Int /\ vault[t] \in Nat
        /\ vault'[t] = IF t = u THEN vault[t] + total ELSE vault[t]
    BY <1>1, FundedSum DEF TypeOK
  <2>2. CASE t = u
    <3>1. \A p \in Participants :
            gain[p] \in Int /\ funded'[<<p, t>>] = funded[<<p, t>>] + gain[p]
      BY <1>2, <1>3, <1>5, <2>2 DEF Accounts
    <3>2. FundedBy(t)' = FundedBy(t) + total
      BY <1>2, <3>1, FundedGain
    <3>. QED BY <1>1, <1>4, <2>1, <2>2, <3>2 DEF VaultKept, VaultHoldsFunds
  <2>3. CASE t # u
    <3>1. \A p \in Participants : funded'[<<p, t>>] = funded[<<p, t>>]
      BY <1>5, <2>3 DEF Accounts
    <3>2. FundedBy(t)' = FundedBy(t)
      BY <3>1, SameFunds
    <3>. QED BY <2>1, <2>3, <3>2 DEF VaultKept, VaultHoldsFunds
  <2>. QED BY <2>2, <2>3
<1>. QED BY <1>6, <1>7

\* Deposits, withdrawals, policies and keys.
LEMMA OwnerNextConserves ==
  ASSUME TypeOK, TypeOK', MissingEntriesAreBlank, OwnerNext
  PROVE  Conserves /\ \A t \in Tokens : VaultKept(t)
<1>1. ASSUME NEW p \in Participants, NEW u \in Tokens, NEW n \in Amounts, Deposit(p, u, n)
      PROVE  Conserves /\ \A t \in Tokens : VaultKept(t)
  BY <1>1, DepositConserves
<1>2. ASSUME NEW u \in Tokens, NEW k \in 1 .. MaxRecipients,
             NEW credits \in [1 .. k -> Participants \X Amounts], DepositFor(u, credits)
      PROVE  Conserves /\ \A t \in Tokens : VaultKept(t)
  <2>1. k \in Nat
    BY ConfigAssumption
  <2>. QED BY <1>2, <2>1, DepositForConserves
\* Requesting and cancelling a withdrawal move between the entry's two balances.
<1>3. ASSUME NEW b \in Accounts, NEW e, slot' = [slot EXCEPT ![b] = e],
             Total(e) = Total(slot[b]), e.initialized, slot[b].initialized,
             vault' = vault, funded' = funded, lane' = lane
      PROVE  Conserves /\ \A t \in Tokens : VaultKept(t)
  <2>1. /\ slot'[b] = e /\ funded'[b] = funded[b]
        /\ \A a \in Accounts \ {b} : slot'[a] = slot[a] /\ funded'[a] = funded[a]
    BY <1>3 DEF TypeOK
  <2>2. Total(slot[b]) \in Nat /\ funded[b] \in Int
    BY AccountFacts
  <2>3. Total(slot'[b]) - Total(slot[b]) = funded'[b] - funded[b] /\ EntryKept(b)
    BY <1>3, <2>1, <2>2 DEF EntryKept, Blank
  <2>4. Conserves
    BY <1>3, <2>1, <2>3, OneEntryConserves
  <2>. QED BY <1>3, <2>4, StillVault
<1>4. ASSUME NEW b \in Accounts, NEW n \in Amounts, NEW d \in Destinations,
             RequestWithdrawal(b, n, d)
      PROVE  Conserves /\ \A t \in Tokens : VaultKept(t)
  <2>. DEFINE e == InitiateWithdrawal(slot[b], n, d, now + WithdrawalTimelock)
  <2>1. /\ slot' = [slot EXCEPT ![b] = e] /\ vault' = vault /\ funded' = funded /\ lane' = lane
        /\ slot[b].initialized
    BY <1>4 DEF RequestWithdrawal, CanInitiateWithdrawal, laneVars
  <2>2. n \in Nat /\ slot[b] \in Entry
    BY AmountsAssumption, AccountFacts
  <2>3. Total(e) = Total(slot[b]) /\ e.initialized = slot[b].initialized
    BY <2>2, InitiateTotal
  <2>. HIDE DEF e
  <2>. QED BY <1>3, <2>1, <2>3
<1>5. ASSUME NEW b \in Accounts, CancelWithdrawal(b)
      PROVE  Conserves /\ \A t \in Tokens : VaultKept(t)
  <2>. DEFINE e == CancelWithdrawalEntry(slot[b])
  <2>1. /\ slot' = [slot EXCEPT ![b] = e] /\ vault' = vault /\ funded' = funded /\ lane' = lane
        /\ slot[b].initialized
    BY <1>5 DEF CancelWithdrawal, CanCancelWithdrawal, laneVars
  <2>2. slot[b] \in Entry
    BY AccountFacts
  <2>3. Total(e) = Total(slot[b]) /\ e.initialized = slot[b].initialized
    BY <2>2, WithdrawalTotals
  <2>. HIDE DEF e
  <2>. QED BY <1>3, <2>1, <2>3
<1>6. ASSUME NEW p \in Participants, NEW new \in Policies, UpdateInboundPolicy(p, new)
      PROVE  Conserves /\ \A t \in Tokens : VaultKept(t)
  <2>1. slot' = slot /\ vault' = vault /\ funded' = funded /\ lane' = lane
    BY <1>6 DEF UpdateInboundPolicy, balanceVars, laneVars
  <2>. QED BY <2>1, StillEntries, StillVault
<1>7. ASSUME NEW p \in Participants, RegisterBlsKey(p)
      PROVE  Conserves /\ \A t \in Tokens : VaultKept(t)
  <2>1. slot' = slot /\ vault' = vault /\ funded' = funded /\ lane' = lane
    BY <1>7 DEF RegisterBlsKey, balanceVars, laneVars
  <2>. QED BY <2>1, StillEntries, StillVault
<1>. QED BY <1>1, <1>2, <1>4, <1>5, <1>6, <1>7 DEF OwnerNext

\* execute_withdrawal_timelocked: the vault pays out no more than the entry
\* loses, and less when the destination is the vault itself.
LEMMA ExecuteWithdrawalConserves ==
  ASSUME TypeOK, TypeOK', MissingEntriesAreBlank, NEW b \in Accounts, ExecuteWithdrawal(b)
  PROVE  Conserves /\ \A t \in Tokens : VaultKept(t)
<1>. DEFINE amount == slot[b].withdrawing_balance
            fee == WithdrawalFee(b[2], amount)
            paidOut == IF slot[b].withdrawal_destination = VaultAccount
                       THEN fee ELSE amount
<1>1. /\ b[1] \in Participants /\ b[2] \in Tokens /\ b = <<b[1], b[2]>>
      /\ slot[b] \in Entry /\ Total(slot[b]) \in Nat /\ amount \in Nat /\ funded[b] \in Int
  BY AccountFacts
<1>2. /\ slot' = [slot EXCEPT ![b] = ClearWithdrawal(@)]
      /\ slot[b].initialized /\ lane' = lane
  BY DEF ExecuteWithdrawal, laneVars
<1>3. /\ slot'[b] = ClearWithdrawal(slot[b])
      /\ \A a \in Accounts \ {b} : slot'[a] = slot[a]
  BY <1>2 DEF TypeOK
<1>4. Total(slot'[b]) = Total(slot[b]) - amount /\ EntryKept(b)
  BY <1>1, <1>2, <1>3, WithdrawalTotals DEF EntryKept, Blank
<1>5. CASE amount = 0 /\ UNCHANGED <<vault, funded>>
  <2>1. Total(slot'[b]) - Total(slot[b]) = funded'[b] - funded[b]
    BY <1>1, <1>4, <1>5
  <2>2. Conserves
    BY <1>2, <1>3, <1>4, <1>5, <2>1, OneEntryConserves
  <2>. QED BY <1>5, <2>2, StillVault
<1>6. CASE /\ ScaledMinFee(b[2]) \in 0 .. MaxU64
           /\ fee <= amount
           /\ vault[b[2]] >= amount
           /\ vault' = [vault EXCEPT ![b[2]] = @ - paidOut]
           /\ funded' = [funded EXCEPT ![b] = @ - amount]
  <2>1. fee \in Nat
    BY <1>1, <1>6, FeeType
  <2>. HIDE DEF fee
  <2>2. paidOut \in Nat /\ paidOut <= amount
    BY <1>1, <1>6, <2>1
  <2>. HIDE DEF paidOut, amount
  <2>3. /\ funded'[b] = funded[b] - amount
        /\ \A a \in Accounts \ {b} : funded'[a] = funded[a]
        /\ vault'[b[2]] = vault[b[2]] - paidOut
        /\ \A t \in Tokens \ {b[2]} : vault'[t] = vault[t]
    BY <1>1, <1>6 DEF TypeOK
  <2>4. Total(slot'[b]) - Total(slot[b]) = funded'[b] - funded[b]
    BY <1>1, <1>4, <2>3
  <2>5. Conserves
    BY <1>2, <1>3, <1>4, <2>3, <2>4, OneEntryConserves
  <2>6. ASSUME NEW t \in Tokens PROVE VaultKept(t)
    <3>1. -amount \in Int /\ funded'[<<b[1], b[2]>>] = funded[<<b[1], b[2]>>] + (-amount)
      BY <1>1, <2>3
    <3>2. \A a \in Accounts \ {<<b[1], b[2]>>} : funded'[a] = funded[a]
      BY <1>1, <2>3
    <3>3. VaultHoldsFunds(b[2]) =>
            vault'[b[2]] >= vault[b[2]] + (-amount) /\ vault'[b[2]] <= Supply[b[2]]
      <4>1. vault[b[2]] \in Nat /\ Supply[b[2]] \in Nat
        BY <1>1, SupplyAssumption DEF TypeOK
      <4>. QED BY <1>1, <2>2, <2>3, <4>1 DEF VaultHoldsFunds
    <3>. QED BY <1>1, <2>3, <3>1, <3>2, <3>3, OneVaultKept
  <2>. QED BY <2>5, <2>6
<1>. QED BY <1>5, <1>6 DEF ExecuteWithdrawal

\* The instructions on lanes and the settlements move no token into or out of
\* a vault.
LEMMA NextConserves ==
  ASSUME TypeOK, TypeOK', MissingEntriesAreBlank, ClosedLanesAreBlank, [Next]_vars
  PROVE  Conserves /\ \A t \in Tokens : VaultKept(t)
<1>1. CASE OwnerNext
  BY <1>1, OwnerNextConserves
<1>2. CASE LaneNext
  <2>1. vault' = vault /\ funded' = funded
    BY <1>2
    DEF LaneNext, CreateChannel, LockChannelFunds, RequestUnlock, ExecuteUnlock,
        CooperativeUnlock, RequestSignerUpdate, ExecuteSignerUpdate, balanceVars
  <2>. QED BY <1>2, <2>1, LaneNextConserves, StillVault
<1>3. CASE SettleNext
  <2>1. vault' = vault /\ funded' = funded
    BY <1>3, SettleNextApplies DEF ApplySettlement
  <2>. QED BY <1>3, <2>1, SettleNextConserves, StillVault
<1>4. CASE \E a \in Accounts : ExecuteWithdrawal(a)
  BY <1>4, ExecuteWithdrawalConserves
<1>5. CASE \/ \E c \in Commitments : SignCommitment(c)
           \/ \E r \in Rounds, p \in Participants : SignRound(r, p)
           \/ Tick
           \/ UNCHANGED vars
  <2>1. slot' = slot /\ vault' = vault /\ funded' = funded /\ lane' = lane
    BY <1>5 DEF SignCommitment, SignRound, Tick, vars, balanceVars, laneVars
  <2>. QED BY <2>1, StillEntries, StillVault
<1>. QED BY <1>1, <1>2, <1>3, <1>4, <1>5 DEF Next

-----------------------------------------------------------------------------
(***************************************************************************)
(* The invariant.                                                          *)
(***************************************************************************)
LEMMA PaymentsByAccount ==
  EveryPaymentCountsOnce <=> \A p \in Participants, t \in Tokens : Balanced(p, t)
BY DEF EveryPaymentCountsOnce, Balanced

LEMMA ConservationInit == Init => ConservationInvariant
<1>. SUFFICES ASSUME Init PROVE ConservationInvariant
  OBVIOUS
<1>0. TypeOK
  BY InitTypeOK
<1>1. \A l \in Lanes : lane[l].locked_balance = 0 /\ lane[l].settled_cumulative = 0
  BY DEF Init, UninitializedLane
<1>2. \A a \in Accounts : slot[a] = EmptyEntry /\ Total(slot[a]) = 0 /\ funded[a] = 0
  BY DEF Init, EmptyEntry, Total
<1>3. ASSUME NEW S \in SUBSET Lanes
      PROVE  LockedOn(S) = 0 /\ SettledOn(S) = 0
  <2>1. \A l \in S : Locked[l] = 0 /\ Settled[l] = 0
    BY <1>1 DEF Locked, Settled
  <2>. QED BY <2>1, LanesAreFinite, SumOfZeros, LaneSums
<1>4. ASSUME NEW p \in Participants, NEW t \in Tokens PROVE Balanced(p, t)
  <2>1. Held(p, t) = 0 /\ funded[<<p, t>>] = 0
    BY <1>2 DEF Held, Accounts
  <2>2. /\ LockedOn(LanesFrom(p, t)) = 0 /\ SettledOn(LanesFrom(p, t)) = 0
        /\ SettledOn(LanesTo(p, t)) = 0
    BY <1>3, LaneSets
  <2>. QED BY <2>1, <2>2 DEF Balanced
<1>5. ASSUME NEW t \in Tokens PROVE VaultHoldsFunds(t)
  <2>1. \A p \in Participants : FundedOf(t)[p] = 0
    BY <1>2 DEF FundedOf, Accounts
  <2>2. FundedBy(t) = 0
    BY <1>0, <2>1, FundedSum, FinitenessAssumption, SumOfZeros
  <2>3. vault[t] = 0 /\ Supply[t] \in Nat
    BY SupplyAssumption DEF Init
  <2>. QED BY <2>2, <2>3 DEF VaultHoldsFunds
<1>6. MissingEntriesAreBlank /\ CollateralHasAnEntry
  BY <1>1, <1>2 DEF MissingEntriesAreBlank, CollateralHasAnEntry
<1>. QED BY <1>4, <1>5, <1>6, PaymentsByAccount DEF ConservationInvariant

\* A step that conserves keeps the invariant.
LEMMA ConservesKeepsInvariant ==
  ASSUME TypeOK, TypeOK', Conserves,
         EveryPaymentCountsOnce, MissingEntriesAreBlank, CollateralHasAnEntry
  PROVE  /\ EveryPaymentCountsOnce'
         /\ MissingEntriesAreBlank'
         /\ CollateralHasAnEntry'
<1>1. ASSUME NEW p \in Participants, NEW t \in Tokens PROVE Balanced(p, t)'
  BY PaymentsByAccount, FlowKeepsBalance DEF Conserves
<1>2. EveryPaymentCountsOnce'
  BY <1>1 DEF EveryPaymentCountsOnce, Balanced
<1>3. MissingEntriesAreBlank'
  BY DEF MissingEntriesAreBlank, Conserves, EntryKept, Blank
<1>4. CollateralHasAnEntry'
  <2>1. \A l \in Lanes : Payer(l) \in Accounts
    BY LaneAccounts
  <2>2. \A l \in Lanes : lane[l].locked_balance \in Nat /\ lane'[l].locked_balance \in Nat
    BY DEF TypeOK, LaneState
  <2>3. \A l \in Lanes : EntryKept(Payer(l)) /\ CollateralKept(l)
    BY <2>1 DEF Conserves
  <2>. QED BY <2>1, <2>2, <2>3 DEF CollateralHasAnEntry, EntryKept, CollateralKept, Payer
<1>. QED BY <1>2, <1>3, <1>4

LEMMA ConservationNext ==
  TypeOK /\ TypeOK' /\ ClosedLanesAreBlank /\ ConservationInvariant /\ [Next]_vars
    => ConservationInvariant'
<1>. SUFFICES ASSUME TypeOK, TypeOK', ClosedLanesAreBlank, ConservationInvariant, [Next]_vars
              PROVE  ConservationInvariant'
  OBVIOUS
<1>1. Conserves /\ \A t \in Tokens : VaultKept(t)
  BY NextConserves DEF ConservationInvariant
<1>2. EveryPaymentCountsOnce' /\ MissingEntriesAreBlank' /\ CollateralHasAnEntry'
  BY <1>1, ConservesKeepsInvariant DEF ConservationInvariant
<1>3. \A t \in Tokens : VaultHoldsFunds(t)'
  BY <1>1 DEF ConservationInvariant, VaultKept
<1>. QED BY <1>2, <1>3 DEF ConservationInvariant

\* Conservation, inductively: with the types and the blank closed lanes of the
\* notice invariant, every step of every handler keeps it.
THEOREM Conservation == Spec => []ConservationInvariant
<1>1. NoticeInvariant => ClosedLanesAreBlank
  BY DEF NoticeInvariant
<1>. QED
  BY <1>1, ConservationInit, ConservationNext, TypeCorrectness, NoticeInvariance, PTL
  DEF Spec

\* Each participant holds what it paid in, less what it took out, plus what it
\* was paid, less what it paid, whatever mix of settle_individual,
\* settle_commitment_bundle and settle_clearing_round applied the payments.
THEOREM PaymentConservation == Spec => []EveryPaymentCountsOnce
<1>1. ConservationInvariant => EveryPaymentCountsOnce
  BY DEF ConservationInvariant
<1>. QED BY <1>1, Conservation, PTL

-----------------------------------------------------------------------------
(***************************************************************************)
(* The vaults back the liabilities.                                        *)
(***************************************************************************)
LanesOf(t) == {l \in Lanes : l.token = t}

\* A sum over the lanes of a token, taken payer by payer or payee by payee.
LEMMA SumsByParticipant ==
  ASSUME NEW t \in Tokens, NEW f, \A l \in Lanes : f[l] \in Int
  PROVE  /\ SumFunctionOnSet(
              [p \in Participants |-> SumFunctionOnSet(f, LanesFrom(p, t))], Participants)
              = SumFunctionOnSet(f, LanesOf(t))
         /\ SumFunctionOnSet(
              [p \in Participants |-> SumFunctionOnSet(f, LanesTo(p, t))], Participants)
              = SumFunctionOnSet(f, LanesOf(t))
<1>1. /\ IsFiniteSet(Participants)
      /\ IsFiniteSet(LanesOf(t)) /\ LanesOf(t) \in SUBSET Lanes
  BY FinitenessAssumption, LanesAreFinite DEF LanesOf
<1>2. \A l \in LanesOf(t) : f[l] \in Int
  BY <1>1
<1>3. SumFunctionOnSet(
        [p \in Participants |-> SumFunctionOnSet(f, LanesFrom(p, t))], Participants)
        = SumFunctionOnSet(f, LanesOf(t))
  <2>. DEFINE class == [l \in LanesOf(t) |-> l.payer]
              part == [p \in Participants |-> LanesFrom(p, t)]
              F == [p \in Participants |-> SumFunctionOnSet(f, LanesFrom(p, t))]
  <2>1. \A l \in LanesOf(t) : class[l] \in Participants
    BY <1>1, LaneAccounts
  <2>2. \A p \in Participants : part[p] \subseteq LanesOf(t)
                                 /\ \A l \in LanesOf(t) : l \in part[p] <=> class[l] = p
    BY DEF LanesFrom, LanesOf
  <2>3. \A p \in Participants : F[p] = SumFunctionOnSet(f, part[p])
    OBVIOUS
  <2>. HIDE DEF class, part, F
  <2>4. SumFunctionOnSet(F, Participants) = SumFunctionOnSet(f, LanesOf(t))
    BY <1>1, <1>2, <2>1, <2>2, <2>3, SumByClass
  <2>. QED BY <2>4 DEF F
<1>4. SumFunctionOnSet(
        [p \in Participants |-> SumFunctionOnSet(f, LanesTo(p, t))], Participants)
        = SumFunctionOnSet(f, LanesOf(t))
  <2>. DEFINE class == [l \in LanesOf(t) |-> l.payee]
              part == [p \in Participants |-> LanesTo(p, t)]
              F == [p \in Participants |-> SumFunctionOnSet(f, LanesTo(p, t))]
  <2>1. \A l \in LanesOf(t) : class[l] \in Participants
    BY <1>1, LaneAccounts
  <2>2. \A p \in Participants : part[p] \subseteq LanesOf(t)
                                 /\ \A l \in LanesOf(t) : l \in part[p] <=> class[l] = p
    BY DEF LanesTo, LanesOf
  <2>3. \A p \in Participants : F[p] = SumFunctionOnSet(f, part[p])
    OBVIOUS
  <2>. HIDE DEF class, part, F
  <2>4. SumFunctionOnSet(F, Participants) = SumFunctionOnSet(f, LanesOf(t))
    BY <1>1, <1>2, <2>1, <2>2, <2>3, SumByClass
  <2>. QED BY <2>4 DEF F
<1>. QED BY <1>3, <1>4

HeldOf(t) == [p \in Participants |-> Held(p, t)]

LEMMA HeldSum ==
  ASSUME TypeOK, NEW t \in Tokens
  PROVE  /\ HeldBy(t) = SumFunctionOnSet(HeldOf(t), Participants)
         /\ HeldBy(t) \in Nat
         /\ \A p \in Participants : /\ HeldOf(t)[p] = Held(p, t)
                                    /\ HeldOf(t)[p] \in Nat
                                    /\ Held(p, t) <= HeldBy(t)
<1>1. \A p \in Participants : HeldOf(t)[p] = Held(p, t) /\ HeldOf(t)[p] \in Nat
  BY HeldType DEF HeldOf
<1>2. HeldBy(t) = SumFunctionOnSet(HeldOf(t), Participants)
  <2>1. DOMAIN HeldOf(t) = Participants
    BY DEF HeldOf
  <2>2. HeldBy(t) = SumFunctionOnSet(HeldOf(t), DOMAIN HeldOf(t))
    BY DEF HeldBy, SumFunction, HeldOf
  <2>. QED BY <2>1, <2>2
<1>3. /\ SumFunctionOnSet(HeldOf(t), Participants) \in Nat
      /\ \A p \in Participants : HeldOf(t)[p] <= SumFunctionOnSet(HeldOf(t), Participants)
  BY <1>1, FinitenessAssumption, SumOfNaturals
<1>. QED BY <1>1, <1>2, <1>3

\* What all participants hold, free, withdrawing or locked, is what was paid
\* in less what was paid out: settled amounts cancel out.
LEMMA LiabilitiesAreFunded ==
  ASSUME TypeOK, EveryPaymentCountsOnce, NEW t \in Tokens
  PROVE  HeldBy(t) + LockedOn(LanesOf(t)) = FundedBy(t)
<1>. DEFINE P == Participants
            held == HeldOf(t)
            paid == FundedOf(t)
            lockedFrom == [p \in P |-> SumFunctionOnSet(Locked, LanesFrom(p, t))]
            settledFrom == [p \in P |-> SumFunctionOnSet(Settled, LanesFrom(p, t))]
            settledTo == [p \in P |-> SumFunctionOnSet(Settled, LanesTo(p, t))]
            owning == [p \in P |-> held[p] + lockedFrom[p]]
            left == [p \in P |-> owning[p] + settledFrom[p]]
            right == [p \in P |-> paid[p] + settledTo[p]]
<1>1. IsFiniteSet(P)
  BY FinitenessAssumption
<1>2. ASSUME NEW p \in P
      PROVE  /\ held[p] \in Int /\ paid[p] \in Int
             /\ lockedFrom[p] \in Int /\ settledFrom[p] \in Int /\ settledTo[p] \in Int
             /\ owning[p] = held[p] + lockedFrom[p]
             /\ left[p] = owning[p] + settledFrom[p]
             /\ right[p] = paid[p] + settledTo[p]
             /\ left[p] = right[p]
             /\ owning[p] \in Int
  <2>1. held[p] = Held(p, t) /\ held[p] \in Int /\ paid[p] = funded[<<p, t>>] /\ paid[p] \in Int
    BY HeldSum, FundedSum
  <2>2. /\ LockedOn(LanesFrom(p, t)) \in Nat /\ SettledOn(LanesFrom(p, t)) \in Nat
        /\ SettledOn(LanesTo(p, t)) \in Nat
    BY LaneSets, LaneSumTypes
  <2>3. /\ lockedFrom[p] = LockedOn(LanesFrom(p, t))
        /\ settledFrom[p] = SettledOn(LanesFrom(p, t))
        /\ settledTo[p] = SettledOn(LanesTo(p, t))
    BY LaneSets, LaneSums
  <2>4. /\ owning[p] = held[p] + lockedFrom[p]
        /\ left[p] = owning[p] + settledFrom[p]
        /\ right[p] = paid[p] + settledTo[p]
    BY Zenon
  <2>5. Balanced(p, t)
    BY PaymentsByAccount
  <2>. HIDE DEF held, paid, lockedFrom, settledFrom, settledTo, owning, left, right
  <2>6. held[p] + lockedFrom[p] + settledFrom[p] = paid[p] + settledTo[p]
    BY <2>1, <2>3, <2>5 DEF Balanced
  <2>. QED BY <2>1, <2>2, <2>3, <2>4, <2>6
<1>3. /\ \A l \in Lanes : Locked[l] \in Int
      /\ \A l \in Lanes : Settled[l] \in Int
  BY LaneSumTypes
<1>4. /\ SumFunctionOnSet(lockedFrom, P) = SumFunctionOnSet(Locked, LanesOf(t))
      /\ SumFunctionOnSet(settledFrom, P) = SumFunctionOnSet(Settled, LanesOf(t))
      /\ SumFunctionOnSet(settledTo, P) = SumFunctionOnSet(Settled, LanesOf(t))
  BY <1>3, SumsByParticipant
<1>5. LanesOf(t) \in SUBSET Lanes
  BY DEF LanesOf
<1>6. /\ LockedOn(LanesOf(t)) = SumFunctionOnSet(Locked, LanesOf(t))
      /\ SettledOn(LanesOf(t)) = SumFunctionOnSet(Settled, LanesOf(t))
      /\ LockedOn(LanesOf(t)) \in Nat /\ SettledOn(LanesOf(t)) \in Nat
  BY <1>5, LaneSums, LaneSumTypes
<1>7. /\ HeldBy(t) = SumFunctionOnSet(held, P) /\ HeldBy(t) \in Nat
      /\ FundedBy(t) = SumFunctionOnSet(paid, P) /\ FundedBy(t) \in Int
  BY HeldSum, FundedSum
<1>. HIDE DEF P, held, paid, lockedFrom, settledFrom, settledTo, owning, left, right
<1>8. SumFunctionOnSet(owning, P) = SumFunctionOnSet(held, P) + SumFunctionOnSet(lockedFrom, P)
  BY <1>1, <1>2, SumPlus
<1>9. SumFunctionOnSet(left, P) = SumFunctionOnSet(owning, P) + SumFunctionOnSet(settledFrom, P)
  BY <1>1, <1>2, SumPlus
<1>10. SumFunctionOnSet(right, P) = SumFunctionOnSet(paid, P) + SumFunctionOnSet(settledTo, P)
  BY <1>1, <1>2, SumPlus
<1>11. SumFunctionOnSet(left, P) = SumFunctionOnSet(right, P)
  BY <1>1, <1>2, SumCongruence
<1>. QED BY <1>4, <1>6, <1>7, <1>8, <1>9, <1>10, <1>11

\* What the program owes in a token is in its vault, and within the supply.
LEMMA LiabilitiesAreBacked ==
  ASSUME TypeOK, ConservationInvariant, NEW t \in Tokens
  PROVE  /\ HeldBy(t) + LockedOn(LanesOf(t)) <= vault[t]
         /\ HeldBy(t) + LockedOn(LanesOf(t)) <= MaxU64
         /\ HeldBy(t) \in Nat /\ LockedOn(LanesOf(t)) \in Nat
<1>1. HeldBy(t) + LockedOn(LanesOf(t)) = FundedBy(t)
  BY LiabilitiesAreFunded DEF ConservationInvariant
<1>2. /\ FundedBy(t) <= vault[t] /\ vault[t] <= Supply[t] /\ Supply[t] <= MaxU64
      /\ FundedBy(t) \in Int /\ vault[t] \in Nat /\ Supply[t] \in Nat /\ MaxU64 \in Nat
  BY FundedSum, SupplyAssumption, MaxU64Assumption
  DEF ConservationInvariant, VaultHoldsFunds, TypeOK
<1>3. HeldBy(t) \in Nat /\ LockedOn(LanesOf(t)) \in Nat
  <2>1. LanesOf(t) \in SUBSET Lanes
    BY DEF LanesOf
  <2>. QED BY <2>1, HeldSum, LaneSumTypes
<1>. QED BY <1>1, <1>2, <1>3

\* The vault of a token holds all available and withdrawing balances and all
\* collateral: execute_withdrawal_timelocked never finds it short.
THEOREM VaultSolvency == Spec => []VaultBacksLiabilities
<1>1. TypeOK /\ ConservationInvariant => VaultBacksLiabilities
  <2>. SUFFICES ASSUME TypeOK, ConservationInvariant, NEW t \in Tokens
                PROVE  vault[t] >= HeldBy(t) + LockedOn({l \in Lanes : l.token = t})
    BY DEF VaultBacksLiabilities
  <2>1. vault[t] \in Nat
    BY DEF TypeOK
  <2>. QED BY <2>1, LiabilitiesAreBacked DEF LanesOf
<1>. QED BY <1>1, TypeCorrectness, Conservation, PTL

-----------------------------------------------------------------------------
(***************************************************************************)
(* Locked collateral.                                                      *)
(***************************************************************************)
\* Two participants' balances and a lane's collateral fit in the vault
\* together, and so in 64 bits.
LEMMA BalanceAndCollateralFit ==
  ASSUME TypeOK, ConservationInvariant, NEW l \in Lanes, NEW p \in Participants
  PROVE  Held(p, l.token) + lane[l].locked_balance <= MaxU64
<1>1. l.token \in Tokens /\ l \in LanesOf(l.token) /\ LanesOf(l.token) \in SUBSET Lanes
  BY LaneAccounts DEF LanesOf
<1>2. /\ Held(p, l.token) \in Nat /\ Held(p, l.token) <= HeldBy(l.token)
      /\ HeldBy(l.token) \in Nat
  BY <1>1, HeldType, HeldSum
<1>3. /\ lane[l].locked_balance <= LockedOn(LanesOf(l.token))
      /\ LockedOn(LanesOf(l.token)) \in Nat
  BY <1>1, LaneSumTypes
<1>4. HeldBy(l.token) + LockedOn(LanesOf(l.token)) <= MaxU64
  BY <1>1, LiabilitiesAreBacked
<1>5. lane[l].locked_balance \in Nat /\ MaxU64 \in Nat
  BY MaxU64Assumption DEF TypeOK, LaneState
<1>. QED BY <1>2, <1>3, <1>4, <1>5

\* What collateral covers is taken from it alone.
LEMMA CoveredByCollateral ==
  ASSUME TypeOK, NEW l \in Lanes, NEW target \in Nat,
         Increases(l, target), target <= Coverage(l)
  PROVE  /\ Owed(l, target) \in Nat \ {0}
         /\ Owed(l, target) <= lane[l].locked_balance
         /\ SharedDebit(l, target) = 0
<1>1. lane[l].locked_balance \in Nat /\ lane[l].settled_cumulative \in Nat
  BY DEF TypeOK, LaneState
<1>. QED BY <1>1 DEF Increases, Coverage, Owed, SharedDebit, LockedConsumed, Lesser

\* settle_individual accepts a commitment that the lane's collateral covers: no
\* debit is left for the shared balance, and neither the payer's total nor the
\* payee's balance can overflow, because the vault holds them with the
\* collateral.
THEOREM CollateralIsCollectable == Spec => []LockedCollateralIsCollectable
<1>1. ASSUME TypeOK, ConservationInvariant, NEW c \in signed \cap Commitments,
             c.signer = lane[c.lane].authorized_signer,
             Increases(c.lane, c.amount),
             c.amount <= Coverage(c.lane),
             HasRoom(c.lane.payee, c.lane.token)
      PROVE  CanSettleIndividual(c, c.lane.payee)
  <2>. DEFINE L == c.lane
              T == c.lane.token
              owed == Owed(L, c.amount)
  <2>1. L \in Lanes /\ c.amount \in Nat
    BY CommitmentsAssumption
  <2>2. /\ L.payer \in Participants /\ L.payee \in Participants /\ T \in Tokens
        /\ L.payer # L.payee
    BY <2>1, LaneAccounts
  <2>3. owed \in Nat \ {0} /\ owed <= lane[L].locked_balance /\ SharedDebit(L, c.amount) = 0
    BY <2>1, <1>1, CoveredByCollateral
  <2>4. lane[L].locked_balance \in Nat /\ MaxU64 \in Nat
    BY <1>1, <2>1, MaxU64Assumption DEF TypeOK, LaneState
  <2>5. \A p \in Participants : /\ Held(p, T) + lane[L].locked_balance <= MaxU64
                                 /\ Held(p, T) \in Nat
                                 /\ slot[<<p, T>>].available_balance <= Held(p, T)
                                 /\ slot[<<p, T>>].available_balance \in Nat
    <3>. SUFFICES ASSUME NEW p \in Participants
                  PROVE  /\ Held(p, T) + lane[L].locked_balance <= MaxU64
                         /\ Held(p, T) \in Nat
                         /\ slot[<<p, T>>].available_balance <= Held(p, T)
                         /\ slot[<<p, T>>].available_balance \in Nat
      OBVIOUS
    <3>1. Held(p, T) + lane[L].locked_balance <= MaxU64
      BY <1>1, <2>1, BalanceAndCollateralFit
    <3>2. /\ Held(p, T) \in Nat
          /\ slot[<<p, T>>].available_balance \in Nat
          /\ slot[<<p, T>>].withdrawing_balance \in Nat
      BY <1>1, <2>2, HeldType
    <3>3. Held(p, T) = slot[<<p, T>>].available_balance + slot[<<p, T>>].withdrawing_balance
      BY DEF Held, Total
    <3>. QED BY <3>1, <3>2, <3>3
  <2>6. slot[Payer(L)].initialized
    BY <2>1, <2>3, <2>4, <1>1 DEF ConservationInvariant, CollateralHasAnEntry
  <2>7. CommitmentAccepted(c, L.payee)
    <3>1. Total(slot[Payer(L)]) = Held(L.payer, T)
      BY DEF Held, Payer
    <3>2. Held(L.payer, T) \in Nat /\ Held(L.payer, T) + lane[L].locked_balance <= MaxU64
      BY <2>2, <2>5
    <3>3. /\ Fits(lane[L].locked_balance + Held(L.payer, T))
          /\ lane[L].locked_balance + Held(L.payer, T) >= owed
      BY <2>3, <2>4, <3>2 DEF Fits
    <3>4. Affordable(L, c.amount)
      BY <2>6, <3>1, <3>3 DEF Affordable
    <3>. QED BY <1>1, <3>4 DEF CommitmentAccepted, SignedByLaneKey
  <2>8. ASSUME NEW p \in Participants
        PROVE  /\ CanApplyDelta(slot[<<p, T>>], IndividualNet(c)[p])
               /\ IndividualNet(c)[p] > 0 => HasRoom(p, T)
    <3>1. IndividualNet(c)[p] = IF p = L.payee THEN owed ELSE 0
      BY <2>2, <2>3 DEF IndividualNet
    <3>2. FindOrCreate(slot[<<p, T>>]).available_balance <= Held(p, T)
      BY <2>5 DEF FindOrCreate, EmptyEntry
    <3>3. FindOrCreate(slot[<<p, T>>]).available_balance \in Nat
      BY <2>5 DEF FindOrCreate, EmptyEntry
    <3>4. Fits(FindOrCreate(slot[<<p, T>>]).available_balance + owed)
      BY <2>3, <2>4, <2>5, <3>2, <3>3 DEF Fits
    <3>. QED BY <1>1, <2>3, <3>1, <3>4 DEF CanApplyDelta
  <2>. QED BY <2>7, <2>8 DEF CanSettleIndividual, CanApplySettlement
<1>2. TypeOK /\ ConservationInvariant => LockedCollateralIsCollectable
  BY <1>1 DEF LockedCollateralIsCollectable
<1>. QED BY <1>2, TypeCorrectness, Conservation, PTL

-----------------------------------------------------------------------------
(***************************************************************************)
(* Collateral first.                                                       *)
(***************************************************************************)
\* A lane's coverage grows by a settlement that uses its collateral up, or by
\* collateral added to it.
DrainStep(l) ==
  Coverage(l)' > Coverage(l) =>
    \/ /\ lane'[l].settled_cumulative > lane[l].settled_cumulative
       /\ lane'[l].locked_balance = 0
    \/ /\ lane'[l].settled_cumulative = lane[l].settled_cumulative
       /\ lane'[l].locked_balance > lane[l].locked_balance

LEMMA StepsDrainLast ==
  ASSUME TypeOK, TypeOK', NoticeInvariant, [Next]_vars, NEW l \in Lanes
  PROVE  /\ DrainStep(l)
         /\ lane'[l].settled_cumulative >= lane[l].settled_cumulative
<1>1. /\ lane[l] \in Lane
      /\ lane[l].locked_balance \in Nat /\ lane[l].settled_cumulative \in Nat
      /\ lane'[l].locked_balance \in Nat /\ lane'[l].settled_cumulative \in Nat
  BY DEF TypeOK, Lane, LaneState
<1>2. CASE lane'[l].settled_cumulative = lane[l].settled_cumulative
  BY <1>1, <1>2 DEF DrainStep, Coverage
<1>3. CASE Settles(l)
  <2>1. PICK targets :
          /\ Payable(targets) /\ l \in DOMAIN targets
          /\ lane'[l] = ApplyLaneSettlement(lane[l], targets[l],
                                            LockedConsumed(l, targets[l]))
    BY <1>3 DEF Settles
  <2>2. targets[l] \in Nat /\ Increases(l, targets[l])
    BY <2>1 DEF Payable
  <2>3. /\ LockedConsumed(l, targets[l]) \in Nat
        /\ LockedConsumed(l, targets[l]) <= lane[l].locked_balance
    BY <2>2, SettlementAmounts
  <2>4. /\ lane'[l].locked_balance = lane[l].locked_balance - LockedConsumed(l, targets[l])
        /\ lane'[l].settled_cumulative = targets[l]
    BY <1>1, <2>1, <2>2, <2>3, ApplyLaneSettlementType
  <2>5. lane'[l].settled_cumulative > lane[l].settled_cumulative
    BY <2>2, <2>4 DEF Increases
  <2>6. Coverage(l)' > Coverage(l) => lane'[l].locked_balance = 0
    BY <1>1, <2>2, <2>4 DEF Coverage, LockedConsumed, Owed, Lesser
  <2>. QED BY <1>1, <2>5, <2>6 DEF DrainStep
<1>4. CASE Acts(l)
  BY <1>2, <1>4, NoticeByLane, ActionEffects
<1>5. CASE Rests(l)
  BY <1>2, <1>5 DEF Rests
<1>. QED BY <1>3, <1>4, <1>5, LaneSteps

\* A participant's shared balance shrinks, other than by a withdrawal, only
\* when a settlement has used up a lane's collateral or the participant locks
\* funds: what it holds follows from the coverage its lanes gain and from what
\* is settled to it, which never falls.
THEOREM CollateralDrainsFirst == Spec => SharedFundsDrainLast
<1>1. ASSUME TypeOK, TypeOK', NoticeInvariant, ConservationInvariant, [Next]_vars,
             NEW p \in Participants, NEW t \in Tokens,
             Held(p, t)' < Held(p, t), funded' = funded
      PROVE  \E l \in LanesFrom(p, t) : Coverage(l)' > Coverage(l)
  <2>1. Flow(p, t)
    BY <1>1, NextConserves DEF Conserves, ConservationInvariant, NoticeInvariant
  <2>2. /\ LanesFrom(p, t) \in SUBSET Lanes /\ IsFiniteSet(LanesFrom(p, t))
        /\ LanesTo(p, t) \in SUBSET Lanes /\ IsFiniteSet(LanesTo(p, t))
    BY LaneSets
  <2>3. /\ \A l \in LanesFrom(p, t) : CoverageGain[l] \in Int
        /\ SumFunctionOnSet(CoverageGain, LanesFrom(p, t)) \in Int
    BY <1>1, <2>2, GainTypes
  <2>4. \A l \in LanesTo(p, t) : SettledGain[l] \in Nat
    <3>1. ASSUME NEW l \in LanesTo(p, t) PROVE SettledGain[l] \in Nat
      <4>1. lane'[l].settled_cumulative >= lane[l].settled_cumulative
        BY <1>1, <2>2, StepsDrainLast
      <4>2. /\ lane[l].settled_cumulative \in Nat /\ lane'[l].settled_cumulative \in Nat
        BY <1>1, <2>2 DEF TypeOK, LaneState
      <4>. QED BY <2>2, <4>1, <4>2 DEF SettledGain
    <3>. QED BY <3>1
  <2>5. SumFunctionOnSet(SettledGain, LanesTo(p, t)) \in Nat
    BY <2>2, <2>4, SumOfNaturals
  <2>6. Held(p, t) \in Nat /\ Held(p, t)' \in Nat /\ funded[<<p, t>>] \in Int
    BY <1>1, HeldType, HeldTypeAfter
  <2>7. Held(p, t)' - Held(p, t) =
          SumFunctionOnSet(SettledGain, LanesTo(p, t))
            - SumFunctionOnSet(CoverageGain, LanesFrom(p, t))
    BY <1>1, <2>1, <2>3, <2>5, <2>6 DEF Flow
  <2>8. SumFunctionOnSet(CoverageGain, LanesFrom(p, t)) > 0
    BY <1>1, <2>3, <2>5, <2>6, <2>7
  <2>9. ~ \A l \in LanesFrom(p, t) : CoverageGain[l] <= 0
    BY <2>2, <2>3, <2>8, SumOfNonPositive
  <2>10. PICK l \in LanesFrom(p, t) : ~ (CoverageGain[l] <= 0)
    BY <2>9
  <2>11. Coverage(l) \in Nat /\ Coverage(l)' \in Nat
    BY <1>1, <2>2 DEF TypeOK, LaneState, Coverage
  <2>12. CoverageGain[l] = Coverage(l)' - Coverage(l)
    BY <2>2 DEF CoverageGain
  <2>. QED BY <2>10, <2>11, <2>12
<1>2. TypeOK /\ TypeOK' /\ NoticeInvariant /\ ConservationInvariant /\ [Next]_vars =>
        [\A p \in Participants, t \in Tokens :
           Held(p, t)' < Held(p, t) /\ funded' = funded =>
             \/ \E l \in LanesFrom(p, t) :
                  /\ lane'[l].settled_cumulative > lane[l].settled_cumulative
                  /\ lane'[l].locked_balance = 0
             \/ \E l \in LanesFrom(p, t) :
                  /\ lane'[l].settled_cumulative = lane[l].settled_cumulative
                  /\ lane'[l].locked_balance > lane[l].locked_balance]_vars
  BY <1>1, LaneSets, StepsDrainLast DEF DrainStep
<1>. QED
  BY <1>2, TypeCorrectness, NoticeInvariance, Conservation, PTL
  DEF Spec, SharedFundsDrainLast

-----------------------------------------------------------------------------
(***************************************************************************)
(* Pending withdrawals.                                                    *)
(***************************************************************************)
\* Entry f still has the withdrawal that e has, or less of it once the
\* available balance is used up.
StaysPinned(e, f) ==
  HasWithdrawal(e) /\ HasWithdrawal(f) =>
    /\ f.withdrawal_unlock_at = e.withdrawal_unlock_at
    /\ f.withdrawal_destination = e.withdrawal_destination
    /\ f.withdrawing_balance <= e.withdrawing_balance
    /\ f.withdrawing_balance < e.withdrawing_balance => f.available_balance = 0

LEMMA SameEntryIsPinned ==
  ASSUME NEW e \in Entry
  PROVE  StaysPinned(e, e)
BY EntryTypes DEF StaysPinned

\* An entry that is created by a credit had no withdrawal.
LEMMA CreditKeepsPinned ==
  ASSUME NEW e \in Entry, NEW n \in Nat
  PROVE  StaysPinned(e, Credit(e, n))
<1>. DEFINE f == FindOrCreate(e)
<1>1. f \in Entry /\ (f = e \/ ~HasWithdrawal(f))
  BY DEF FindOrCreate, EmptyEntry, Entry, TokenEntry, HasWithdrawal
<1>. HIDE DEF f
<1>2. LET m == [f EXCEPT !.available_balance = @ + n]
      IN  /\ m.withdrawing_balance = f.withdrawing_balance
          /\ m.withdrawal_unlock_at = f.withdrawal_unlock_at
          /\ m.withdrawal_destination = f.withdrawal_destination
  BY <1>1, Zenon DEF Entry, TokenEntry
<1>3. Credit(e, n) = [f EXCEPT !.available_balance = @ + n]
  BY DEF Credit, f
<1>4. f.withdrawing_balance \in Nat
  BY <1>1, EntryTypes
<1>. QED BY <1>1, <1>2, <1>3, <1>4 DEF StaysPinned, HasWithdrawal

LEMMA DeltaKeepsPinned ==
  ASSUME NEW e \in Entry, NEW delta \in Int, CanApplyDelta(e, delta)
  PROVE  StaysPinned(e, ApplyDelta(e, delta))
<1>1. CASE delta = 0
  BY <1>1, SameEntryIsPinned DEF ApplyDelta
<1>2. CASE delta > 0
  BY <1>2, CreditKeepsPinned DEF ApplyDelta
<1>3. CASE delta < 0
  <2>1. Total(e) >= -delta /\ -delta \in Nat /\ e.initialized
    BY <1>3 DEF CanApplyDelta
  <2>2. ApplyDelta(e, delta) = Drain(e, -delta)
    BY <1>3 DEF ApplyDelta
  <2>. QED BY <2>1, <2>2, DrainTotal DEF StaysPinned
<1>. QED BY <1>1, <1>2, <1>3

LEMMA DebitKeepsPinned ==
  ASSUME NEW e \in Entry, NEW n \in Nat
  PROVE  StaysPinned(e, DebitAvailable(e, n))
<1>1. LET m == DebitAvailable(e, n)
      IN  /\ m.withdrawing_balance = e.withdrawing_balance
          /\ m.withdrawal_unlock_at = e.withdrawal_unlock_at
          /\ m.withdrawal_destination = e.withdrawal_destination
  BY Zenon DEF DebitAvailable, Entry, TokenEntry
<1>. QED BY <1>1, EntryTypes DEF StaysPinned

\* Cancelling and paying out end the withdrawal.
LEMMA ClearedHasNoWithdrawal ==
  ASSUME NEW e \in Entry
  PROVE  ~HasWithdrawal(ClearWithdrawal(e)) /\ ~HasWithdrawal(CancelWithdrawalEntry(e))
BY Zenon DEF ClearWithdrawal, CancelWithdrawalEntry, HasWithdrawal, Entry, TokenEntry

Pinned == \A a \in Accounts : StaysPinned(slot[a], slot'[a])

\* Steps that write one entry.
LEMMA OneEntryPinned ==
  ASSUME TypeOK, NEW b \in Accounts, NEW e, slot' = [slot EXCEPT ![b] = e],
         StaysPinned(slot[b], e)
  PROVE  Pinned
<1>1. slot'[b] = e /\ \A a \in Accounts \ {b} : slot'[a] = slot[a]
  BY DEF TypeOK
<1>2. \A a \in Accounts : slot[a] \in Entry
  BY DEF TypeOK, Entry
<1>. QED BY <1>1, <1>2, SameEntryIsPinned DEF Pinned

LEMMA OwnersKeepPinned ==
  ASSUME TypeOK, OwnerNext
  PROVE  Pinned
<1>0. /\ \A a \in Accounts : slot[a] \in Entry
      /\ \A n \in Amounts : n \in Nat
  BY AmountsAssumption DEF TypeOK, Entry
<1>1. ASSUME NEW p \in Participants, NEW t \in Tokens, NEW n \in Amounts, Deposit(p, t, n)
      PROVE  Pinned
  <2>1. <<p, t>> \in Accounts
    BY DEF Accounts
  <2>2. slot' = [slot EXCEPT ![<<p, t>>] = Credit(slot[<<p, t>>], n)]
    BY <1>1 DEF Deposit
  <2>3. StaysPinned(slot[<<p, t>>], Credit(slot[<<p, t>>], n))
    BY <1>0, <2>1, CreditKeepsPinned
  <2>. QED BY <2>1, <2>2, <2>3, OneEntryPinned
<1>2. ASSUME NEW t \in Tokens, NEW k \in 1 .. MaxRecipients,
             NEW credits \in [1 .. k -> Participants \X Amounts], DepositFor(t, credits)
      PROVE  Pinned
  <2>. SUFFICES ASSUME NEW a \in Accounts PROVE StaysPinned(slot[a], slot'[a])
    BY DEF Pinned
  <2>1. \/ slot'[a] = slot[a]
        \/ /\ slot'[a] = Credit(slot[a], CreditTo(credits, a[1]))
           /\ CreditTo(credits, a[1]) \in 1 .. MaxU64
    BY <1>2 DEF DepositFor
  <2>2. MaxU64 \in Nat
    BY MaxU64Assumption
  <2>. QED BY <1>0, <2>1, <2>2, SameEntryIsPinned, CreditKeepsPinned
<1>3. ASSUME NEW b \in Accounts, NEW n \in Amounts, NEW d \in Destinations,
             RequestWithdrawal(b, n, d)
      PROVE  Pinned
  <2>. DEFINE e == InitiateWithdrawal(slot[b], n, d, now + WithdrawalTimelock)
  <2>1. slot' = [slot EXCEPT ![b] = e] /\ ~HasWithdrawal(slot[b])
    BY <1>3 DEF RequestWithdrawal, CanInitiateWithdrawal
  <2>2. StaysPinned(slot[b], e)
    BY <2>1 DEF StaysPinned
  <2>. QED BY <2>1, <2>2, OneEntryPinned
<1>4. ASSUME NEW b \in Accounts, CancelWithdrawal(b) PROVE Pinned
  <2>1. slot' = [slot EXCEPT ![b] = CancelWithdrawalEntry(slot[b])]
    BY <1>4 DEF CancelWithdrawal
  <2>2. StaysPinned(slot[b], CancelWithdrawalEntry(slot[b]))
    BY <1>0, ClearedHasNoWithdrawal DEF StaysPinned
  <2>. QED BY <2>1, <2>2, OneEntryPinned
<1>5. ASSUME slot' = slot PROVE Pinned
  BY <1>0, <1>5, SameEntryIsPinned DEF Pinned
<1>. QED
  BY <1>1, <1>2, <1>3, <1>4, <1>5
  DEF OwnerNext, UpdateInboundPolicy, RegisterBlsKey, balanceVars

LEMMA LanesKeepPinned ==
  ASSUME TypeOK, LaneNext
  PROVE  Pinned
<1>0. /\ \A a \in Accounts : slot[a] \in Entry
      /\ \A l \in Lanes : Payer(l) \in Accounts
      /\ \A n \in Amounts : n \in Nat
  BY LaneAccounts, AmountsAssumption DEF TypeOK, Entry
<1>1. ASSUME NEW l \in Lanes, NEW n \in Amounts, LockChannelFunds(l, n) PROVE Pinned
  <2>1. slot' = [slot EXCEPT ![Payer(l)] = DebitAvailable(slot[Payer(l)], n)]
    BY <1>1 DEF LockChannelFunds
  <2>2. StaysPinned(slot[Payer(l)], DebitAvailable(slot[Payer(l)], n))
    BY <1>0, DebitKeepsPinned
  <2>. QED BY <1>0, <2>1, <2>2, OneEntryPinned
<1>2. ASSUME NEW l \in Lanes, ExecuteUnlock(l) PROVE Pinned
  <2>. DEFINE n == ReleasedAmount(lane[l])
  <2>1. /\ slot' = [slot EXCEPT ![Payer(l)] = ApplyDelta(slot[Payer(l)], n)]
        /\ n > 0 => CanCredit(l.payer, l.token, n)
    BY <1>2 DEF ExecuteUnlock
  <2>2. n \in Nat
    BY LaneTypes, ExecuteLaneUnlockType
  <2>3. CanApplyDelta(slot[Payer(l)], n)
    BY <2>1, <2>2 DEF CanCredit, CanApplyDelta, Payer
  <2>. HIDE DEF n
  <2>4. StaysPinned(slot[Payer(l)], ApplyDelta(slot[Payer(l)], n))
    BY <1>0, <2>2, <2>3, DeltaKeepsPinned
  <2>. QED BY <1>0, <2>1, <2>4, OneEntryPinned
<1>3. ASSUME NEW l \in Lanes, NEW n \in Amounts, CooperativeUnlock(l, n) PROVE Pinned
  <2>1. slot' = [slot EXCEPT ![Payer(l)] = Credit(slot[Payer(l)], n)]
    BY <1>3 DEF CooperativeUnlock
  <2>2. StaysPinned(slot[Payer(l)], Credit(slot[Payer(l)], n))
    BY <1>0, CreditKeepsPinned
  <2>. QED BY <1>0, <2>1, <2>2, OneEntryPinned
<1>4. ASSUME slot' = slot PROVE Pinned
  BY <1>0, <1>4, SameEntryIsPinned DEF Pinned
<1>. QED
  BY <1>1, <1>2, <1>3, <1>4
  DEF LaneNext, CreateChannel, RequestUnlock, RequestSignerUpdate, ExecuteSignerUpdate,
      balanceVars

LEMMA SettlementsKeepPinned ==
  ASSUME TypeOK, SettleNext
  PROVE  Pinned
<1>0. PICK tok \in Tokens, net \in [Participants -> Int] : \E targets :
        Payable(targets) /\ Nets(tok, targets, net) /\ ApplySettlement(tok, targets, net)
  BY SettlementsNet
<1>1. PICK targets : ApplySettlement(tok, targets, net)
  BY <1>0
<1>. SUFFICES ASSUME NEW a \in Accounts PROVE StaysPinned(slot[a], slot'[a])
  BY DEF Pinned
<1>2. /\ a[1] \in Participants /\ a = <<a[1], a[2]>> /\ slot[a] \in Entry
      /\ net[a[1]] \in Int
  BY DEF Accounts, TypeOK, Entry
<1>3. CASE a[2] = tok
  <2>1. /\ slot'[a] = ApplyDelta(slot[a], net[a[1]])
        /\ CanApplyDelta(slot[a], net[a[1]])
    BY <1>1, <1>2, <1>3 DEF ApplySettlement, CanApplySettlement
  <2>. QED BY <1>2, <2>1, DeltaKeepsPinned
<1>4. CASE a[2] # tok
  BY <1>1, <1>2, <1>4, SameEntryIsPinned DEF ApplySettlement
<1>. QED BY <1>3, <1>4

\* While a withdrawal is pending nothing enlarges it, redirects it or moves its
\* unlock time, and a settlement takes from it only after the available balance:
\* a second request is refused, and every other handler that writes the entry
\* leaves the withdrawal as it is or ends it.
THEOREM WithdrawalsArePinned == Spec => PendingWithdrawalIsPinned
<1>1. ASSUME TypeOK, NEW b \in Accounts, ExecuteWithdrawal(b) PROVE Pinned
  <2>1. slot' = [slot EXCEPT ![b] = ClearWithdrawal(slot[b])] /\ slot[b] \in Entry
    BY <1>1 DEF ExecuteWithdrawal, TypeOK, Entry
  <2>2. StaysPinned(slot[b], ClearWithdrawal(slot[b]))
    BY <2>1, ClearedHasNoWithdrawal DEF StaysPinned
  <2>. QED BY <1>1, <2>1, <2>2, OneEntryPinned
<1>2. ASSUME TypeOK, slot' = slot PROVE Pinned
  BY <1>2, SameEntryIsPinned DEF Pinned, TypeOK, Entry
<1>3. TypeOK /\ [Next]_vars => [Pinned]_vars
  BY <1>1, <1>2, OwnersKeepPinned, LanesKeepPinned, SettlementsKeepPinned
  DEF Next, SignCommitment, SignRound, Tick, balanceVars
<1>. QED
  BY <1>3, TypeCorrectness, PTL
  DEF Spec, PendingWithdrawalIsPinned, Pinned, StaysPinned
=============================================================================
