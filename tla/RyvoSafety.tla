----------------------------- MODULE RyvoSafety -----------------------------
(***************************************************************************)
(* What the settlement core promises to the participants: type             *)
(* correctness, conservation of tokens, the protection of locked           *)
(* collateral, notice before unilateral changes, and progress of           *)
(* withdrawals.                                                            *)
(***************************************************************************)
EXTENDS RyvoCore

\* A request's history: what was asked for, when, and the least held since.
AskState == [amount : Nat, at : Nat, low : Nat]
RotationState == [key : Keys \cup {NoKey}, at : Nat]

\* Type correctness: balances and collateral are never negative, every
\* signer and destination is a known key, history has the shape it claims.
TypeOK ==
  /\ now \in Nat \ {0}
  /\ slot \in [Accounts -> TokenEntry(Destinations)]
  /\ lane \in [Lanes -> LaneState(Keys)]
  /\ vault \in [Tokens -> Nat]
  /\ policy \in [Participants -> Policies]
  /\ bls \subseteq Participants
  /\ signed \subseteq Commitments \cup RoundSignature
  /\ funded \in [Accounts -> Int]
  /\ asked \in [Lanes -> AskState]
  /\ rotation \in [Lanes -> RotationState]

-----------------------------------------------------------------------------
(***************************************************************************)
(* Conservation.                                                           *)
(***************************************************************************)
Held(p, t) == Total(slot[<<p, t>>])
LanesFrom(p, t) == {l \in Lanes : l.payer = p /\ l.token = t}
LanesTo(p, t) == {l \in Lanes : l.payee = p /\ l.token = t}
LockedOn(lanes) == SumFunction([l \in lanes |-> lane[l].locked_balance])
SettledOn(lanes) == SumFunction([l \in lanes |-> lane[l].settled_cumulative])
HeldBy(t) == SumFunction([p \in Participants |-> Held(p, t)])

\* Every participant holds, free, withdrawing or locked, exactly what it paid
\* in, less what it took out, plus what lanes settled to it, less what its own
\* lanes settled: each cumulative amount is paid once, whichever of
\* settle_individual, settle_commitment_bundle and settle_clearing_round
\* applied it, in whatever order messages were submitted and repeated.
EveryPaymentCountsOnce ==
  \A p \in Participants, t \in Tokens :
    Held(p, t) + LockedOn(LanesFrom(p, t)) + SettledOn(LanesFrom(p, t))
    = funded[<<p, t>>] + SettledOn(LanesTo(p, t))

\* What conservation rests on, in every state.  An entry that is not in the
\* token table counts for nothing, so creating it loses nothing; a vault holds
\* at least what was paid in and never more than the mint's supply, so sums of
\* balances fit in 64 bits; and a lane has collateral only from an entry that
\* its payer has.
FundedBy(t) == SumFunction([p \in Participants |-> funded[<<p, t>>]])

MissingEntriesAreBlank ==
  \A a \in Accounts : ~slot[a].initialized => slot[a] = EmptyEntry
VaultHoldsFunds(t) == FundedBy(t) <= vault[t] /\ vault[t] <= Supply[t]
CollateralHasAnEntry ==
  \A l \in Lanes : lane[l].locked_balance > 0 => slot[Payer(l)].initialized

ConservationInvariant ==
  /\ EveryPaymentCountsOnce
  /\ MissingEntriesAreBlank
  /\ CollateralHasAnEntry
  /\ \A t \in Tokens : VaultHoldsFunds(t)

\* The vault of a plain token always holds what the program owes: all available
\* and withdrawing balances and all locked collateral of that token, so no
\* withdrawal can find the vault short.
VaultBacksLiabilities ==
  \A t \in Tokens \ YieldTokens :
    vault[t] >= HeldBy(t) + LockedOn({l \in Lanes : l.token = t})

-----------------------------------------------------------------------------
(***************************************************************************)
(* Locked collateral.                                                      *)
(***************************************************************************)
\* A pending unlock never exceeds what the payer last asked for nor the least
\* collateral the lane held since, and its timer is the one of that request:
\* collateral locked after a request is never released by it, whatever
\* settlements, cooperative unlocks and new locks come between.
PendingUnlockIsNoticed ==
  \A l \in Lanes :
    lane[l].pending_unlock_amount > 0 =>
      /\ lane[l].pending_unlock_amount <= asked[l].amount
      /\ lane[l].pending_unlock_amount <= asked[l].low
      /\ lane[l].unlock_requested_at = asked[l].at
      /\ asked[l].at > 0

\* What a payee can still count on: the settled amount and the collateral.
Coverage(l) == lane[l].settled_cumulative + lane[l].locked_balance

CoverageStep(l) ==
  Coverage(l)' < Coverage(l) =>
    \/ \E n \in Amounts : CooperativeUnlock(l, n)
    \/ /\ now >= asked[l].at + ChannelTimelock
       /\ asked[l].at > 0
       /\ Coverage(l) - Coverage(l)' <= Lesser(asked[l].amount, asked[l].low)

\* A lane's coverage drops only when payee and payer release it together, or
\* by an unlock that was asked for a full timelock earlier, for at least that
\* amount, out of collateral that was there all the time since.
CoverageDropsOnlyByNoticeOrConsent == [][\A l \in Lanes : CoverageStep(l)]_vars

\* A signed commitment that the collateral covers can be settled by the payee
\* right now, whatever the payer did with its shared balance, withdrawals or
\* pending unlocks; only a full token table on the payee's side can prevent it.
\* CanSettleIndividual is the action's guard: it is enabled whenever that holds.
LockedCollateralIsCollectable ==
  \A c \in signed \cap Commitments :
    LET l == c.lane
    IN  /\ c.signer = lane[l].authorized_signer
        /\ Increases(l, c.amount)
        /\ c.amount <= Coverage(l)
        /\ HasRoom(l.payee, l.token)
        => CanSettleIndividual(c, l.payee)

\* Shared funds are touched for a lane only after its collateral is used up:
\* when a settlement leaves collateral in every lane it settled for a payer,
\* that payer's shared balance does not shrink.
SharedFundsDrainLast ==
  [][\A p \in Participants, t \in Tokens :
       Held(p, t)' < Held(p, t) /\ funded' = funded =>
         \/ \E l \in LanesFrom(p, t) : /\ lane'[l].settled_cumulative > lane[l].settled_cumulative
                                       /\ lane'[l].locked_balance = 0
         \/ \E l \in LanesFrom(p, t) : /\ lane'[l].settled_cumulative = lane[l].settled_cumulative
                                       /\ lane'[l].locked_balance > lane[l].locked_balance
    ]_vars

-----------------------------------------------------------------------------
(***************************************************************************)
(* Consent and notice.                                                     *)
(***************************************************************************)
PaymentStep(l) ==
  lane'[l].settled_cumulative # lane[l].settled_cumulative =>
    /\ lane'[l].settled_cumulative > lane[l].settled_cumulative
    /\ \/ \E c \in signed \cap Commitments :
            /\ c.lane = l
            /\ c.signer = lane[l].authorized_signer
            /\ c.amount = lane'[l].settled_cumulative
       \/ \E r \in Rounds :
            /\ [round |-> r, by |-> l.payer] \in signed
            /\ l \in DOMAIN r.targets
            /\ r.targets[l] = lane'[l].settled_cumulative

\* A lane's settled amount only grows, and only to an amount that the key then
\* authorised for the lane signed in a commitment, or that the payer itself
\* signed in a clearing round; a stale or replayed message moves nothing.
PaymentsAreAuthorised == [][\A l \in Lanes : PaymentStep(l)]_vars

SignerStep(l) ==
  lane[l].initialized
    /\ lane'[l].authorized_signer # lane[l].authorized_signer =>
      /\ lane'[l].authorized_signer = rotation[l].key
      /\ rotation[l].at > 0
      /\ now >= rotation[l].at + ChannelTimelock

\* The key of an open lane changes only to the key last asked for, a full
\* timelock after that request: the payee has that long to settle what the
\* old key signed.
SignerChangesOnlyWithNotice == [][\A l \in Lanes : SignerStep(l)]_vars

\* What the two notice properties rest on, in every state: no unlock and no
\* signer change is pending that was not asked for in that form, an unlock's
\* history never claims more collateral than the lane holds, and a lane that
\* is not open is blank.
UnlockHistoryIsHeld == \A l \in Lanes : asked[l].low <= lane[l].locked_balance
PendingSignerIsNoticed ==
  \A l \in Lanes :
    HasPendingSigner(lane[l]) =>
      /\ rotation[l].key = lane[l].pending_authorized_signer
      /\ rotation[l].at = lane[l].authorized_signer_update_requested_at
ClosedLanesAreBlank ==
  \A l \in Lanes : ~lane[l].initialized => lane[l] = UninitializedLane

NoticeInvariant ==
  /\ PendingUnlockIsNoticed
  /\ UnlockHistoryIsHeld
  /\ PendingSignerIsNoticed
  /\ ClosedLanesAreBlank

\* While a withdrawal is pending, settlements may drain it but nothing
\* enlarges it, redirects it or moves its unlock time.
PendingWithdrawalIsPinned ==
  [][\A a \in Accounts :
       HasWithdrawal(slot[a]) /\ HasWithdrawal(slot'[a]) =>
         /\ slot'[a].withdrawal_unlock_at = slot[a].withdrawal_unlock_at
         /\ slot'[a].withdrawal_destination = slot[a].withdrawal_destination
         /\ slot'[a].withdrawing_balance <= slot[a].withdrawing_balance
         /\ slot'[a].withdrawing_balance < slot[a].withdrawing_balance
              => slot'[a].available_balance = 0
    ]_vars

-----------------------------------------------------------------------------
(***************************************************************************)
(* Progress, under a clock that advances and someone who submits           *)
(* execute_withdrawal_timelocked, which needs no signature of the owner.   *)
(***************************************************************************)
WithdrawalFairness ==
  WF_vars(Tick) /\ \A a \in Accounts : WF_vars(ExecuteWithdrawal(a))

\* A requested withdrawal is eventually paid out or cancelled, even when
\* settlements drain it meanwhile or it is smaller than the minimum fee.
WithdrawalCompletes ==
  \A a \in Accounts : HasWithdrawal(slot[a]) ~> ~HasWithdrawal(slot[a])

UnlockFairness ==
  WF_vars(Tick) /\ \A l \in Lanes : WF_vars(ExecuteUnlock(l))

\* A payer that keeps submitting execute_unlock_channel_funds once its
\* timelock is over is not kept waiting for ever: the pending unlock is carried
\* out, or settlements and cooperative unlocks have used the collateral up.
UnlockCompletes ==
  \A l \in Lanes : HasPendingUnlock(lane[l]) ~> lane[l].pending_unlock_amount = 0
=============================================================================
