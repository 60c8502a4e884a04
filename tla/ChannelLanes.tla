---------------------------- MODULE ChannelLanes ----------------------------
(***************************************************************************)
(* One directional lane of a ChannelBucket account (state/bucket_state.rs) *)
(* and the raw-data helpers the instruction handlers use on it.  As in     *)
(* BucketSlots, Can... is the condition under which a helper returns Ok.   *)
(***************************************************************************)
EXTENDS BucketSlots

(***************************************************************************)
(* DirectionalLaneState.                                                   *)
(***************************************************************************)
LaneState(Keys) ==
  [ initialized                           : BOOLEAN,
    settled_cumulative                    : Nat,
    locked_balance                        : Nat,
    authorized_signer                     : Keys \cup {NoKey},
    pending_unlock_amount                 : Nat,
    unlock_requested_at                   : Nat,
    pending_authorized_signer             : Keys \cup {NoKey},
    authorized_signer_update_requested_at : Nat ]

UninitializedLane ==
  [ initialized                           |-> FALSE,
    settled_cumulative                    |-> 0,
    locked_balance                        |-> 0,
    authorized_signer                     |-> NoKey,
    pending_unlock_amount                 |-> 0,
    unlock_requested_at                   |-> 0,
    pending_authorized_signer             |-> NoKey,
    authorized_signer_update_requested_at |-> 0 ]

\* initialize_lane_in_data (the lane must not exist yet)
InitializeLane(signer) ==
  [UninitializedLane EXCEPT !.initialized = TRUE, !.authorized_signer = signer]

HasPendingUnlock(ln) ==
  ln.pending_unlock_amount > 0 /\ ln.unlock_requested_at # 0

HasPendingSigner(ln) ==
  /\ ln.pending_authorized_signer # NoKey
  /\ ln.authorized_signer_update_requested_at # 0

\* add_lane_locked_balance_in_data
AddLocked(ln, amount) == [ln EXCEPT !.locked_balance = @ + amount]

(***************************************************************************)
(* request_lane_unlock_in_data: a new request replaces the amount and the  *)
(* time of an earlier one.                                                 *)
(***************************************************************************)
RequestLaneUnlockMutant(ln, amount, requestedAt) ==
  [ln EXCEPT !.pending_unlock_amount = amount,
             !.unlock_requested_at = IF HasPendingUnlock(ln) THEN @ ELSE requestedAt]
RequestLaneUnlock(ln, amount, requestedAt) ==
  [ln EXCEPT !.pending_unlock_amount = amount,
             !.unlock_requested_at = requestedAt]

\* execute_lane_unlock_in_data releases the pending amount, or what is left.
ReleasedAmount(ln) == Lesser(ln.pending_unlock_amount, ln.locked_balance)

ExecuteLaneUnlockMutant(ln) ==
  [ln EXCEPT !.pending_unlock_amount = 0, !.unlock_requested_at = 0]
ExecuteLaneUnlock(ln) ==
  [ln EXCEPT !.locked_balance = @ - ReleasedAmount(ln),
             !.pending_unlock_amount = 0,
             !.unlock_requested_at = 0]

(***************************************************************************)
(* cap_pending_unlock_at_lane_offset_in_data: a pending unlock never       *)
(* exceeds the collateral left by a settlement or a cooperative unlock; a  *)
(* pending amount that is or becomes 0 also clears the request time.       *)
(***************************************************************************)
NoCapMutant(ln, maxPending) == ln
TimerResetMutant(ln, maxPending) ==
  [ln EXCEPT !.pending_unlock_amount = Lesser(@, maxPending),
             !.unlock_requested_at = 0]
CapPendingUnlock(ln, maxPending) ==
  LET capped == Lesser(ln.pending_unlock_amount, maxPending)
  IN  [ln EXCEPT !.pending_unlock_amount = capped,
                 !.unlock_requested_at = IF capped = 0 THEN 0 ELSE @]

CooperativeUnlockLane(ln, amount) ==
  LET remaining == ln.locked_balance - amount
  IN  CapPendingUnlock([ln EXCEPT !.locked_balance = remaining], remaining)

(***************************************************************************)
(* apply_lane_settlement_at_offset_in_data: no timelock and no pending     *)
(* unlock stands in the way of a settlement.                               *)
(***************************************************************************)
ApplyLaneSettlement(ln, target, lockedConsumed) ==
  LET remaining == ln.locked_balance - lockedConsumed
  IN  [CapPendingUnlock([ln EXCEPT !.locked_balance = remaining], remaining)
         EXCEPT !.settled_cumulative = target]

(***************************************************************************)
(* request_ and execute_authorized_signer_update_in_data.                  *)
(***************************************************************************)
CanRequestSigner(ln, newSigner) ==
  newSigner # NoKey /\ newSigner # ln.authorized_signer

RequestSignerMutant(ln, newSigner, requestedAt) ==
  [ln EXCEPT !.pending_authorized_signer = newSigner,
             !.authorized_signer_update_requested_at =
                IF HasPendingSigner(ln) THEN @ ELSE requestedAt]
RequestSigner(ln, newSigner, requestedAt) ==
  [ln EXCEPT !.pending_authorized_signer = newSigner,
             !.authorized_signer_update_requested_at = requestedAt]

ExecuteSigner(ln) ==
  [ln EXCEPT !.authorized_signer = ln.pending_authorized_signer,
             !.pending_authorized_signer = NoKey,
             !.authorized_signer_update_requested_at = 0]
=============================================================================
