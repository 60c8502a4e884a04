---------------------------- MODULE BucketSlots ----------------------------
(***************************************************************************)
(* One token entry of a participant's slot in a ParticipantBucket account  *)
(* (state/bucket_state.rs), and the raw-data helpers the instruction       *)
(* handlers use on it.  Every operator that has a precondition in the code *)
(* (a require!, an ok_or) comes as a pair: Can... is the condition under   *)
(* which the helper returns Ok, the other operator is the entry it writes. *)
(* Byte offsets, discriminators and bucket ids are abstracted: an entry is *)
(* addressed by its participant and token.                                 *)
(***************************************************************************)
EXTENDS Integers

CONSTANTS
  NoKey,    \* Pubkey::default()
  MaxU64    \* u64::MAX; small instances use a small width

ASSUME MaxU64Assumption == MaxU64 \in Nat

\* checked_add returns Some
Fits(n) == n <= MaxU64

Lesser(a, b) == IF a <= b THEN a ELSE b
Greater(a, b) == IF a >= b THEN a ELSE b

(***************************************************************************)
(* BucketTokenBalance; token_id is the entry's address here.               *)
(***************************************************************************)
TokenEntry(Destinations) ==
  [ initialized            : BOOLEAN,
    available_balance      : Nat,
    withdrawing_balance    : Nat,
    withdrawal_unlock_at   : Nat,
    withdrawal_destination : Destinations \cup {NoKey} ]

EmptyEntry ==
  [ initialized            |-> FALSE,
    available_balance      |-> 0,
    withdrawing_balance    |-> 0,
    withdrawal_unlock_at   |-> 0,
    withdrawal_destination |-> NoKey ]

(***************************************************************************)
(* read_token_total_balance(_or_zero)_from_data: an empty entry counts 0.  *)
(***************************************************************************)
Total(e) == e.available_balance + e.withdrawing_balance

HasWithdrawal(e) == e.withdrawal_unlock_at # 0

\* find_or_create_token_entry_offset: an existing entry, or a zeroed one
\* (whether the table has room for it is the caller's question).
FindOrCreate(e) ==
  IF e.initialized THEN e ELSE [EmptyEntry EXCEPT !.initialized = TRUE]

CanDebitAvailable(e, amount) == e.initialized /\ e.available_balance >= amount

DebitAvailable(e, amount) == [e EXCEPT !.available_balance = @ - amount]

(***************************************************************************)
(* apply_token_delta_in_data: a credit goes to the available balance; a    *)
(* debit takes the available balance first and the rest from a pending     *)
(* withdrawal, whose unlock time stays set even when nothing is left.      *)
(***************************************************************************)
CanApplyDelta(e, delta) ==
  \/ delta = 0
  \/ delta > 0 /\ Fits(FindOrCreate(e).available_balance + delta)
  \/ delta < 0 /\ e.initialized /\ Fits(Total(e)) /\ Total(e) >= -delta

Credit(e, amount) == [FindOrCreate(e) EXCEPT !.available_balance = @ + amount]

DrainMutant(e, amount) == [e EXCEPT !.available_balance = @ - amount]
Drain(e, amount) ==
  LET fromAvailable == Lesser(e.available_balance, amount)
  IN  [e EXCEPT !.available_balance = @ - fromAvailable,
                !.withdrawing_balance = @ - (amount - fromAvailable)]

ApplyDelta(e, delta) ==
  CASE delta = 0 -> e
    [] delta > 0 -> Credit(e, delta)
    [] delta < 0 -> Drain(e, -delta)

(***************************************************************************)
(* The withdrawal helpers: initiate_, cancel_ and clear_token_withdrawal.  *)
(***************************************************************************)
CanInitiateWithdrawalMutant(e, amount) ==
  e.initialized /\ e.withdrawing_balance = 0 /\ e.available_balance >= amount
CanInitiateWithdrawal(e, amount) ==
  /\ e.initialized
  /\ ~HasWithdrawal(e)
  /\ e.available_balance >= amount
  /\ Fits(e.withdrawing_balance + amount)

InitiateWithdrawal(e, amount, destination, unlockAt) ==
  [e EXCEPT !.available_balance = @ - amount,
            !.withdrawing_balance = @ + amount,
            !.withdrawal_unlock_at = unlockAt,
            !.withdrawal_destination = destination]

ClearWithdrawalMutant(e) ==
  [e EXCEPT !.withdrawal_unlock_at = 0, !.withdrawal_destination = NoKey]
ClearWithdrawal(e) ==
  [e EXCEPT !.withdrawing_balance = 0,
            !.withdrawal_unlock_at = 0,
            !.withdrawal_destination = NoKey]

CanCancelWithdrawal(e) == e.initialized /\ HasWithdrawal(e) /\ Fits(Total(e))

CancelWithdrawalEntry(e) ==
  ClearWithdrawal([e EXCEPT !.available_balance = @ + e.withdrawing_balance])
=============================================================================
