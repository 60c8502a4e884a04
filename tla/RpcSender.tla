----------------------------- MODULE RpcSender -----------------------------
(***************************************************************************)
(* How the demo sends one transaction through an RPC node that loses       *)
(* requests and answers (ryvo-protocol-demo.ts):                           *)
(*                                                                         *)
(*   versioned  sendVersionedTransaction, every call under withRpcRetry    *)
(*   legacy     sendLegacyTransaction, which lookup tables are made with   *)
(*   anchor     Anchor's rpc(), then recoverTimedOutRpcSignature           *)
(*                                                                         *)
(* A signature stands for a transaction with its blockhash: the cluster    *)
(* runs a signature at most once, so sending the same bytes again is safe  *)
(* and signing them again is not.                                          *)
(***************************************************************************)
EXTENDS Integers, FiniteSets

CONSTANTS
  Modes,       \* senders to consider
  MaxAttempts, \* maxAttempts of withRpcRetry
  MaxPolls     \* rounds of waitForConfirmedSignature before its deadline

ASSUME SenderAssumption ==
  /\ Modes \subseteq {"versioned", "legacy", "anchor"}
  /\ MaxAttempts \in Nat \ {0} /\ MaxPolls \in Nat \ {0}

Signatures == 1 .. MaxAttempts

VARIABLES
  mode,
  skipPreflight, \* the node forwards the transaction without simulating it
  step,          \* blockhash, send, confirm, logs, poll, ok, error
  attempt,       \* attempt of withRpcRetry, or poll of waitForConfirmedSignature
  signature,     \* of the transaction that was signed last, 0 before
  status,        \* what the cluster knows of each: unseen, pool, executed,
                 \* failed, expired
  reason         \* why the sender threw

senderVars == <<mode, skipPreflight, step, attempt, signature, status, reason>>

SenderInit ==
  /\ mode \in Modes
  /\ skipPreflight \in (IF mode = "versioned" THEN BOOLEAN ELSE {FALSE})
  /\ step = "blockhash" /\ attempt = 1
  /\ signature = 0
  /\ status = [s \in Signatures |-> "unseen"]
  /\ reason = "none"

-----------------------------------------------------------------------------
Landed(s) == status[s] \in {"executed", "failed"}
GoTo(name) == step' = name /\ attempt' = 1 /\ UNCHANGED reason
Throw(why) == step' = "error" /\ reason' = why /\ UNCHANGED attempt
Still == UNCHANGED <<mode, skipPreflight, signature, status>>

\* The bytes that the next attempt sends are those of the first.
ResendsMutant == IF signature < MaxAttempts THEN signature + 1 ELSE signature
Resends == signature

\* withRpcRetry tries a call again after a transient error.
TransientError ==
  IF mode = "versioned" /\ attempt < MaxAttempts
  THEN attempt' = attempt + 1 /\ UNCHANGED <<step, reason>>
  ELSE Throw("rpc")

GetLatestBlockhash ==
  /\ step = "blockhash"
  /\ \/ TransientError /\ Still
     \/ /\ signature' = 1
        /\ GoTo("send")
        /\ UNCHANGED <<mode, skipPreflight, status>>

\* The node forwards what it does not know yet.
Forward ==
  status' = [status EXCEPT ![signature] = IF @ = "unseen" THEN "pool" ELSE @]

SendRawTransaction ==
  /\ step = "send"
  /\ \/ /\ skipPreflight \/ ~Landed(signature)
        /\ Forward
        /\ \/ GoTo("confirm") /\ UNCHANGED signature
           \/ TransientError /\ signature' = Resends
     \/ TransientError /\ signature' = Resends /\ UNCHANGED status
     \/ ~skipPreflight /\ Throw("preflight") /\ UNCHANGED <<signature, status>>
  /\ UNCHANGED <<mode, skipPreflight>>

ChecksError(m) == m # "legacy"

\* The legacy sender does not look at the value that confirms.
ConfirmTransaction ==
  /\ step = "confirm"
  /\ \/ /\ Landed(signature)
        /\ IF status[signature] = "failed" /\ ChecksError(mode)
           THEN IF mode = "versioned" THEN GoTo("logs") ELSE Throw("failed")
           ELSE GoTo("ok")
     \/ TransientError
     \/ Throw("expired")
     \/ mode # "versioned" /\ GoTo("poll")
  /\ Still

\* The logs of a failed transaction are fetched if they can be.
FetchLogs == step = "logs" /\ Throw("failed") /\ Still

\* The deadline was set before the first poll.
NextPoll == attempt + 1

Poll ==
  /\ step = "poll"
  /\ \/ status[signature] = "executed" /\ GoTo("ok")
     \/ status[signature] = "failed" /\ Throw("failed")
     \/ ~Landed(signature) /\ attempt < MaxPolls
        /\ attempt' = NextPoll /\ UNCHANGED <<step, reason>>
     \/ ~Landed(signature) /\ attempt = MaxPolls /\ Throw("deadline")
     \/ Throw("rpc")
  /\ Still

SenderStep ==
  \/ GetLatestBlockhash \/ SendRawTransaction \/ ConfirmTransaction
  \/ FetchLogs \/ Poll

\* The cluster runs a pending transaction, or its blockhash becomes too old.
Cluster ==
  \E s \in Signatures :
    /\ status[s] = "pool"
    /\ \E outcome \in {"executed", "failed", "expired"} :
         status' = [status EXCEPT ![s] = outcome]
    /\ UNCHANGED <<mode, skipPreflight, step, attempt, signature, reason>>

SenderNext == SenderStep \/ Cluster

-----------------------------------------------------------------------------
(***************************************************************************)
(* Properties.                                                             *)
(***************************************************************************)
Executed == {s \in Signatures : status[s] = "executed"}

\* Whatever is lost and retried, the instructions run at most once, since
\* retries send the bytes that were signed once; a sender that reports success
\* has seen them run; one that says "failed" is right for good, and of no other
\* error can that be said (lines 2471-2475, 2897-2938).  Every sender returns:
\* attempts and polls are bounded.  That a legacy sender is "ok" says nothing,
\* for it does not look at the error that confirms.
Once == INSTANCE SendOnce WITH
  runs <- Cardinality(Executed),
  answer <- CASE step = "ok" -> IF mode = "legacy" THEN "unknown" ELSE "done"
              [] step = "error" /\ reason = "failed" -> "failed"
              [] step = "error" /\ reason # "failed" -> "unknown"
              [] OTHER -> "waiting"
SendsOnce == Once!OnceSpec

SenderSpec ==
  /\ SenderInit /\ [][SenderNext]_senderVars
  /\ WF_senderVars(SenderStep) /\ WF_senderVars(Cluster)
=============================================================================
