--------------------------- MODULE RpcSenderProofs ---------------------------
(***************************************************************************)
(* The senders of the demo implement SendOnce, step by step: whatever is   *)
(* lost and retried, the instructions run at most once and the answer is   *)
(* right.  That an answer comes is left to the model checker.              *)
(***************************************************************************)
EXTENDS RpcSender, FiniteSetTheorems, TLAPS

Statuses == {"unseen", "pool", "executed", "failed", "expired"}
SenderSteps == {"blockhash", "send", "confirm", "logs", "poll", "ok", "error"}

\* What every state of a sender satisfies: one signature at most is ever known
\* to the node, a sender past the blockhash has signed, and what it says or is
\* about to say of the outcome is what the cluster knows.
OnlyOneIsSent == \A s \in Signatures \ {1} : status[s] = "unseen"
HasSigned == step \in {"send", "confirm", "logs", "poll"} => signature = 1
KnowsOutcome ==
  /\ step = "logs" => status[1] = "failed"
  /\ step = "ok" /\ mode # "legacy" => status[1] = "executed"
  /\ step = "error" /\ reason = "failed" => status[1] = "failed"

SenderInvariant ==
  /\ step \in SenderSteps
  /\ status \in [Signatures -> Statuses]
  /\ OnlyOneIsSent
  /\ HasSigned
  /\ KnowsOutcome

LEMMA FirstSignature == 1 \in Signatures
BY SenderAssumption DEF Signatures

\* The instructions have run once or never.
LEMMA RunsByStatus ==
  ASSUME SenderInvariant
  PROVE  Cardinality(Executed) = IF status[1] = "executed" THEN 1 ELSE 0
<1>1. Executed = IF status[1] = "executed" THEN {1} ELSE {}
  BY FirstSignature DEF Executed, SenderInvariant, OnlyOneIsSent
<1>. QED BY <1>1, FS_EmptySet, FS_Singleton

-----------------------------------------------------------------------------
(***************************************************************************)
(* The invariant.                                                          *)
(***************************************************************************)
LEMMA InvariantInit == SenderInit => SenderInvariant
BY DEF SenderInit, SenderInvariant, SenderSteps, Statuses, OnlyOneIsSent, HasSigned, KnowsOutcome

\* A step of the sender that leaves the cluster as it is keeps the invariant if
\* what the sender then says is so.
LEMMA StillKeeps ==
  ASSUME SenderInvariant, UNCHANGED <<mode, status>>,
         step' \in SenderSteps, HasSigned', KnowsOutcome'
  PROVE  SenderInvariant'
BY DEF SenderInvariant, OnlyOneIsSent

LEMMA InvariantNext ==
  ASSUME SenderInvariant, [SenderNext]_senderVars
  PROVE  SenderInvariant'
<1>. USE DEF SenderSteps, HasSigned, KnowsOutcome
<1>1. CASE GetLatestBlockhash
  <2>1. UNCHANGED <<mode, status>> /\ step' \in SenderSteps /\ HasSigned' /\ KnowsOutcome'
    BY <1>1 DEF GetLatestBlockhash, TransientError, Throw, GoTo, Still, SenderInvariant
  <2>. QED BY <2>1, StillKeeps
<1>2. CASE SendRawTransaction
  <2>1. /\ signature = 1 /\ signature' = 1 /\ step' \in SenderSteps
        /\ step' \notin {"logs", "ok"} /\ ~(step' = "error" /\ reason' = "failed")
    BY <1>2 DEF SendRawTransaction, TransientError, Throw, GoTo, Resends, SenderInvariant
  <2>2. status' = status \/ Forward
    BY <1>2 DEF SendRawTransaction
  <2>3. status' \in [Signatures -> Statuses] /\ OnlyOneIsSent'
    BY <2>1, <2>2 DEF Forward, SenderInvariant, Statuses, OnlyOneIsSent
  <2>. QED BY <2>1, <2>3 DEF SenderInvariant
<1>3. CASE ConfirmTransaction
  <2>1. UNCHANGED <<mode, status>> /\ step' \in SenderSteps /\ HasSigned' /\ KnowsOutcome'
    BY <1>3
    DEF ConfirmTransaction, Landed, ChecksError, TransientError, Throw, GoTo, Still,
        SenderInvariant
  <2>. QED BY <2>1, StillKeeps
<1>4. CASE FetchLogs
  <2>1. UNCHANGED <<mode, status>> /\ step' \in SenderSteps /\ HasSigned' /\ KnowsOutcome'
    BY <1>4 DEF FetchLogs, Throw, Still, SenderInvariant
  <2>. QED BY <2>1, StillKeeps
<1>5. CASE Poll
  <2>1. UNCHANGED <<mode, status>> /\ step' \in SenderSteps /\ HasSigned' /\ KnowsOutcome'
    BY <1>5 DEF Poll, Landed, Throw, GoTo, Still, SenderInvariant
  <2>. QED BY <2>1, StillKeeps
<1>6. CASE Cluster
  <2>1. PICK s \in Signatures, outcome \in {"executed", "failed", "expired"} :
          /\ status[s] = "pool"
          /\ status' = [status EXCEPT ![s] = outcome]
          /\ UNCHANGED <<mode, skipPreflight, step, attempt, signature, reason>>
    BY <1>6 DEF Cluster
  <2>2. s = 1
    BY <2>1 DEF SenderInvariant, OnlyOneIsSent
  <2>. QED BY <2>1, <2>2 DEF SenderInvariant, OnlyOneIsSent, Statuses
<1>7. CASE UNCHANGED senderVars
  BY <1>7 DEF senderVars, SenderInvariant, OnlyOneIsSent
<1>. QED BY <1>1, <1>2, <1>3, <1>4, <1>5, <1>6, <1>7 DEF SenderNext, SenderStep

-----------------------------------------------------------------------------
(***************************************************************************)
(* The refinement.                                                         *)
(***************************************************************************)
Runs == IF status[1] = "executed" THEN 1 ELSE 0
Said == CASE step = "ok" -> IF mode = "legacy" THEN "unknown" ELSE "done"
          [] step = "error" /\ reason = "failed" -> "failed"
          [] step = "error" /\ reason # "failed" -> "unknown"
          [] OTHER -> "waiting"

\* The promised step, in those terms.
RunsOnce == Runs = 0 /\ Said # "failed" /\ Runs' = 1 /\ Said' = Said
Answers ==
  /\ Said = "waiting"
  /\ \/ Runs = 1 /\ Said' = "done"
     \/ Runs = 0 /\ Said' = "failed"
     \/ Said' = "unknown"
  /\ Runs' = Runs

\* The node's learning of the transaction runs nothing.
LEMMA OwnStepsRunNothing ==
  ASSUME SenderInvariant, SenderStep
  PROVE  Runs' = Runs /\ mode' = mode
<1>1. CASE SendRawTransaction
  <2>1. mode' = mode /\ (status' = status \/ Forward) /\ signature = 1
    BY <1>1 DEF SendRawTransaction, SenderInvariant, HasSigned
  <2>. QED BY <2>1, FirstSignature DEF Forward, Runs, SenderInvariant
<1>2. CASE ~SendRawTransaction
  BY <1>2 DEF SenderStep, GetLatestBlockhash, ConfirmTransaction, FetchLogs, Poll, Still, Runs
<1>. QED BY <1>1, <1>2

\* A sender's step leaves the question open or answers it, rightly.
LEMMA OwnStepsAnswer ==
  ASSUME SenderInvariant, SenderStep
  PROVE  Answers \/ (Runs' = Runs /\ Said' = Said)
<1>0. Runs' = Runs /\ mode' = mode
  BY OwnStepsRunNothing
<1>1. step \notin {"ok", "error"} /\ step' \in SenderSteps
  <2>1. step \notin {"ok", "error"}
    BY DEF SenderStep, GetLatestBlockhash, SendRawTransaction, ConfirmTransaction,
           FetchLogs, Poll
  <2>2. SenderInvariant'
    BY InvariantNext DEF SenderNext
  <2>. QED BY <2>1, <2>2 DEF SenderInvariant
<1>2. Said = "waiting"
  BY <1>1 DEF Said
<1>3. CASE step' = "ok"
  <2>1. mode # "legacy" => status[1] = "executed" /\ Said' = "done"
    <3>1. mode # "legacy" => status'[1] = "executed"
      BY <1>0, <1>3, InvariantNext DEF SenderNext, SenderInvariant, KnowsOutcome
    <3>. QED BY <1>0, <1>3, <3>1 DEF Runs, Said
  <2>2. mode = "legacy" => Said' = "unknown"
    BY <1>0, <1>3 DEF Said
  <2>. QED BY <1>0, <1>2, <2>1, <2>2 DEF Answers, Runs
<1>4. CASE step' = "error" /\ reason' = "failed"
  <2>1. status'[1] = "failed"
    BY <1>4, InvariantNext DEF SenderNext, SenderInvariant, KnowsOutcome
  <2>2. Runs = 0 /\ Said' = "failed"
    BY <1>0, <1>4, <2>1 DEF Runs, Said
  <2>. QED BY <1>0, <1>2, <2>2 DEF Answers
<1>5. CASE step' = "error" /\ reason' # "failed"
  <2>1. Said' = "unknown"
    BY <1>5 DEF Said
  <2>. QED BY <1>0, <1>2, <2>1 DEF Answers
<1>6. CASE step' \notin {"ok", "error"}
  <2>1. Said' = "waiting"
    BY <1>6 DEF Said
  <2>. QED BY <1>0, <1>2, <2>1
<1>. QED BY <1>3, <1>4, <1>5, <1>6

\* The cluster runs the transaction, once, or drops it.
LEMMA ClusterRunsOnce ==
  ASSUME SenderInvariant, Cluster
  PROVE  RunsOnce \/ (Runs' = Runs /\ Said' = Said)
<1>1. PICK s \in Signatures, outcome \in {"executed", "failed", "expired"} :
        /\ status[s] = "pool"
        /\ status' = [status EXCEPT ![s] = outcome]
        /\ UNCHANGED <<mode, skipPreflight, step, attempt, signature, reason>>
  BY DEF Cluster
<1>2. s = 1
  BY <1>1 DEF SenderInvariant, OnlyOneIsSent
<1>3. status[1] = "pool" /\ status'[1] = outcome
  BY <1>1, <1>2 DEF SenderInvariant
<1>4. Said' = Said
  BY <1>1 DEF Said
<1>5. Said # "failed"
  BY <1>3 DEF Said, SenderInvariant, KnowsOutcome
<1>. QED BY <1>3, <1>4, <1>5 DEF RunsOnce, Runs

\* Every behaviour of a sender is one of SendOnce, but for the promise that an
\* answer comes: its instructions run at most once, "done" is said only when
\* they have run and "failed" only when they never will, for every number of
\* attempts and polls (withRpcRetry, sendVersionedTransaction,
\* sendLegacyTransaction, recoverTimedOutRpcSignature).
THEOREM SendersSendOnce == SenderSpec => Once!OnceSafe
<1>1. SenderInit => Once!OnceInit
  <2>. SUFFICES ASSUME SenderInit PROVE Once!OnceInit
    OBVIOUS
  <2>1. SenderInvariant
    BY InvariantInit
  <2>2. Cardinality(Executed) = 0
    BY <2>1, RunsByStatus, FirstSignature DEF SenderInit
  <2>. QED BY <2>2 DEF SenderInit, Once!OnceInit
<1>2. SenderInvariant /\ SenderInvariant' /\ [SenderNext]_senderVars
        => [Once!Run \/ Once!Answer]_Once!onceVars
  <2>. SUFFICES ASSUME SenderInvariant, SenderInvariant', [SenderNext]_senderVars
                PROVE  [Once!Run \/ Once!Answer]_Once!onceVars
    OBVIOUS
  <2>1. Cardinality(Executed) = Runs /\ Cardinality(Executed)' = Runs'
    <3>1. Cardinality(Executed) = Runs
      BY RunsByStatus DEF Runs
    <3>2. Executed' = IF status'[1] = "executed" THEN {1} ELSE {}
      BY FirstSignature DEF Executed, SenderInvariant, OnlyOneIsSent
    <3>3. Cardinality(Executed)' = Runs'
      BY <3>2, FS_EmptySet, FS_Singleton DEF Runs
    <3>. QED BY <3>1, <3>3
  <2>2. RunsOnce \/ Answers \/ (Runs' = Runs /\ Said' = Said)
    <3>1. CASE UNCHANGED senderVars
      BY <3>1 DEF senderVars, Runs, Said
    <3>. QED BY <3>1, OwnStepsAnswer, ClusterRunsOnce DEF SenderNext
  <2>. QED
    BY <2>1, <2>2 DEF Once!Run, Once!Answer, Once!onceVars, RunsOnce, Answers, Said
<1>3. SenderInit /\ [][SenderNext]_senderVars => []SenderInvariant
  <2>1. SenderInvariant /\ [SenderNext]_senderVars => SenderInvariant'
    BY InvariantNext
  <2>. QED BY <2>1, InvariantInit, PTL
<1>. QED BY <1>1, <1>2, <1>3, PTL DEF SenderSpec, Once!OnceSafe
=============================================================================
