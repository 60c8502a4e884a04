--------------------------- MODULE MessageReader ---------------------------
(***************************************************************************)
(* The off-chain messages as bytes: how clients write commitments and      *)
(* clearing rounds (createCommitmentMessage, createClearingRoundMessage)   *)
(* and how the program reads them.  The fixed header (kind, version,       *)
(* domain, flags or token and block count) is compared byte for byte and   *)
(* is not repeated here: msg is what follows it.                           *)
(*                                                                         *)
(* A byte is a number below 2 * Base.  In an integer of variable length    *)
(* its low part is a chunk and Base is added when more bytes follow.  Two  *)
(* byte fields (the token of a commitment) and keys count as one byte.     *)
(*                                                                         *)
(* settle_clearing_round reads a round twice: once for the blocks and      *)
(* where their entries begin, and again, from there, for the entries.      *)
(***************************************************************************)
EXTENDS Integers, Sequences, SequencesExt, FiniteSetsExt

CONSTANTS
  Base,        \* 2^7
  Groups,      \* bytes of the longest integer: 10
  LastChunk,   \* largest chunk of the last of them: 1
  MaxId,       \* u32::MAX
  Rounds,      \* rounds that clients write: sequences of [id, entries]
  Commitments, \* commitments: [payer, payee, token, amount, settler]
  NoSettler,
  StrayBytes,  \* bytes of messages that no client wrote
  MaxLength    \* bound on their length

ASSUME CodecAssumption ==
  /\ Base \in Nat \ {0, 1} /\ Groups \in Nat \ {0} /\ LastChunk \in 0 .. Base - 1
  /\ MaxId \in Nat /\ MaxLength \in Nat /\ StrayBytes \subseteq 0 .. 2 * Base - 1

VARIABLES
  kind,   \* "round" or "commitment"
  count,  \* participant_count of a round; the settler flag of a commitment
  msg,
  offset, \* bytes read
  blocks, \* [id, entry_count, entries_offset] of the blocks read
  left,   \* entries of the last block still to be read
  read,   \* entries as the first reading saw them; the fields of a commitment
  verdict

vars == <<kind, count, msg, offset, blocks, left, read, verdict>>

\* Powers of the base.
Power[i \in 0 .. Groups] == IF i = 0 THEN 1 ELSE Base * Power[i - 1]

\* One more than u64::MAX.
Wrap == (LastChunk + 1) * Power[Groups - 1]

Bytes == 0 .. 2 * Base - 1

\* What clients write: ids of 32 bits, amounts of 64, and no more entries and
\* payees than a byte can count.
Entries == [payee : Bytes, target : 0 .. Wrap - 1]
EntryBlocks == [id : 0 .. MaxId, entries : Seq(Entries)]

ASSUME ClientAssumption ==
  /\ MaxId < Wrap
  /\ NoSettler \notin Bytes
  /\ \A r \in Rounds : r \in Seq(EntryBlocks) /\ \A i \in DOMAIN r : Len(r[i].entries) \in Bytes
  /\ Commitments \subseteq [payer : 0 .. MaxId, payee : 0 .. MaxId, token : Bytes,
                           amount : 0 .. Wrap - 1, settler : Bytes \cup {NoSettler}]

-----------------------------------------------------------------------------
(***************************************************************************)
(* Writing: encodeCompactU64 and the messages.                             *)
(***************************************************************************)
Length(n) == CHOOSE d \in 1 .. Groups : n < Power[d] /\ (d = 1 \/ n >= Power[d - 1])
Encode(n) ==
  [i \in 1 .. Length(n) |->
     ((n \div Power[i - 1]) % Base) + (IF i < Length(n) THEN Base ELSE 0)]

EncodeEntry(e) == <<e.payee>> \o Encode(e.target)
EncodeBlock(b) ==
  Encode(b.id) \o <<Len(b.entries)>> \o
  FlattenSeq([j \in DOMAIN b.entries |-> EncodeEntry(b.entries[j])])
EncodeRound(r) == FlattenSeq([i \in DOMAIN r |-> EncodeBlock(r[i])])

EncodeCommitment(c) ==
  Encode(c.payer) \o Encode(c.payee) \o <<c.token>> \o Encode(c.amount) \o
  (IF c.settler = NoSettler THEN <<>> ELSE <<c.settler>>)
Flag(c) == IF c.settler = NoSettler THEN 0 ELSE 1

-----------------------------------------------------------------------------
(***************************************************************************)
(* read_varint_u64: the chunks up to the first byte without a successor.   *)
(* A shift drops what it moves out of the word.                            *)
(***************************************************************************)
Ends(at) == {i \in at + 1 .. Len(msg) : msg[i] < Base}
End(at) == CHOOSE i \in Ends(at) : \A j \in Ends(at) : i <= j

CanReadMutant(at) == Ends(at) # {} /\ End(at) - at <= Groups
CanRead(at) ==
  /\ Ends(at) # {}
  /\ End(at) - at <= Groups
  /\ End(at) - at = Groups => msg[End(at)] <= LastChunk

Chunk(at, i) == (msg[at + i] % Base) * Power[i - 1]
Exact(at) == MapThenSumSet(LAMBDA i : Chunk(at, i), 1 .. End(at) - at)
Value(at) == MapThenSumSet(LAMBDA i : Chunk(at, i) % Wrap, 1 .. End(at) - at)

CanReadId(at) == CanRead(at) /\ Value(at) <= MaxId

Init ==
  /\ \/ kind = "round" /\ \E r \in Rounds : count = Len(r) /\ msg = EncodeRound(r)
     \/ kind = "commitment" /\ \E c \in Commitments : count = Flag(c) /\ msg = EncodeCommitment(c)
     \/ /\ kind = "round" /\ count \in 1 .. 2
        /\ msg \in BoundedSeq(StrayBytes, MaxLength)
     \/ /\ kind = "commitment" /\ count \in 0 .. 1
        /\ msg \in BoundedSeq(StrayBytes, MaxLength)
  /\ offset = 0 /\ blocks = <<>> /\ left = 0 /\ read = <<>>
  /\ verdict = "reading"

-----------------------------------------------------------------------------
(***************************************************************************)
(* parse_clearing_round_layout_with_version and parse_channel_entry.       *)
(***************************************************************************)
Reading(what) == verdict = "reading" /\ kind = what

Block(id, entryCount, entriesOffset) ==
  [id |-> id, entry_count |-> entryCount, entries_offset |-> entriesOffset]
AfterCount(at) == End(at) + 1

CanReadBlock ==
  /\ Reading("round") /\ left = 0 /\ Len(blocks) < count
  /\ CanReadId(offset)
  /\ End(offset) < Len(msg)
ReadBlock ==
  /\ CanReadBlock
  /\ blocks' = Append(blocks, Block(Value(offset), msg[End(offset) + 1], AfterCount(offset)))
  /\ left' = msg[End(offset) + 1]
  /\ offset' = End(offset) + 1
  /\ UNCHANGED <<kind, count, msg, read, verdict>>

EntryAt(at) == [payee |-> msg[at + 1], target |-> Value(at + 1)]
CanReadEntry ==
  Reading("round") /\ left > 0 /\ offset < Len(msg) /\ CanRead(offset + 1)
ReadEntry ==
  /\ CanReadEntry
  /\ read' = Append(read, EntryAt(offset))
  /\ offset' = End(offset + 1)
  /\ left' = left - 1
  /\ UNCHANGED <<kind, count, msg, blocks, verdict>>

CanAcceptRound ==
  Reading("round") /\ left = 0 /\ Len(blocks) = count /\ offset = Len(msg)

(***************************************************************************)
(* parse_commitment_message.                                               *)
(***************************************************************************)
PayeeAt == End(0)
TokenAt == End(PayeeAt) + 1
CanAcceptCommitment ==
  /\ Reading("commitment")
  /\ CanReadId(0) /\ CanReadId(PayeeAt)
  /\ TokenAt <= Len(msg)
  /\ CanRead(TokenAt)
  /\ Len(msg) = End(TokenAt) + count

Commitment ==
  [payer |-> Value(0), payee |-> Value(PayeeAt), token |-> msg[TokenAt],
   amount |-> Value(TokenAt),
   settler |-> IF count = 1 THEN msg[Len(msg)] ELSE NoSettler]

Accept ==
  /\ \/ CanAcceptRound /\ UNCHANGED <<offset, read>>
     \/ CanAcceptCommitment /\ offset' = Len(msg) /\ read' = <<Commitment>>
  /\ verdict' = "accepted"
  /\ UNCHANGED <<kind, count, msg, blocks, left>>

Reject ==
  /\ verdict = "reading"
  /\ ~(CanReadBlock \/ CanReadEntry \/ CanAcceptRound \/ CanAcceptCommitment)
  /\ verdict' = "rejected"
  /\ UNCHANGED <<kind, count, msg, offset, blocks, left, read>>

Next == ReadBlock \/ ReadEntry \/ Accept \/ Reject

-----------------------------------------------------------------------------
(***************************************************************************)
(* The second reading of a round: the entries of block b.                  *)
(***************************************************************************)
EntryStart(b) ==
  LET start[j \in 0 .. b.entry_count] ==
        IF j = 0 THEN b.entries_offset ELSE End(start[j - 1] + 1)
  IN  start
EntriesOf(b) == [j \in 1 .. b.entry_count |-> EntryAt(EntryStart(b)[j - 1])]

-----------------------------------------------------------------------------
(***************************************************************************)
(* Properties.                                                             *)
(***************************************************************************)
\* What a client wrote is never rejected, and is read as it was meant: the
\* fields, the blocks and, in the second reading, the entries of every block
\* (settle_individual.rs lines 59-115, clearing_round_message.rs lines 111-146).
ReadsWhatWasWritten ==
  /\ \A c \in Commitments :
       (kind = "commitment" /\ msg = EncodeCommitment(c) /\ count = Flag(c)) =>
         verdict # "rejected" /\ (verdict = "accepted" => read = <<c>>)
  /\ \A r \in Rounds :
       (kind = "round" /\ msg = EncodeRound(r) /\ count = Len(r)) =>
         /\ verdict # "rejected"
         /\ verdict = "accepted" =>
              [i \in DOMAIN blocks |->
                 [id |-> blocks[i].id, entries |-> EntriesOf(blocks[i])]] = r

\* The entries that are verified and settled in the second reading are those
\* that the first reading found, also in messages that no client would write.
ReadingsAgree ==
  (verdict = "accepted" /\ kind = "round") =>
    FlattenSeq([i \in DOMAIN blocks |-> EntriesOf(blocks[i])]) = read

\* An integer that does not fit into its word is rejected, never truncated,
\* though a shift alone would drop its high bits (lines 27-46).
NoBitsAreLost ==
  verdict = "accepted" =>
    IF kind = "round"
    THEN \A i \in DOMAIN blocks : \A j \in 1 .. blocks[i].entry_count :
           EntriesOf(blocks[i])[j].target = Exact(EntryStart(blocks[i])[j - 1] + 1)
    ELSE read[1].amount = Exact(TokenAt)
=============================================================================
