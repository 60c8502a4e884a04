------------------------------- MODULE MCWire -------------------------------
(***************************************************************************)
(* Messages and transactions as bytes: reading what clients wrote          *)
(* (MessageReader), measuring how much fits into a transaction             *)
(* (RoundCapacity), and searching for the largest round that the cluster   *)
(* executes (RoundSearch).  The initial state chooses one of the three;    *)
(* the variables of the others rest.                                       *)
(*                                                                         *)
(* reader: integers of at most three bytes and five bits; what clients     *)
(* write for a few rounds and commitments that reach every length of an    *)
(* integer, and all messages of up to six of the bytes 1, 2 and 5,         *)
(* enough for an entry or an amount that is one byte too long or one bit   *)
(* too large.                                                              *)
(*                                                                         *)
(* capacity: packets of Solana's size and smaller ones, up to 18           *)
(* participants, commitments of 28, 29 and 103 bytes.                      *)
(*                                                                         *)
(* search: six wallets, caps below and above the rings, one probe that     *)
(* throws.                                                                 *)
(***************************************************************************)
EXTENDS MessageReader

CONSTANTS
  ParticipantSlots, ChannelSlots, PacketSizes, MaxParticipants, MaxEntries,
  MessageLengths,                 \* of RoundCapacity
  Wallets, DenseCaps, MaxErrors   \* of RoundSearch

VARIABLES
  part,                                     \* the one that runs
  search, size, largest, done,              \* of RoundCapacity
  mode, cap, pairs, mostChannels, longestRing, pc, tried, low, high, found,
  best, errors                              \* of RoundSearch

Measuring == INSTANCE RoundCapacity WITH best <- largest
Searching == INSTANCE RoundSearch WITH count <- tried

ASSUME RoundCapacityAssumption ==
  Measuring!CapacityAssumption /\ ParticipantSlots \in Nat \ {0} /\ ChannelSlots \in Nat \ {0}
ASSUME RoundSearchAssumption == Searching!SearchAssumption

Amounts == {0, 3, 4, 15, 16, 31}
Ids == {0, 5}
Entry(payee, target) == [payee |-> payee, target |-> target]
MCRounds ==
  {<< [id |-> i, entries |-> <<Entry(1, n)>>], [id |-> k, entries |-> <<>>] >> :
     i \in Ids, k \in Ids, n \in Amounts} \cup
  {<< [id |-> i, entries |-> <<Entry(1, n), Entry(2, m)>>],
      [id |-> 2, entries |-> <<Entry(0, m)>>] >> : i \in Ids, n \in Amounts, m \in Amounts}
MCCommitments ==
  [payer : Ids, payee : Ids, token : {2}, amount : Amounts, settler : {6, NoSettler}]

-----------------------------------------------------------------------------
ReaderRests ==
  /\ kind = "none" /\ count = 0 /\ msg = <<>>
  /\ offset = 0 /\ blocks = <<>> /\ left = 0 /\ read = <<>> /\ verdict = "none"
MeasuringRests ==
  /\ search = [kind |-> "none"] /\ size = [p |-> 0, c |-> 0] /\ largest = size
  /\ done = FALSE
SearchRests ==
  /\ mode = "none" /\ cap = 0 /\ pairs = <<>> /\ mostChannels = <<>> /\ longestRing = 0
  /\ pc = "none" /\ tried = 0 /\ low = 0 /\ high = 0 /\ found = 0
  /\ best = Searching!None /\ errors = 0

WireInit ==
  \/ part = "reader" /\ Init /\ MeasuringRests /\ SearchRests
  \/ part = "capacity" /\ ReaderRests /\ Measuring!Init /\ SearchRests
  \/ part = "search" /\ ReaderRests /\ MeasuringRests /\ Searching!SearchInit

measuringVars == <<search, size, largest, done>>
searchVars ==
  <<mode, cap, pairs, mostChannels, longestRing, pc, tried, low, high, found, best, errors>>
wireVars == <<part, vars, measuringVars, searchVars>>

WireStep ==
  /\ \/ part = "reader" /\ Next /\ UNCHANGED <<measuringVars, searchVars>>
     \/ part = "capacity" /\ Measuring!Next /\ UNCHANGED <<vars, searchVars>>
     \/ part = "search" /\ Searching!SearchStep /\ UNCHANGED <<vars, measuringVars>>
  /\ UNCHANGED part
ProbeThrows ==
  part = "search" /\ Searching!ProbeThrows /\ UNCHANGED <<part, vars, measuringVars>>

WireSpec ==
  WireInit /\ [][WireStep \/ ProbeThrows]_wireVars /\ WF_wireVars(WireStep)

-----------------------------------------------------------------------------
\* What a client wrote is accepted and read as it was meant, the second reading
\* of a round finds what the first found, and no integer is truncated, also in
\* messages that no client would write (ReadsWhatWasWritten, ReadingsAgree,
\* NoBitsAreLost).
MessagesAreReadRight ==
  part = "reader" => ReadsWhatWasWritten /\ ReadingsAgree /\ NoBitsAreLost

\* Every search ends with the largest that it could have found, among rounds that
\* the program would take, and a probe that throws costs it one number of
\* participants at most (SearchFindsTheLargest of RoundCapacity and RoundSearch,
\* MeasuredRoundsAreRounds, SmallRingsComeFirst, ErrorsCostOneCount).
SearchesFindTheLargest ==
  /\ [](part = "capacity" => Measuring!MeasuredRoundsAreRounds)
  /\ [](part = "search" => Searching!SmallRingsComeFirst /\ Searching!ErrorsCostOneCount)
  /\ <>(CASE part = "capacity" -> done /\ Measuring!SearchFindsTheLargest
          [] part = "search" -> pc \in {"done", "failed"} /\ Searching!SearchFindsTheLargest
          [] part = "reader" -> verdict # "reading")
=============================================================================
