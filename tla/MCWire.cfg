SPECIFICATION WireSpec
CONSTANTS
  Base = 4
  Groups = 3
  LastChunk = 1
  MaxId = 15
  Rounds <- MCRounds
  Commitments <- MCCommitments
  NoSettler = NoSettler
  StrayBytes = {1, 2, 5}
  MaxLength = 6
  ParticipantSlots = 9
  ChannelSlots = 46
  PacketSizes = {300, 360, 480, 1232}
  MaxParticipants = 18
  MaxEntries = 32
  MessageLengths = {28, 29, 103}
  Wallets = 6
  DenseCaps = {2, 4, 9, 13}
  MaxErrors = 1
INVARIANTS
  MessagesAreReadRight
PROPERTIES
  SearchesFindTheLargest
CHECK_DEADLOCK FALSE
