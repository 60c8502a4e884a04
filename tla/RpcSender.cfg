SPECIFICATION SenderSpec
CONSTANTS
  Modes = {"versioned", "legacy", "anchor"}
  MaxAttempts = 4
  MaxPolls = 3
PROPERTIES
  SendsOnce
CHECK_DEADLOCK FALSE
