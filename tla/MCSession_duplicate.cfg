SPECIFICATION Spec
CONSTANTS
  MaxSeq = 4
  MaxCommands = 0
  QueueCapacity = 1
  Undecodable <- AllDecodable
INVARIANTS
  ResumedEventWasMissed
