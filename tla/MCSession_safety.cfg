SPECIFICATION Spec
CONSTANTS
  MaxSeq = 5
  MaxCommands = 3
  QueueCapacity = 2
  Undecodable <- FourthUndecodable
INVARIANTS
  TypeOK
  NoGap
  CommandsAccounted
  BuildNeverRefused
PROPERTIES
  GracefulDrain
  ReadNeverRepeats
  ReportOrder
  NoDialAfterShutdown
