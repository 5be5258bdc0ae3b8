SPECIFICATION FairSpec
CONSTANTS
  MaxSeq = 2
  MaxCommands = 1
  QueueCapacity = 1
  Undecodable <- AllDecodable
PROPERTIES
  ShutdownCompletes
  BrokenStreamEnds
  BackOnline
  BuildResolves
