SPECIFICATION SystemFairSpec
CONSTANTS
  a = a
  None = None
  Channels <- OneChannel
  News <- SomeNews
  MaxControls = 2
  MaxNews = 1
  UpdateCap = 4
  ControlCap = 2
  EventCap = 1
  RequestCap = 3
  MaxLinks = 3
INVARIANTS
  AudioIsCurrent
  IdleMeansGone
PROPERTIES
  AttemptEnds
  DisconnectTakesEffect
  EverythingEnds
