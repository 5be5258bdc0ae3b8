SPECIFICATION Spec
CONSTANTS
  a = a
  b = b
  None = None
  Channels <- OneChannel
  News <- AllNews
  MaxControls = 2
  MaxNews = 1
  UpdateCap = 4
  ControlCap = 4
  EventCap = 1
  RequestCap = 2
INVARIANTS
  ConnectedHasEndpoint
