SPECIFICATION Spec
CONSTANTS
  a = a
  b = b
  None = None
  Channels <- OneChannel
  News <- NoNews
  MaxControls = 2
  MaxNews = 0
  UpdateCap = 4
  ControlCap = 4
  EventCap = 1
  RequestCap = 2
INVARIANTS
  UpdateMeansReconnectOrMove
