SPECIFICATION Spec
CONSTANTS
  a = a
  b = b
  None = None
  Channels <- TwoChannels
  News <- AllNews
  MaxControls = 3
  MaxNews = 2
  UpdateCap = 2
  ControlCap = 1
  EventCap = 1
  RequestCap = 1
SYMMETRY Swap
INVARIANTS
  TypeOK
  Shape
  ViewTruthful
  Agreement
