CONSTANTS
  e1 = e1
  e2 = e2
  o1 = o1
  o2 = o2
  Event = {e1, e2}
  Ts <- MCTs
  Off <- MCOff
  Val <- MCVal
  Thread = {t1, t2}
  Target = {1, 2}
  MaxSize = 1
  MaxAdvances = 2
  NoEvent = NoEvent
  Operator = {o1, o2}
  PipelineEdges <- MCEdges
  Ping = {}
  WindowSize = 2
SPECIFICATION EngineSpec
INVARIANTS
  PublishedComplete
  ClassifiedOnce
PROPERTY
  ImplementsEventTime
CHECK_DEADLOCK FALSE
SYMMETRY Symmetry
