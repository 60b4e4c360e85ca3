CONSTANTS
  MaxEvents = 120
  feed = feed
  Event <- MCEvent
  Ts <- MCTs
  Off <- MCOff
  Val <- MCVal
  Ping <- MCPing
  Thread = {feed}
  Target <- MCTarget
  MaxSize = 8
  MaxAdvances = 1000
  NoEvent = NoEvent
  aggregate = aggregate
  track = track
  commit = commit
  Operator = {aggregate, track, commit}
  PipelineEdges <- MCEdges
  WindowSize = 5000
  IdleGap = 3000
SPECIFICATION FeedSpec
INVARIANTS
  CursorAtOffset
  CommittedIsDurable
  FinishedMeansPublished
PROPERTY
  FeedResponds
CHECK_DEADLOCK FALSE
