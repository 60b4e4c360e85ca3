CONSTANTS
  MaxEvents = 20
  feed = feed
  Event <- MCEvent
  Ts <- MCTs
  Off <- MCOff
  Val <- MCVal
  Ping <- MCPing
  Thread = {feed}
  Target <- MCTarget
  MaxSize = 256
  MaxAdvances = 1000
  NoEvent = NoEvent
  aggregate = aggregate
  track = track
  commit = commit
  Operator = {aggregate, track, commit}
  PipelineEdges <- MCEdges
  WindowSize = 5000
  IdleGap = 3000
SPECIFICATION FeedSpec
PROPERTY
  IdleOnlyWhenQuiet
CHECK_DEADLOCK FALSE
