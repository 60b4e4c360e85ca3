CONSTANTS
  e1 = e1
  e2 = e2
  e3 = e3
  Event = {e1, e2, e3}
  Ts <- MCTs
  Off <- MCOff
  Val <- MCVal
  Thread = {t1}
  Operator = {o1, o2}
SPECIFICATION TopologySpec
INVARIANT
  NoneSkipped
CHECK_DEADLOCK FALSE
