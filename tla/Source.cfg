CONSTANTS
  e1 = e1
  e2 = e2
  e3 = e3
  Event = {e1, e2, e3}
  Ts <- MCTs
  Off <- MCOff
  Val <- MCVal
  Thread = {t1, t2}
  Target = {1, 2}
  MaxSize = 2
  MaxAdvances = 3
  NoEvent = NoEvent
SPECIFICATION FairSourceSpec
INVARIANTS
  SourceTypeOK
  DrainedBeforeConfirm
  Custody
PROPERTY
  AdvanceReturns
CHECK_DEADLOCK FALSE
