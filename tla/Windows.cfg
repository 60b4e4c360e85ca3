CONSTANTS
  e1 = e1
  e2 = e2
  e3 = e3
  e4 = e4
  Event = {e1, e2, e3, e4}
  Ts <- MCTs
  Off <- MCOff
  Val <- MCVal
  Thread = {t1, t2}
  WindowSize = 2
  Frontier = {1, 2, 4}
SPECIFICATION LayerSpec
INVARIANTS
  WindowTypeOK
  NoEarlyClose
  ResultMatchesOutcome
  CatalogAgrees
  CombineIsFold
PROPERTY
  PublishedImmutable
CHECK_DEADLOCK FALSE
