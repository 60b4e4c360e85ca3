CONSTANTS
  k1 = k1
  k2 = k2
  Key = {k1, k2}
  Thread = {t1, t2}
  LogCapacity = 1
  FlushEvery = 2
  KeyOf <- MCKeyOf
  MaxEvents = 3
  MaxCaptures = 2
  MaxRestores = 1
  MaxAttempts = 1
  NoSnapshot = NoSnapshot
SPECIFICATION CheckpointSpec
INVARIANTS
  JournalBridges
  SinkKeepsOrder
  PositionsAgree
  DeltasConserved
CHECK_DEADLOCK FALSE
SYMMETRY Symmetry
