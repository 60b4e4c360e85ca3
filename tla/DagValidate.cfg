CONSTANT
  Operator = {o1, o2, o3}
SPECIFICATION ValidateSpec
INVARIANT
  ValidateDecides
PROPERTY
  ValidateReturns
CHECK_DEADLOCK FALSE
