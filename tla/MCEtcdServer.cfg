SPECIFICATION MCSpec
CONSTANTS
  Keys = {1}
  LeaseIDs = {1}
  MaxIndex = 4
  Readers = {1, 2}
INVARIANTS AppliesOnce Startable ReadsAreLinearizable
PROPERTY ReadsReturn
CHECK_DEADLOCK FALSE
