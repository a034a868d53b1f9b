SPECIFICATION SpecSafe
CONSTANTS
  Nodes = {1, 2, 3}
  MaxLog = 5
  MaxUint64 = 99
INVARIANTS TypeOK   ConfRestorable SameConf 
PROPERTIES QuorumsMeet
CHECK_DEADLOCK FALSE
