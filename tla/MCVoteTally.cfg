CONSTANTS
  Id = {n1, n2, n3, n4}
  MaxIndex = 2
  MaxUint64 = 1000
SYMMETRY Symmetry
SPECIFICATION Spec
INVARIANTS
  VoteResultIsExact
  CommittedIsExact
PROPERTIES
  OutcomeIsFinal
CHECK_DEADLOCK FALSE
