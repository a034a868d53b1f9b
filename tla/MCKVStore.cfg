SPECIFICATION MCSpec
CONSTANTS
  Keys = {1, 2}
  MaxRev = 5
  BatchLimit = 1
  Watched = 3
  Crashes = 1
  Behind = 1
INVARIANTS ReadIsSnapshot WriterReadsItsWrites CompactionIsExact
  
CHECK_DEADLOCK FALSE
