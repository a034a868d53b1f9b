SPECIFICATION MCSpec
CONSTANTS
  Watchers = {1, 2}
  Keys = {1, 2}
  Watched <- MCWatched
  ChanBufLen = 1
  WatchBatchMaxRevs = 1
  MaxRev = 3
  StartRevs = {0, 2}
INVARIANTS  Ordered ProgressIsHonest NoWatchPanic
 
CHECK_DEADLOCK FALSE
