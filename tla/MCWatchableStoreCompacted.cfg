SPECIFICATION MCCompacted
CONSTANTS
  Watchers = {1, 2}
  Keys = {1, 2}
  Watched <- MCWatched
  ChanBufLen = 1
  WatchBatchMaxRevs = 1
  MaxRev = 3
  StartRevs = {1}
INVARIANT AlwaysReliable
CHECK_DEADLOCK FALSE
