CONSTANTS
  n1 = n1
  n2 = n2
  n3 = n3
  c1 = c1
  Voters = {n1, n2, n3}
  Outgoing = {}
  Learners = {}
  Value = {v1}
  NoData = NoData
  ReadCtx = {c1, c2}
  None = None
  NoCtx = NoCtx
  CampaignTransfer = CampaignTransfer
  PreVote = FALSE
  CheckQuorum = FALSE
  MaxInflight = 1
  MaxEntries = 1
  MaxUint64 = 1000
  Budget <- BLogs
  Prompt = TRUE
  Impatient = {n3}
SPECIFICATION SpecLogs
INVARIANTS
  LogMatching
  StateMachineSafety
  LeaderCompleteness
  ReadIsLinearizable
CHECK_DEADLOCK FALSE
