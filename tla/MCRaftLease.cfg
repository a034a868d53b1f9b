CONSTANTS
  n1 = n1
  n2 = n2
  n3 = n3
  c1 = c1
  Voters = {n1, n2, n3}
  Outgoing = {}
  Learners = {}
  Value = {v1}
  NoData = NoData
  ReadCtx = {}
  None = None
  NoCtx = NoCtx
  CampaignTransfer = CampaignTransfer
  PreVote = TRUE
  CheckQuorum = TRUE
  MaxInflight = 1
  MaxEntries = 1
  MaxUint64 = 1000
  Budget <- BPreVote
  Prompt = TRUE
  Impatient = {n2, n3}
SPECIFICATION SpecLease
PROPERTIES
  TransferToCaughtUp
INVARIANTS
  PreVoteBeforeVote
CHECK_DEADLOCK FALSE
