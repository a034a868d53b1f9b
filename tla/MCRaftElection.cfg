CONSTANTS
  n1 = n1
  n2 = n2
  n3 = n3
  c1 = c1
  Voters = {n1, n2, n3}
  Outgoing = {}
  Learners = {}
  Value = {v1}
  NoData = NoData
  ReadCtx = {}
  None = None
  NoCtx = NoCtx
  CampaignTransfer = CampaignTransfer
  PreVote = FALSE
  CheckQuorum = FALSE
  MaxInflight = 1
  MaxEntries = 1
  MaxUint64 = 1000
  Budget <- BElection
  Prompt = TRUE
  Impatient = {n1, n2, n3}
SYMMETRY SymServer
SPECIFICATION SpecElection
INVARIANTS
  ElectionSafety
  
CHECK_DEADLOCK FALSE
