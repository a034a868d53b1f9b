CONSTANTS
  n1 = n1
  n2 = n2
  n3 = n3
  c1 = c1
  Voters = {n1}
  Outgoing = {}
  Learners = {n3}
  Value = {v1}
  NoData = NoData
  ReadCtx = {}
  None = None
  NoCtx = NoCtx
  CampaignTransfer = CampaignTransfer
  PreVote = FALSE
  CheckQuorum = FALSE
  MaxInflight = 1
  MaxEntries = 1
  MaxUint64 = 1000
  Budget <- BSingle
  Prompt = FALSE
  Impatient = {}
SPECIFICATION SpecSettled
INVARIANTS
  HandedIsDurable
CHECK_DEADLOCK FALSE
