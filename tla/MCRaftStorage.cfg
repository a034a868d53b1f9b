CONSTANTS
  n1 = n1
  n2 = n2
  n3 = n3
  c1 = c1
  Voters = {n1, n2}
  Outgoing = {}
  Learners = {n3}
  Value = {v1}
  NoData = NoData
  ReadCtx = {}
  None = None
  NoCtx = NoCtx
  CampaignTransfer = CampaignTransfer
  PreVote = FALSE
  CheckQuorum = FALSE
  MaxInflight = 2
  MaxEntries = 1
  MaxUint64 = 1000
  Budget <- BStorage
  Prompt = FALSE
  Impatient = {}
SPECIFICATION SpecSettled
INVARIANTS
  LogIndexesOrdered
  NoPanic
  HandedIsDurable
  MatchIsTruthful
CHECK_DEADLOCK FALSE
