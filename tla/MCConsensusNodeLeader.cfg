SPECIFICATION NodeSpec
CONSTANTS
  s1 = s1
  s2 = s2
  o1 = o1
  o2 = o2
  f1 = f1
  Hash = {0, 1, 2, 3}
  NonceOf <- MCNonceOf
  RoundOf <- MCRoundOf
  PrevOf <- MCPrevOf
  Genesis = 0
  Group = {s1, o1, f1}
  Own = {s1}
  Faulty = {f1}
  Equivocators = {}
  Threshold = 2
  LeaderOf <- MCSelfLeads
  MaxRound = 2
  MaxSkip = 1
  MaxStepBack = 1
  Retention = 4
  MaxEvidence = 2
  InfraFailures = FALSE
  IsMeta = TRUE
  Pooled = {0, 1, 3}
ACTION_CONSTRAINT MCOneStepBack
INVARIANTS OneSignaturePerRound 
PROPERTIES QuorumHolds
CHECK_DEADLOCK FALSE
