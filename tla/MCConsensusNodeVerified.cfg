SPECIFICATION NodeSpec
CONSTANTS
  s1 = s1
  s2 = s2
  o1 = o1
  o2 = o2
  f1 = f1
  Hash = {0, 1, 2, 3, 4}
  NonceOf <- MCNonceOf
  RoundOf <- MCRoundOf
  PrevOf <- MCPrevOf
  Genesis = 0
  Group = {s1, o1, o2, f1}
  Own = {s1}
  Faulty = {f1}
  Equivocators = {f1}
  Threshold = 3
  LeaderOf <- MCOtherLeads
  MaxRound = 2
  MaxSkip = 1
  MaxStepBack = 0
  Retention = 4
  MaxEvidence = 2
  InfraFailures = FALSE
  IsMeta = FALSE
  Pooled = {0, 1, 2, 3, 4}
SYMMETRY MCSymmetry
INVARIANTS MadeProofsVerified
CHECK_DEADLOCK FALSE
