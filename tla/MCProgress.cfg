SPECIFICATION ProgressSpec
CONSTANTS
  k1 = k1
  k2 = k2
  k3 = k3
  Hash = {1, 2, 3}
  NonceOf <- MCNonceOf
  RoundOf <- MCRoundOf
  Group = {k1, k2, k3}
  Faulty = {k3}
  Threshold = 2
  MaxRound = 3
  MaxEvidence = 2
  InfraFailures = FALSE
  Block = {0, 1, 2}
  Anchor = 0
  ParentOf <- MCParentOf
  BlockNonce <- MCBlockNonce
  BlockRound <- MCBlockRound
  LateBlocks = {}
  Canonical = {2}
  Notarizable = {2}
  Known = {1}
  MaxFaults = 1
  Start = {1, 3}
  StartEpoch <- MCStartEpoch
  CanonicalStart = {1, 3}
  MaxEvictions = 0
  MaxReverts = 1
  MaxCalls = 2
ACTION_CONSTRAINT MCEarlyDivergence
CHECK_DEADLOCK FALSE
PROPERTIES QuorumSettles Converges EpochStartArms
