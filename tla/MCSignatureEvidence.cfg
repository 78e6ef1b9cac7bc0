SPECIFICATION Spec
CONSTANTS
  k1 = k1
  k2 = k2
  k3 = k3
  Hash = {1, 2, 3}
  NonceOf <- MCNonceOf
  RoundOf <- MCRoundOf
  Group = {k1, k2, k3}
  Faulty = {k3}
  Threshold = 2
  MaxRound = 4
  MaxEvidence = 3
  InfraFailures = TRUE
SYMMETRY MCSymmetry
INVARIANTS TypeOK AssembledSharesValid
PROPERTIES  QuorumEvidenceKept
CHECK_DEADLOCK FALSE
