SPECIFICATION ComponentsSpec
CONSTANTS
  o1 = o1
  o2 = o2
  o3 = o3
  f1 = f1
  Hash = {0, 1, 2, 3, 4}
  Genesis = 0
  RoundOf <- MCRoundOf
  Group = {o1, o2, o3, f1}
  Equivocators = {f1}
  Threshold = 3
  Headers = {1, 2, 3, 4}
  NonceOf <- MCNonceOf
  Roots = {0, 1}
  FirstResult <- MCFirstResult
  MaxNotarized = 2
  MaxDismissedBatches = 1
  ProofHash = {1, 2, 3, 5, 6, 9}
  ProofNonce <- MCProofNonce
  ProofRound <- MCProofRound
  Excluded = {9}
  Sig = {s1}
  Thread = {t1, t2}
  CleanupNonce = {3, 8, 9}
  MaxProofsPerNonce = 2
  CleanupNonceDelta = 3
  BucketSize = 4
  a1 = a1
  a2 = a2
  a3 = a3
  b1 = b1
  NoKey = NoKey
  Key = {a1, a2, a3, b1}
  OwnerOf <- MCOwnerOf
  MinNodes = 1
  MaxNodes = {1, 3}
  MaxFromQueue = 2
  MaxJailings = 2
  Start = {1, 2, 3}
  StartEpoch <- MCStartEpoch
  CanonicalStart = {2, 3}
  MaxEvictions = 1
  MaxReverts = 1
  MaxCalls = 2
SYMMETRY MCSymmetry
INVARIANTS
  Agreement
  IndexesAgree
  PendingGapless
  PendingAsCommitted
  DismissedAnchored
  IndexConsistent
  KeepsLowestProofs
  EquivocationReported
  QueueWellFormed
  RegistrationAgrees
  UnjailedInFront
  ArmedBySettled
  NotForgotten
PROPERTY CleanupKeepsRecent
