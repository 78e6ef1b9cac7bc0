SPECIFICATION AsyncFairSpec
CONSTANTS
  Headers = {1, 2, 4}
  NonceOf <- MCNonceOf
  PrevOf <- MCPrevOf
  NotarizedBy <- MCNotarizedBy
  RootOf <- MCRootOf
  FirstResult <- MCFirstResult
  Roots = {0}
  MaxNotarized = 1
  MaxDismissedBatches = 1
  MaxCacheSize = 1
  MaxRetryAttempts = 1
  Failures = TRUE
INVARIANT AsyncTypeOK
PROPERTY CallsReturn
CHECK_DEADLOCK FALSE
