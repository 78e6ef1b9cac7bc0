SPECIFICATION AsyncSpec
CONSTANTS
  Headers = {1, 2, 3, 4}
  NonceOf <- MCNonceOf
  PrevOf <- MCPrevOf
  NotarizedBy <- MCNotarizedBy
  RootOf <- MCRootOf
  FirstResult <- MCFirstResult
  Roots = {0}
  MaxNotarized = 1
  MaxDismissedBatches = 1
  MaxCacheSize = 2
  MaxRetryAttempts = 1
  Failures = FALSE
INVARIANTS PauseExcludesExecution PendingIsChain ReplacedResultsRemoved
CHECK_DEADLOCK FALSE
