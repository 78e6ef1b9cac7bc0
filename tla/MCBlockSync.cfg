SPECIFICATION SyncSpec
CONSTANTS
  Block = {0, 1, 2, 3, 4}
  Anchor = 0
  ParentOf <- MCParentOf
  BlockNonce <- MCBlockNonce
  BlockRound <- MCBlockRound
  LateBlocks = {4}
  Canonical = {2}
  Notarizable = {1, 2, 3}
  Known = {1, 2, 3, 4}
  MaxFaults = 1
ACTION_CONSTRAINT MCFewProvenBlocks
CHECK_DEADLOCK FALSE
INVARIANTS
  SyncTypeOK
  SettledBelowFinal
  SettledNotReplaced
  AmbiguityFlagged
  RollBackNotBlocked
PROPERTIES FinalForward FinalOnChain
