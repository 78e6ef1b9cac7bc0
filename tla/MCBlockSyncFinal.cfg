SPECIFICATION SyncSpec
CONSTANTS
  Block = {0, 1, 2, 3}
  Anchor = 0
  ParentOf <- MCParentOf
  BlockNonce <- MCBlockNonce
  BlockRound <- MCBlockRound
  LateBlocks = {}
  Canonical = {2}
  Notarizable = {2}
  Known = {1, 2, 3}
  MaxFaults = 0
CHECK_DEADLOCK FALSE
PROPERTY RollBackAboveFinal
