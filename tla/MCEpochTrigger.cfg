SPECIFICATION TriggerSpec
CONSTANTS
  Start = {1, 2}
  StartEpoch <- MCStartEpoch
  CanonicalStart = {2}
  MaxEvictions = 0
  MaxReverts = 1
  MaxCalls = 2
INVARIANT SettledArms
CHECK_DEADLOCK FALSE
