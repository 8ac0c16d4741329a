SPECIFICATION FairSpec
CONSTANTS
  Configs <- MCConfigs
  ServiceDepth = 1
INVARIANTS BuffersConserved NoLostWakeup PriorityKeptOnce
PROPERTY PriorityEventuallySent
CHECK_DEADLOCK FALSE
