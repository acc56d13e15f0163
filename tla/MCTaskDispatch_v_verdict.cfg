SPECIFICATION FairSpec
CONSTANTS
  None = None
  Changes <- MCOneChange
  Workers = {w1, w2}
  MaxAttempts = 2
  MaxDeliver = 2
  MaxDeaths = 1
  Faults = {}

PROPERTY ClaimsGetVerdict
CHECK_DEADLOCK FALSE
