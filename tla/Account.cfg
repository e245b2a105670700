\* Two connections, an asset and a position with cross margin, one restart.
CONSTANTS
  MaxDrift = 1
  Downtime = 3
  MaxTime = 5
  Burst = 2
  Ahead = 1
  Enabled = TRUE
  Backoff = 2
  Connections = {c1, c2}
  Master = c1
  Funds = {f}
  Positions = {p}
  Isolated = {}
  MaxRequests = 3
  MaxChanges = 2
  MaxDown = 1
SPECIFICATION AccountSpec
INVARIANTS AccountTypeOK NoncesUnique NoncesGrow BalancesConverge
PROPERTIES SilenceKept
CONSTRAINT OneAtATime
