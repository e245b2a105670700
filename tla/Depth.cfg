\* Two levels, four changes, two connections lost, one retry; log::fatal ends a run.
CONSTANTS
  Levels = {bid, ask}
  MaxRetries = 1
  MaxVersion = 4
  MaxDrops = 2
SPECIFICATION Spec
INVARIANTS TypeOK BookExact SyncedIsCurrent SnapshotComing
PROPERTIES NeverBack ImplementsMarketBook
CHECK_DEADLOCK FALSE
