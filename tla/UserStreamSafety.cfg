\* One account in depth: two listen-keys, user-trades for two symbols.
CONSTANTS
  a1 = a1
  Accounts = {a1}
  TradeSymbols = 2
  MaxKey = 2
  MaxTradeAnswers = 3
SPECIFICATION Spec
INVARIANTS TypeOK ZombieSound ReadyMeansDownloaded DownloadComing NoOrphan StaleIsStopped
PROPERTIES ReplacedCleanly ImplementsLifecycle
