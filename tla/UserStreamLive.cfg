\* One account, one replacement, no user-trades: the progress properties.
CONSTANTS
  a1 = a1
  Accounts = {a1}
  TradeSymbols = 0
  MaxKey = 2
  MaxTradeAnswers = 0
SPECIFICATION FairSpec
PROPERTIES StreamBecomesCurrent DownloadEnds
