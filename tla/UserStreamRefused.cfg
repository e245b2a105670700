\* The first listen-key answer is an error: does the account still get a stream?
CONSTANTS
  a1 = a1
  Accounts = {a1}
  TradeSymbols = 0
  MaxKey = 1
  MaxTradeAnswers = 0
SPECIFICATION FairSpec
PROPERTY EveryAccountGetsStream
