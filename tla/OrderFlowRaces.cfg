\* One order, one connection: answers, stream and snapshots race, with history.
CONSTANTS
  o1 = o1
  s1 = s1
  Orders = {o1}
  Symbols = {s1}
  SymbolOf <- OneSymbol
  N = 1
  Lots = 2
  MaxVersion = 2
  MaxDown = 1
SPECIFICATION HistorySpec
INVARIANTS TypeOK ViewConverges FillsOnce
PROPERTIES ClosedStaysClosed ImplementsOrderView
