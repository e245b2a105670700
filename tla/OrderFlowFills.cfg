\* A fill that happens while the stream is down.
CONSTANTS
  o1 = o1
  o2 = o2
  s1 = s1
  s2 = s2
  Orders = {o1}
  Symbols = {s1}
  SymbolOf <- OneSymbol
  N = 1
  Lots = 2
  MaxVersion = 2
  MaxDown = 1
SPECIFICATION Spec
INVARIANTS FillsReachClients
