\* A cancel-all that is done and published as rejected.
CONSTANTS
  o1 = o1
  o2 = o2
  s1 = s1
  s2 = s2
  Orders = {o1, o2}
  Symbols = {s1, s2}
  SymbolOf <- TwoSymbols
  N = 1
  Lots = 2
  MaxVersion = 2
  MaxDown = 1
SPECIFICATION Spec
INVARIANTS CancelAllTruthful
