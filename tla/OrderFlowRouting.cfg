\* Two connections, no stream: routing, identification and replies.
CONSTANTS
  o1 = o1
  o2 = o2
  s1 = s1
  s2 = s2
  Orders = {o1}
  Symbols = {s1}
  SymbolOf <- OneSymbol
  N = 2
  Lots = 1
  MaxVersion = 3
  MaxDown = 1
SPECIFICATION RoutingSpec
INVARIANTS NoStarvation NamedExists OnlyRefusedForgotten
PROPERTIES AnsweredOrRefused
