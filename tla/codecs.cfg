SPECIFICATION Spec
CONSTANTS
  Words <- Alphabet
  Documents <- Orders
  Samples <- Wires
  Dates = {"20260215"}
  Times = {"1430"}
  ISAWidth = 3
  Within <- Names
  Today <- Day
INVARIANTS ContentSurvives RoutingSurvives WrittenIsAccepted TrailerCounts
