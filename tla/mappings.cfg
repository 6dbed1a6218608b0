SPECIFICATION Spec
CONSTANTS
  map1 = map1
  map2 = map2
  map3 = map3
  Mappings = {map1, map2, map3}
  Seed <- TwoSeeds
  Names = {1, 2}
  Formats = {"x12", "xml"}
  Requests = {r1, r2}
  NoRow = NoRow
  Unsaid = Unsaid
  FaultKinds = {"db", "late"}
  MaxFaults = 1
INVARIANTS TypeOK RequestsStayKnown
PROPERTIES LostEditsOverlap
