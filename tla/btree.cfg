\* 15 entries at most, four to a leaf and four children to a node, ten pages
SPECIFICATION Spec
CONSTANTS
  Attrs = {1, 2, 3, 4, 5}
  Rids <- MCRids
  LeafMax = 4
  InternalMax = 4
  Pages = {2, 3, 4, 5, 6, 7, 8, 9, 10, 11}
  NoBound = NoBound
  Tables <- MCTables
  MaxCalls = 3
INVARIANTS
  TypeOK
  TreeStaysValid
  RangesAnswered
  CallsEndClean
  InsertsAreMarked
PROPERTIES
  RefusesForCause
