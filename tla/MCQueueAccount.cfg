CONSTANTS
  ItemSize = 96
  MetaSize = 33
  HeaderSize = 12
  Align = 8
  AccLen = 467
  MaxMetas = 25
  MaxArgs = 512
  Ids = {i1, i2, i3}
  Shapes <- MCShapes
SYMMETRY Symmetry
SPECIFICATION Spec
INVARIANTS TypeOK WalkReadsWholeItems HeaderMatchesItems ReturnedIndexFindsItem PurgeMatchesRemovals
PROPERTIES RefusedOnlyWhenOccupied ImplementsMap
