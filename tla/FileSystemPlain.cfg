SPECIFICATION Spec
CONSTANTS
  NumSectors = 10
  NumDirect = 2
  Names = {x, y}
  MaxDepth = 2
  Sizes = {1, 2}
  Values = {1}
  Ids = {1}
  NumDirEntries = 2
  Recursives = {FALSE}
  Careful = TRUE
SYMMETRY Symmetry
INVARIANTS SectorsOwnedOnce FreeMapExact
PROPERTIES FollowsItsPath ImplementsTree
