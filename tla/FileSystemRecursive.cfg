SPECIFICATION Spec
CONSTANTS
  NumSectors = 10
  NumDirect = 2
  Names = {x, y}
  MaxDepth = 3
  Sizes = {1}
  Values = {1}
  Ids = {}
  NumDirEntries = 2
  Recursives = {FALSE, TRUE}
  Careful = TRUE
SYMMETRY Symmetry
INVARIANTS OwnedAreMarked
PROPERTIES ImplementsTree
