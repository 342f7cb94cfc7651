SPECIFICATION Spec
CONSTANTS
  NumSectors = 21
  NumDirect = 2
  Names = {x}
  MaxDepth = 2
  Sizes = {3, 5, 7}
  Values = {1}
  Ids = {1}
  NumDirEntries = 2
  Recursives = {}
  Careful = TRUE
SYMMETRY Symmetry
INVARIANTS FilesAreWhole
PROPERTIES ImplementsTree
